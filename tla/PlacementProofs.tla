-------------------------- MODULE PlacementProofs --------------------------
(***************************************************************************)
(* Proofs about drain_queue, for every job and node that may be            *)
(* registered, valid or not, and every order of the nodes.                 *)
(***************************************************************************)
EXTENDS Placement, SchedulerProofs

\* Only what passed validation is in the store; an evaluation exists only for
\* a registered job; nothing was refused so far.
AcceptInv ==
  /\ DOMAIN nodes \subseteq NamedNode
  /\ order \in Bijection(1 .. Cardinality(NamedNode), NamedNode)
  /\ job # NoJob => job \in JobSpec /\ ValidJob(job)
  /\ job = NoJob => queue = <<>> /\ blocked = <<>>
  /\ evals \in Nat /\ queue \in Seq(Nat) /\ blocked \in Seq(Nat)
  /\ ~refused

LEMMA AcceptInit == Init => AcceptInv
  BY DEF Init, AcceptInv

\* list_nodes() returns every node that is registered.
LEMMA AllListed ==
  ASSUME AcceptInv
  PROVE  order \in Seq(NamedNode) /\ DOMAIN nodes \subseteq {order[i] : i \in DOMAIN order}
<1>1. Cardinality(NamedNode) \in Nat
  <2>1. NamedNode \subseteq Node
    BY DEF NamedNode
  <2> QED BY <2>1, PlacementAssumption, FS_Subset, FS_CardinalityType
<1>2. /\ order \in [1 .. Cardinality(NamedNode) -> NamedNode]
      /\ \A n \in NamedNode : \E i \in 1 .. Cardinality(NamedNode) : order[i] = n
  BY DEF AcceptInv, Bijection, Injection, Surjection
<1>3. order \in Seq(NamedNode) /\ DOMAIN order = 1 .. Cardinality(NamedNode)
  BY <1>1, <1>2
<1> QED BY <1>2, <1>3 DEF AcceptInv

\* Every placement that process_eval makes of what is in the store passes
\* Allocation::validate.
LEMMA PlanAccepted ==
  ASSUME AcceptInv, job # NoJob, NEW e, NEW plan,
         plan = ProcessEval(job.task_groups, nodes, allocs, order)
  PROVE  \A i \in DOMAIN plan : Accepted(plan, e, i)
<1> DEFINE groups == job.task_groups
<1>1. /\ job \in JobSpec /\ job.name # "" /\ \A g \in Range(groups) : ValidTaskGroup(g)
      /\ groups \in Seq(Range(groups)) /\ \A g \in Range(groups) : g.count \in Int
  BY PlacementAssumption DEF AcceptInv, ValidJob
<1>2. \A i \in DOMAIN groups : groups[i] \in Range(groups)
  BY DEF Range
<1> HIDE DEF groups
<1>3. \A i \in DOMAIN groups : groups[i].count \in Nat /\ groups[i].name # ""
  <2> SUFFICES ASSUME NEW i \in DOMAIN groups PROVE groups[i].count \in Nat /\ groups[i].name # ""
    OBVIOUS
  <2> DEFINE g == groups[i]
  <2>1. g \in Range(groups)
    BY <1>2
  <2> HIDE DEF g
  <2>2. g.count \in Int /\ ValidTaskGroup(g)
    BY <1>1, <2>1
  <2>3. g.count \in Int /\ g.count >= 0
    BY <2>2 DEF ValidTaskGroup
  <2>4. g.name # ""
    BY <2>2 DEF ValidTaskGroup
  <2>5. g.count \in Nat
    BY <2>3
  <2> QED BY <2>4, <2>5 DEF g
<1>4. plan \in Seq(Placements(groups, nodes))
  <2>1. plan = ProcessEval(groups, nodes, allocs, order)
    BY DEF groups
  <2>2. order \in Seq(NamedNode) /\ DOMAIN nodes \subseteq {order[i] : i \in DOMAIN order}
    BY AllListed
  <2>3. groups \in Seq(Range(groups)) /\ \A i \in DOMAIN groups : groups[i].count \in Nat
    BY <1>1, <1>3
  <2> QED BY <2>1, <2>2, <2>3, PlanFacts
<1> SUFFICES ASSUME NEW i \in DOMAIN plan PROVE Accepted(plan, e, i)
  OBVIOUS
<1>5. plan[i] \in Placements(groups, nodes)
  BY <1>4
<1>6. PICK k \in DOMAIN groups, n \in Usable(nodes) : plan[i] = MakeAlloc(groups[k], GroupDemand(groups[k]), n)
  BY <1>5, PlacementOf
<1>7. plan[i].node # "" /\ plan[i].task_group # ""
  <2>1. n # ""
    BY DEF AcceptInv, NamedNode, Usable
  <2>2. plan[i].node = n /\ plan[i].task_group = groups[k].name
    BY <1>6 DEF MakeAlloc
  <2> QED BY <1>3, <2>1, <2>2
<1> QED BY <1>1, <1>7 DEF Accepted, ValidAllocation

LEMMA AcceptStep == AcceptInv /\ [Next]_vars => AcceptInv'
<1> SUFFICES ASSUME AcceptInv, [Next]_vars PROVE AcceptInv'
  OBVIOUS
<1>1. ASSUME NEW a \in AllocSpec, UpsertAlloc(a) PROVE AcceptInv'
  BY <1>1 DEF UpsertAlloc, AcceptInv
<1>2. ASSUME NEW n \in Node, NEW spec \in NodeSpec, RegisterNode(n, spec) PROVE AcceptInv'
  <2>1. UNCHANGED <<job, order, evals, refused>>
    BY <1>2 DEF RegisterNode
  <2>2. CASE ValidNode(n, spec)
    <3>1. /\ DOMAIN nodes' = DOMAIN nodes \cup {n} /\ n \in NamedNode
          /\ queue' = queue \o blocked /\ blocked' = <<>>
      BY <1>2, <2>2 DEF RegisterNode, ValidNode, NamedNode
    <3>2. queue' \in Seq(Nat) /\ blocked' \in Seq(Nat) /\ (job = NoJob => queue' = <<>>)
      BY <3>1 DEF AcceptInv
    <3> QED BY <2>1, <3>1, <3>2 DEF AcceptInv
  <2>3. CASE ~ValidNode(n, spec)
    <3>1. UNCHANGED <<nodes, queue, blocked>>
      BY <1>2, <2>3 DEF RegisterNode
    <3> QED BY <2>1, <3>1 DEF AcceptInv
  <2> QED BY <2>2, <2>3
<1>3. ASSUME NEW j \in JobSpec, RegisterJob(j) PROVE AcceptInv'
  <2>1. UNCHANGED <<nodes, order, blocked, refused>>
    BY <1>3 DEF RegisterJob
  <2>2. CASE ValidJob(j)
    <3>1. job' = j /\ evals' = evals + 1 /\ queue' = Append(queue, evals')
      BY <1>3, <2>2 DEF RegisterJob
    <3>2. evals' \in Nat /\ queue' \in Seq(Nat) /\ j # NoJob
      BY <3>1, PlacementAssumption DEF AcceptInv
    <3> QED BY <2>1, <2>2, <3>1, <3>2 DEF AcceptInv
  <2>3. CASE ~ValidJob(j)
    <3>1. UNCHANGED <<job, evals, queue>>
      BY <1>3, <2>3 DEF RegisterJob
    <3> QED BY <2>1, <3>1 DEF AcceptInv
  <2> QED BY <2>2, <2>3
<1>4. CASE DrainQueue
  <2> DEFINE e == Head(queue)
             plan == ProcessEval(job.task_groups, nodes, allocs, order)
  <2>1. /\ queue # <<>> /\ refused' = (refused \/ \E i \in DOMAIN plan : ~Accepted(plan, e, i))
        /\ queue' = IF refused' THEN Append(Tail(queue), e) ELSE Tail(queue)
        /\ blocked' = IF refused' THEN blocked ELSE Park(plan, e)
        /\ UNCHANGED <<nodes, job, order, evals>>
    BY <1>4 DEF DrainQueue, ProcessAndApply
  <2>2. job # NoJob
    BY <2>1 DEF AcceptInv
  <2>3. \A i \in DOMAIN plan : Accepted(plan, e, i)
    BY <2>2, PlanAccepted
  <2> HIDE DEF plan
  <2>4. ~refused'
    BY <2>1, <2>3 DEF AcceptInv
  <2>5. e \in Nat /\ Tail(queue) \in Seq(Nat)
    BY <2>1 DEF AcceptInv
  <2> HIDE DEF e
  <2>6. blocked' \in Seq(Nat) /\ queue' \in Seq(Nat)
    BY <2>1, <2>4, <2>5 DEF AcceptInv, Park
  <2> QED BY <2>1, <2>2, <2>4, <2>6 DEF AcceptInv
<1>5. CASE UNCHANGED vars
  BY <1>5 DEF vars, AcceptInv
<1> QED BY <1>1, <1>2, <1>3, <1>4, <1>5 DEF Next

\* Only what is valid is stored, and no plan is refused.
THEOREM AcceptInvariantHolds == Spec => []AcceptInv
  BY AcceptInit, AcceptStep, PTL DEF Spec

\* What validate() lets in is enough for all that follows: every evaluation
\* made for an accepted job is valid, and no placement that process_eval
\* computes from accepted jobs and nodes is refused, so that drain_queue never
\* stops half way.
THEOREM AcceptedStaysAcceptedHolds == Spec => []AcceptedStaysAccepted
<1>1. AcceptInv => AcceptedStaysAccepted
  <2> SUFFICES ASSUME AcceptInv, NEW e \in Range(queue \o blocked) PROVE ValidEvaluation(Evaluation(e))
    BY DEF AcceptInv, AcceptedStaysAccepted
  <2>1. job # NoJob
    <3>1. SUFFICES ASSUME job = NoJob PROVE FALSE
      OBVIOUS
    <3>2. queue \o blocked = <<>>
      BY <3>1 DEF AcceptInv
    <3> QED BY <3>2 DEF Range
  <2>2. ValidJob(job)
    BY <2>1 DEF AcceptInv
  <2> QED BY <2>2 DEF Evaluation, ValidEvaluation, ValidJob
<1> QED BY <1>1, AcceptInvariantHolds, PTL

----------------------------------------------------------------------------
(* Where nothing wraps, placements are what they have to be.               *)

\* What the store holds is made of what was registered: an allocation has the
\* number of the evaluation that placed it, 0 if it was there already.
StoreInv ==
  /\ \A n \in DOMAIN nodes : nodes[n] \in NodeSpec
  /\ IsFiniteSet(DOMAIN allocs)
  /\ \A id \in DOMAIN allocs :
       /\ id[1] \in 0 .. evals
       /\ id[1] = 0 => allocs[id] \in AllocSpec /\ \E i \in 1 .. MaxAllocs : id = <<0, i>>
       /\ id[1] > 0 => allocs[id].node \in DOMAIN nodes
       /\ allocs[id].client_status \in ClientStatus
       /\ \A d \in Dimension : allocs[id].resources[d] \in Int

\* What is left of a node is still an i32.
RoomInv == \A n \in DOMAIN nodes : \A d \in Dimension : RoomLeft(n, d) \in I32

\* An evaluation is pending or parked at one place only, and has no placement
\* while it is; one that was processed lately is not pending.
WaitingInv ==
  /\ \A i \in DOMAIN queue : queue[i] \in 1 .. evals
  /\ \A i \in DOMAIN blocked : blocked[i] \in 1 .. evals
  /\ \A i, k \in DOMAIN queue : queue[i] = queue[k] => i = k
  /\ \A i, k \in DOMAIN blocked : blocked[i] = blocked[k] => i = k
  /\ \A i \in DOMAIN queue, k \in DOMAIN blocked : queue[i] # blocked[k]
  /\ recent \subseteq 1 .. evals
  /\ \A i \in DOMAIN queue : queue[i] \notin recent
  /\ \A id \in DOMAIN allocs :
       /\ \A i \in DOMAIN queue : queue[i] # id[1]
       /\ \A i \in DOMAIN blocked : blocked[i] # id[1]
  /\ job = NoJob => evals = 0

FitInv == AcceptInv /\ StoreInv /\ RoomInv /\ WaitingInv /\ PlanFits /\ PlanMaximal /\ ParkedIsHopeless

\* The groups of a registered job add up to what they really want.
LEMMA JobFacts ==
  ASSUME NothingWraps, NEW j \in JobSpec, ValidJob(j), NEW groups, groups = j.task_groups
  PROVE  /\ groups \in Seq(Range(groups))
         /\ Measured(groups)
         /\ \A i \in DOMAIN groups : \A d \in Dimension :
              /\ Demand(groups[i], d) \in Nat
              /\ GroupDemand(groups[i])[d] = Demand(groups[i], d)
         /\ DesiredCount(groups) \in Nat
         /\ DesiredCount(groups) = 0 <=> \A i \in DOMAIN groups : groups[i].count = 0
<1>1. /\ groups \in Seq(Range(groups))
      /\ \A g \in Range(groups) :
           /\ g.count \in Int
           /\ g.tasks \in Seq(Range(g.tasks))
           /\ \A t \in Range(g.tasks) : t.resources \in [Dimension -> I32]
  BY PlacementAssumption
<1>2. \A g \in Range(groups) : ValidTaskGroup(g)
  BY DEF ValidJob
<1>3. /\ TotalCount(groups) < Half
      /\ \A g \in Range(groups) : \A d \in Dimension : Demand(g, d) < Half
  BY DEF NothingWraps
<1>4. ASSUME NEW i \in DOMAIN groups
      PROVE  /\ groups[i].count \in Nat
             /\ \A d \in Dimension :
                  Demand(groups[i], d) \in Nat /\ GroupDemand(groups[i])[d] = Demand(groups[i], d)
  <2> DEFINE g == groups[i]
  <2>1. g \in Range(groups)
    BY DEF Range
  <2> HIDE DEF g
  <2>2. g.count \in Int /\ g.count >= 0
    BY <1>1, <1>2, <2>1 DEF ValidTaskGroup
  <2>3. g.count \in Nat
    BY <2>2
  <2>4. ASSUME NEW d \in Dimension
        PROVE  Demand(g, d) \in Nat /\ GroupDemand(g)[d] = Demand(g, d)
    <3>1. ASSUME NEW k \in DOMAIN g.tasks, NEW c \in Dimension PROVE g.tasks[k].resources[c] \in Nat
      <4> DEFINE t == g.tasks[k]
      <4>1. t \in Range(g.tasks)
        BY DEF Range
      <4> HIDE DEF t
      <4>2. ValidTask(t) /\ t.resources \in [Dimension -> I32]
        BY <1>1, <1>2, <2>1, <4>1 DEF ValidTaskGroup
      <4>3. t.resources[c] \in I32 /\ t.resources[c] >= 0
        BY <4>2 DEF ValidTask, ValidResources
      <4>4. t.resources[c] \in Nat
        BY <4>3, SchedulerAssumption DEF I32
      <4> QED BY <4>4 DEF t
    <3>2. g.tasks \in Seq(Range(g.tasks)) /\ Demand(g, d) < Half
      BY <1>1, <1>3, <2>1
    <3> QED BY <3>1, <3>2, DemandExact
  <2> QED BY <2>3, <2>4 DEF g
<1>5. Measured(groups)
  <2>1. \A i \in DOMAIN groups : groups[i].count \in Nat /\ \A d \in Dimension : GroupDemand(groups[i])[d] \in Nat
    BY <1>4
  <2> QED BY <2>1 DEF Measured
<1>6. /\ DesiredCount(groups) \in Nat
      /\ DesiredCount(groups) = 0 <=> \A i \in DOMAIN groups : groups[i].count = 0
  <2>1. groups \in Seq(Range(groups)) /\ TotalCount(groups) < Half /\ \A i \in DOMAIN groups : groups[i].count \in Nat
    BY <1>1, <1>3, <1>4
  <2> HIDE DEF Range
  <2> QED BY ONLY <2>1, DesiredExact
<1> QED BY <1>1, <1>4, <1>5, <1>6

\* The reference's room is what the scheduler's notion of a live allocation
\* leaves.
LEMMA RoomIs ==
  ASSUME StoreInv, NEW n, NEW d
  PROVE  RoomLeft(n, d) = nodes[n].resources[d] - Hold(n, d, allocs)
<1>1. {id \in DOMAIN allocs : allocs[id].node = n /\ allocs[id].client_status \notin TerminalClientStatus}
        = LiveOn(n, allocs)
  BY LiveNotTerminal DEF StoreInv
<1> QED BY <1>1 DEF RoomLeft, Held, Hold

LEMMA RoomIsNext ==
  ASSUME StoreInv', NEW n, NEW d
  PROVE  RoomLeft(n, d)' = nodes'[n].resources[d] - Hold(n, d, allocs')
<1>1. PICK after : after = allocs'
  OBVIOUS
<1>2. \A id \in DOMAIN after : after[id].client_status \in ClientStatus
  BY <1>1 DEF StoreInv
<1>3. {id \in DOMAIN after : after[id].node = n /\ after[id].client_status \notin TerminalClientStatus}
        = LiveOn(n, after)
  BY <1>2, LiveNotTerminal
<1> QED BY <1>1, <1>3 DEF RoomLeft, Held, Hold

\* What is live on a node can be added up.
LEMMA LiveIsFinite ==
  ASSUME StoreInv, NEW n
  PROVE  /\ IsFiniteSet(LiveOn(n, allocs))
         /\ \A id \in LiveOn(n, allocs) : \A d \in Dimension : allocs[id].resources[d] \in Int
<1>1. LiveOn(n, allocs) \subseteq DOMAIN allocs
  BY DEF LiveOn
<1> QED BY <1>1, FS_Subset DEF StoreInv

LEMMA BooksBalanced ==
  ASSUME StoreInv, RoomInv
  PROVE  Books(nodes, allocs)
<1> SUFFICES ASSUME NEW n \in Usable(nodes)
             PROVE  /\ nodes[n].resources \in [Dimension -> I32]
                    /\ IsFiniteSet(LiveOn(n, allocs))
                    /\ \A id \in LiveOn(n, allocs) : \A d \in Dimension : allocs[id].resources[d] \in Int
                    /\ \A d \in Dimension : nodes[n].resources[d] - Hold(n, d, allocs) \in I32
  BY DEF Books
<1>1. n \in DOMAIN nodes
  BY DEF Usable
<1>2. nodes[n].resources \in [Dimension -> I32]
  BY <1>1, PlacementAssumption DEF StoreInv
<1>3. \A d \in Dimension : nodes[n].resources[d] - Hold(n, d, allocs) \in I32
  BY <1>1, RoomIs DEF RoomInv
<1> QED BY <1>2, <1>3, LiveIsFinite

\* A node that is not registered holds at most the allocations that were there
\* already, which NothingWraps allows for.
LEMMA FreshNodeRoom ==
  ASSUME NothingWraps, StoreInv, NEW n, n \notin DOMAIN nodes, NEW spec \in NodeSpec, NEW d \in Dimension
  PROVE  spec.resources[d] - Hold(n, d, allocs) \in I32
<1> DEFINE S == LiveOn(n, allocs)
           f == [id \in DOMAIN allocs |-> allocs[id].resources[d]]
           r == spec.resources[d]
<1>1. r \in I32 /\ r \in Int /\ Half \in Nat /\ MaxAllocs \in Nat
  BY PlacementAssumption, SchedulerAssumption DEF I32
<1>2. ASSUME NEW id \in S
      PROVE  /\ f[id] \in Int /\ \E i \in 1 .. MaxAllocs : id = <<0, i>>
             /\ r - MaxAllocs * f[id] \in I32
  <2>1. id \in DOMAIN allocs /\ allocs[id].node = n
    BY DEF LiveOn
  <2>2. id[1] \in 0 .. evals /\ ~(id[1] > 0)
    BY <2>1 DEF StoreInv
  <2>3. id[1] = 0
    BY <2>2
  <2>4. allocs[id] \in AllocSpec /\ (\E i \in 1 .. MaxAllocs : id = <<0, i>>) /\ allocs[id].resources[d] \in Int
    BY <2>1, <2>3 DEF StoreInv
  <2>5. r - MaxAllocs * allocs[id].resources[d] \in I32
    BY <2>4 DEF NothingWraps
  <2> QED BY <2>1, <2>4, <2>5
<1>3. IsFiniteSet(S)
  BY LiveIsFinite
<1>4. Cardinality(S) <= MaxAllocs
  <2> DEFINE g == [id \in S |-> id[2]]
  <2>1. IsFiniteSet(1 .. MaxAllocs) /\ Cardinality(1 .. MaxAllocs) = MaxAllocs
    BY <1>1, FS_Interval
  <2>a. \A id \in S : \E i \in 1 .. MaxAllocs : id = <<0, i>>
    BY <1>2
  <2> HIDE DEF S
  <2>2. \A id \in S : \E i \in 1 .. MaxAllocs : id = <<0, i>> /\ g[id] = i
    BY <2>a
  <2>3. g \in [S -> 1 .. MaxAllocs]
    BY <2>2
  <2>4. IsInjective(g)
    BY <2>2, <2>3 DEF IsInjective
  <2>5. g \in Injection(S, 1 .. MaxAllocs)
    BY <2>3, <2>4 DEF Injection
  <2> QED BY <2>1, <2>5, FS_Injection
<1> DEFINE lo == r - (Half - 1)
           hi == r + Half
<1>5. lo \in Int /\ hi \in Int /\ lo <= 0 /\ 0 <= hi
  BY <1>1 DEF I32
<1>6. ASSUME NEW id \in S PROVE f[id] \in Int /\ lo <= MaxAllocs * f[id] /\ MaxAllocs * f[id] <= hi
  <2>1. f[id] \in Int /\ r - MaxAllocs * f[id] \in I32
    BY <1>2
  <2>2. PICK p \in Int : p = MaxAllocs * f[id]
    BY <1>1, <2>1
  <2>3. r - p \in I32
    BY <2>1, <2>2
  <2>4. lo <= p /\ p <= hi
    BY <1>1, <2>3 DEF I32
  <2> QED BY <2>1, <2>2, <2>4
<1> HIDE DEF S, f, lo, hi
<1>7. lo <= SumFunctionOnSet(f, S) /\ SumFunctionOnSet(f, S) <= hi /\ SumFunctionOnSet(f, S) \in Int
  BY <1>1, <1>3, <1>4, <1>5, <1>6, SumBounded, SumIsInt
<1>8. r - SumFunctionOnSet(f, S) \in I32
  BY <1>1, <1>7 DEF I32, lo, hi
<1> QED BY <1>8 DEF Hold, Holding, f, S

\* What a drain's step does with the plan acc.plan for evaluation e.
Drained(e, acc) ==
  /\ queue # <<>> /\ e = queue[1] /\ e \in 1 .. evals
  /\ job \in JobSpec /\ ValidJob(job)
  /\ Achieves(acc, job.task_groups, nodes, allocs)
  /\ Joined(allocs', allocs, e, acc.plan)
  /\ \A i \in DOMAIN acc.plan : allocs'[<<e, i>>].task_group = acc.plan[i].task_group
  /\ queue' = Tail(queue) /\ blocked' = Park(acc.plan, e) /\ recent' = recent \cup {e}
  /\ UNCHANGED <<nodes, job, order, evals>>

LEMMA DrainFacts ==
  ASSUME NothingWraps, FitInv, DrainQueue
  PROVE  \E e, acc : Drained(e, acc)
<1> USE DEF FitInv
<1> DEFINE e == Head(queue)
           plan == ProcessEval(job.task_groups, nodes, allocs, order)
<1>1. /\ queue # <<>> /\ refused' = (refused \/ \E i \in DOMAIN plan : ~Accepted(plan, e, i))
      /\ queue' = IF refused' THEN Append(Tail(queue), e) ELSE Tail(queue)
      /\ blocked' = IF refused' THEN blocked ELSE Park(plan, e)
      /\ recent' = IF refused' THEN recent ELSE recent \cup {e}
      /\ allocs' = ApplyPlan(plan, e)
      /\ UNCHANGED <<nodes, job, order, evals>>
  BY DEF DrainQueue, ProcessAndApply
<1>2. job # NoJob /\ job \in JobSpec /\ ValidJob(job)
  BY <1>1 DEF AcceptInv
<1>3. \A i \in DOMAIN plan : Accepted(plan, e, i)
  BY <1>2, PlanAccepted
<1>4. PICK acc : plan = acc.plan /\ Achieves(acc, job.task_groups, nodes, allocs)
  <2>1. PICK groups : groups = job.task_groups
    OBVIOUS
  <2>2. groups \in Seq(Range(groups)) /\ Measured(groups)
    BY <1>2, <2>1, JobFacts
  <2>3. order \in Seq(NamedNode) /\ DOMAIN nodes \subseteq {order[i] : i \in DOMAIN order}
    BY AllListed
  <2>4. Books(nodes, allocs)
    BY BooksBalanced
  <2>5. \E acc : /\ ProcessEval(groups, nodes, allocs, order) = acc.plan
                 /\ Achieves(acc, groups, nodes, allocs)
    BY <2>2, <2>3, <2>4, PlanAchieves
  <2> QED BY <2>1, <2>5
<1> HIDE DEF plan
<1>5. /\ queue' = Tail(queue) /\ blocked' = Park(plan, e) /\ recent' = recent \cup {e}
      /\ allocs' = ApplyPlan(plan, e)
  BY <1>1, <1>3 DEF AcceptInv
<1>6. e = queue[1] /\ e \in 1 .. evals /\ \A id \in DOMAIN allocs : id[1] # e
  <2>1. queue \in Seq(Nat)
    BY DEF AcceptInv
  <2>2. e = queue[1] /\ 1 \in DOMAIN queue
    BY <1>1, <2>1
  <2> QED BY <2>2 DEF WaitingInv
<1> HIDE DEF e
<1>7. plan \in Seq(Placements(job.task_groups, nodes))
  BY <1>4 DEF Achieves, Tight
<1>8. {i \in DOMAIN plan : \A k \in 1 .. i : Accepted(plan, e, k)} = DOMAIN plan
  <2>1. \A i \in DOMAIN plan : \A k \in 1 .. i : k \in DOMAIN plan
    BY <1>7
  <2> QED BY <1>3, <2>1
<1>9. PICK after : after = allocs'
  OBVIOUS
<1>10. after = [id \in DOMAIN allocs \cup ({e} \X DOMAIN plan) |->
                  IF id \in {e} \X DOMAIN plan
                    THEN [node |-> plan[id[2]].node, job_id |-> job.name,
                          task_group |-> plan[id[2]].task_group, resources |-> plan[id[2]].resources,
                          client_status |-> plan[id[2]].client_status]
                    ELSE allocs[id]]
  BY <1>5, <1>8, <1>9 DEF ApplyPlan
<1>11. {e} \X DOMAIN plan = {<<e, i>> : i \in DOMAIN plan}
  OBVIOUS
<1>12. \A i \in DOMAIN plan :
         /\ <<e, i>> \notin DOMAIN allocs
         /\ after[<<e, i>>] = [node |-> plan[i].node, job_id |-> job.name,
                               task_group |-> plan[i].task_group, resources |-> plan[i].resources,
                               client_status |-> plan[i].client_status]
  <2> SUFFICES ASSUME NEW i \in DOMAIN plan
               PROVE  /\ <<e, i>> \notin DOMAIN allocs
                      /\ after[<<e, i>>] = [node |-> plan[i].node, job_id |-> job.name,
                               task_group |-> plan[i].task_group, resources |-> plan[i].resources,
                               client_status |-> plan[i].client_status]
    OBVIOUS
  <2>1. <<e, i>>[1] = e /\ <<e, i>>[2] = i /\ <<e, i>> \in {e} \X DOMAIN plan
    OBVIOUS
  <2>2. <<e, i>> \notin DOMAIN allocs
    BY <1>6, <2>1
  <2> QED BY <1>10, <2>1, <2>2
<1>13. \A id \in DOMAIN allocs : id \notin {e} \X DOMAIN plan
  BY <1>6
<1>14. /\ Joined(after, allocs, e, plan)
       /\ \A i \in DOMAIN plan : after[<<e, i>>].task_group = plan[i].task_group
  <2>1. DOMAIN after = DOMAIN allocs \cup {<<e, i>> : i \in DOMAIN plan}
    BY <1>10, <1>11
  <2>2. \A id \in DOMAIN allocs : after[id] = allocs[id]
    BY <1>10, <1>13
  <2>3. \A i \in DOMAIN plan :
          /\ <<e, i>> \notin DOMAIN allocs
          /\ after[<<e, i>>].node = plan[i].node
          /\ after[<<e, i>>].resources = plan[i].resources
          /\ after[<<e, i>>].client_status = plan[i].client_status
          /\ after[<<e, i>>].task_group = plan[i].task_group
    <3> TAKE i \in DOMAIN plan
    <3> DEFINE a == after[<<e, i>>]
    <3>1. /\ a = [node |-> plan[i].node, job_id |-> job.name,
                  task_group |-> plan[i].task_group, resources |-> plan[i].resources,
                  client_status |-> plan[i].client_status]
          /\ <<e, i>> \notin DOMAIN allocs
      BY <1>12
    <3> HIDE DEF a
    <3>2. /\ a.node = plan[i].node /\ a.resources = plan[i].resources
          /\ a.client_status = plan[i].client_status /\ a.task_group = plan[i].task_group
      BY <3>1
    <3> QED BY <3>1, <3>2 DEF a
  <2>4. Joined(after, allocs, e, plan)
    BY ONLY <2>1, <2>2, <2>3 DEF Joined
  <2> QED BY <2>3, <2>4
<1>15. Drained(e, acc)
  BY <1>1, <1>2, <1>4, <1>5, <1>6, <1>9, <1>14 DEF Drained
<1> QED BY <1>15

\* Where a placement of the plan is and what it has.
LEMMA PlannedFacts ==
  ASSUME NothingWraps, NEW e, NEW acc, Drained(e, acc), NEW i \in DOMAIN acc.plan
  PROVE  \E k \in DOMAIN job.task_groups, n \in Usable(nodes) :
           /\ MeetsConstraints(nodes[n], job.task_groups[k])
           /\ acc.plan[i].node = n /\ acc.plan[i].task_group = job.task_groups[k].name
           /\ acc.plan[i].client_status = "pending"
           /\ \A d \in Dimension :
                /\ acc.plan[i].resources[d] = Demand(job.task_groups[k], d)
                /\ acc.plan[i].resources[d] \in Nat
                /\ acc.free[n][d] >= 0
<1>1. PICK groups : groups = job.task_groups
  OBVIOUS
<1>2. Tight(acc, Usable(nodes), Placements(groups, nodes), nodes, allocs)
  BY <1>1 DEF Drained, Achieves
<1>3. acc.plan[i] \in Placements(groups, nodes)
  BY <1>2 DEF Tight
<1>4. PICK k \in DOMAIN groups, n \in Usable(nodes) :
        /\ MeetsConstraints(nodes[n], groups[k])
        /\ acc.plan[i] = MakeAlloc(groups[k], GroupDemand(groups[k]), n)
  BY <1>3, PlacementOf
<1>5. /\ acc.plan[i].node = n /\ acc.plan[i].task_group = groups[k].name
      /\ acc.plan[i].client_status = "pending" /\ acc.plan[i].resources = GroupDemand(groups[k])
  BY <1>4 DEF MakeAlloc
<1>6. \A d \in Dimension : Demand(groups[k], d) \in Nat /\ GroupDemand(groups[k])[d] = Demand(groups[k], d)
  BY <1>1, JobFacts DEF Drained
<1>7. \A d \in Dimension : acc.free[n][d] >= 0
  BY <1>2, <1>5 DEF Tight
<1> QED BY <1>1, <1>4, <1>5, <1>6, <1>7

LEMMA DrainStore ==
  ASSUME NothingWraps, FitInv, NEW e, NEW acc, Drained(e, acc)
  PROVE  StoreInv'
<1>1. PICK after : after = allocs'
  OBVIOUS
<1>2. nodes' = nodes /\ evals' = evals /\ e \in 1 .. evals /\ evals \in Nat
  BY DEF Drained, FitInv, AcceptInv
<1>3. Joined(after, allocs, e, acc.plan)
  BY <1>1 DEF Drained
<1>4. DOMAIN after = DOMAIN allocs \cup {<<e, i>> : i \in DOMAIN acc.plan}
  BY <1>3 DEF Joined
<1>5. IsFiniteSet(DOMAIN after)
  <2> DEFINE new == {<<e, i>> : i \in DOMAIN acc.plan}
             f == [i \in DOMAIN acc.plan |-> <<e, i>>]
  <2>1. acc.plan \in Seq(Placements(job.task_groups, nodes))
    BY DEF Drained, Achieves, Tight
  <2>2. IsFiniteSet(DOMAIN acc.plan)
    BY <2>1, FS_Interval
  <2>3. f \in Surjection(DOMAIN acc.plan, new)
    BY DEF Surjection
  <2>4. IsFiniteSet(new)
    BY <2>2, <2>3, FS_Surjection
  <2>5. IsFiniteSet(DOMAIN allocs)
    BY DEF FitInv, StoreInv
  <2> QED BY <1>4, <2>4, <2>5, FS_Union
<1>6. ASSUME NEW id \in DOMAIN after
      PROVE  /\ id[1] \in 0 .. evals
             /\ id[1] = 0 => after[id] \in AllocSpec /\ \E i \in 1 .. MaxAllocs : id = <<0, i>>
             /\ id[1] > 0 => after[id].node \in DOMAIN nodes
             /\ after[id].client_status \in ClientStatus
             /\ \A d \in Dimension : after[id].resources[d] \in Int
  <2>1. CASE id \in DOMAIN allocs
    <3>1. after[id] = allocs[id]
      BY <1>3, <2>1 DEF Joined
    <3> QED BY <2>1, <3>1 DEF FitInv, StoreInv
  <2>2. CASE \E i \in DOMAIN acc.plan : id = <<e, i>>
    <3>1. PICK i \in DOMAIN acc.plan : id = <<e, i>>
      BY <2>2
    <3>2. id[1] = e /\ e \in 0 .. evals /\ e > 0 /\ e # 0
      BY <1>2, <3>1
    <3>3. /\ after[id].node = acc.plan[i].node /\ after[id].resources = acc.plan[i].resources
          /\ after[id].client_status = acc.plan[i].client_status
      BY <1>3, <3>1 DEF Joined
    <3>4. acc.plan[i].node \in Usable(nodes) /\ acc.plan[i].client_status = "pending"
      BY PlannedFacts
    <3>5. \A d \in Dimension : acc.plan[i].resources[d] \in Nat
      BY PlannedFacts
    <3>6. \A d \in Dimension : after[id].resources[d] \in Int
      BY <3>3, <3>5
    <3>7. after[id].node \in DOMAIN nodes /\ after[id].client_status \in ClientStatus
      BY <3>3, <3>4 DEF Usable, ClientStatus
    <3> QED BY <3>2, <3>6, <3>7
  <2> QED BY <1>4, <2>1, <2>2
<1>7. \A n \in DOMAIN nodes : nodes[n] \in NodeSpec
  BY DEF FitInv, StoreInv
<1> QED BY <1>1, <1>2, <1>5, <1>6, <1>7 DEF StoreInv

\* What a drain's step does to what is left of a node: nothing, or the node
\* was placed on and is not overdrawn.
LEMMA DrainRoom ==
  ASSUME NothingWraps, FitInv, NEW e, NEW acc, Drained(e, acc),
         NEW n \in DOMAIN nodes, NEW d \in Dimension
  PROVE  /\ RoomLeft(n, d)' \in I32 /\ RoomLeft(n, d) \in I32
         /\ RoomLeft(n, d)' <= RoomLeft(n, d)
         /\ RoomLeft(n, d)' >= 0 \/ RoomLeft(n, d)' = RoomLeft(n, d)
         /\ n \in Usable(nodes) => RoomLeft(n, d)' = acc.free[n][d]
<1>1. PICK after : after = allocs'
  OBVIOUS
<1>2. PICK groups : groups = job.task_groups
  OBVIOUS
<1>3. /\ RoomLeft(n, d) = nodes[n].resources[d] - Hold(n, d, allocs)
      /\ RoomLeft(n, d)' = nodes[n].resources[d] - Hold(n, d, after)
  <2>1. StoreInv' /\ nodes' = nodes
    BY DrainStore DEF Drained
  <2>2. RoomLeft(n, d)' = nodes'[n].resources[d] - Hold(n, d, allocs')
    BY <2>1, RoomIsNext
  <2> QED BY <1>1, <2>1, <2>2, RoomIs DEF FitInv
<1>4. RoomLeft(n, d) \in I32
  BY DEF FitInv, RoomInv
<1>5. /\ Tight(acc, Usable(nodes), Placements(groups, nodes), nodes, allocs)
      /\ Joined(after, allocs, e, acc.plan) /\ Measured(groups) /\ Books(nodes, allocs)
  <2>1. Books(nodes, allocs)
    BY BooksBalanced DEF FitInv
  <2>2. Measured(groups)
    BY <1>2, JobFacts DEF Drained
  <2> QED BY <1>1, <1>2, <2>1, <2>2 DEF Drained, Achieves
<1>6. IsFiniteSet(LiveOn(n, allocs)) /\ \A id \in LiveOn(n, allocs) : allocs[id].resources[d] \in Int
  BY LiveIsFinite DEF FitInv
<1>7. /\ n \in Usable(nodes) =>
           /\ nodes[n].resources[d] - Hold(n, d, after) = acc.free[n][d]
           /\ acc.free[n][d] \in I32
           /\ acc.free[n][d] <= nodes[n].resources[d] - Hold(n, d, allocs)
           /\ \/ acc.free[n][d] >= 0
              \/ acc.free[n][d] = nodes[n].resources[d] - Hold(n, d, allocs)
      /\ n \notin Usable(nodes) => Hold(n, d, after) = Hold(n, d, allocs)
  <2>1. Planned(after, e, acc, groups, nodes, allocs)
    BY <1>5 DEF Planned
  <2>2. n \in Usable(nodes) =>
           /\ nodes[n].resources[d] - Hold(n, d, after) = acc.free[n][d]
           /\ acc.free[n][d] \in I32
           /\ acc.free[n][d] <= nodes[n].resources[d] - Hold(n, d, allocs)
           /\ \/ acc.free[n][d] >= 0
              \/ acc.free[n][d] = nodes[n].resources[d] - Hold(n, d, allocs)
    BY <2>1, AfterPlan
  <2>3. n \notin Usable(nodes) => Hold(n, d, after) = Hold(n, d, allocs)
    BY <1>6, <2>1, AfterPlan
  <2> QED BY <2>2, <2>3
<1>8. CASE n \in Usable(nodes)
  BY <1>3, <1>4, <1>7, <1>8
<1>9. CASE n \notin Usable(nodes)
  <2>1. RoomLeft(n, d)' = RoomLeft(n, d)
    BY <1>3, <1>7, <1>9
  <2>2. RoomLeft(n, d) <= RoomLeft(n, d)
    BY <1>4 DEF I32
  <2> QED BY <1>4, <1>9, <2>1, <2>2
<1> QED BY <1>8, <1>9

\* A node that would take no instance of a group takes none after a step of
\* the drain, and a group without candidates is one that no node would take.
LEMMA DrainTakes ==
  ASSUME NothingWraps, FitInv, NEW e, NEW acc, Drained(e, acc),
         NEW i \in DOMAIN job.task_groups, NEW n \in DOMAIN nodes
  PROVE  /\ ~Takes(n, job.task_groups[i]) => ~Takes(n, job.task_groups[i])'
         /\ NoCandidate(acc, job.task_groups[i], nodes) => ~Takes(n, job.task_groups[i])'
<1>1. PICK g : g = job.task_groups[i]
  OBVIOUS
<1>2. \A d \in Dimension : Demand(g, d) \in Nat /\ GroupDemand(g)[d] = Demand(g, d)
  BY <1>1, JobFacts DEF Drained
<1>3. nodes' = nodes /\ job' = job
  BY DEF Drained
<1>4. ASSUME Takes(n, g)' PROVE Takes(n, g) /\ ~NoCandidate(acc, g, nodes)
  <2>1. IsReady(nodes[n]) /\ MeetsConstraints(nodes[n], g) /\ \A d \in Dimension : RoomLeft(n, d)' >= Demand(g, d)
    BY <1>3, <1>4 DEF Takes
  <2>2. ASSUME NEW d \in Dimension PROVE RoomLeft(n, d) >= Demand(g, d)
    <3>1. RoomLeft(n, d)' \in I32 /\ RoomLeft(n, d) \in I32 /\ RoomLeft(n, d)' <= RoomLeft(n, d)
      BY DrainRoom
    <3> QED BY <1>2, <2>1, <3>1 DEF I32
  <2>3. Takes(n, g)
    BY <2>1, <2>2 DEF Takes
  <2>4. n \in Usable(nodes)
    BY <2>1 DEF Usable, NodeEligible, IsReady
  <2>5. \A d \in Dimension : acc.free[n][d] >= GroupDemand(g)[d]
    <3> TAKE d \in Dimension
    <3>1. RoomLeft(n, d)' = acc.free[n][d]
      BY <2>4, DrainRoom
    <3> QED BY <1>2, <2>1, <3>1
  <2>6. n \in DOMAIN acc.free
    BY <2>4 DEF Drained, Achieves, Tight
  <2>7. n \in Candidates(acc.free, g, GroupDemand(g), nodes)
    BY <2>1, <2>5, <2>6 DEF Candidates, Fits
  <2> QED BY <2>3, <2>7 DEF NoCandidate
<1>5. Takes(n, job.task_groups[i])' <=> Takes(n, g)'
  BY <1>1, <1>3 DEF Takes
<1> QED BY <1>1, <1>4, <1>5

\* How the two lists of evaluations change in a drain's step.
LEMMA DrainLists ==
  ASSUME FitInv, NEW e, NEW acc, Drained(e, acc)
  PROVE  /\ DOMAIN queue' \subseteq Nat
         /\ \A i \in DOMAIN queue' : i + 1 \in DOMAIN queue /\ i + 1 # 1 /\ queue'[i] = queue[i + 1]
         /\ \A i \in DOMAIN queue : i # 1 => i - 1 \in DOMAIN queue' /\ queue'[i - 1] = queue[i]
         /\ 1 \in DOMAIN queue
         /\ \/ /\ blocked' = blocked
               /\ acc.plan # <<>> \/ ~(DesiredCount(job.task_groups) > 0)
            \/ /\ acc.plan = <<>> /\ DesiredCount(job.task_groups) > 0
               /\ DOMAIN blocked' = DOMAIN blocked \cup {Len(blocked) + 1}
               /\ Len(blocked) + 1 \notin DOMAIN blocked
               /\ blocked'[Len(blocked) + 1] = e
               /\ \A i \in DOMAIN blocked : blocked'[i] = blocked[i]
<1>1. queue \in Seq(Nat) /\ blocked \in Seq(Nat) /\ queue # <<>>
  BY DEF FitInv, AcceptInv, Drained
<1>2. queue' = Tail(queue) /\ blocked' = Park(acc.plan, e)
  BY DEF Drained
<1>3. /\ DOMAIN queue' \subseteq Nat
      /\ \A i \in DOMAIN queue' : i + 1 \in DOMAIN queue /\ i + 1 # 1 /\ queue'[i] = queue[i + 1]
      /\ \A i \in DOMAIN queue : i # 1 => i - 1 \in DOMAIN queue' /\ queue'[i - 1] = queue[i]
      /\ 1 \in DOMAIN queue
  <2> DEFINE n == Len(queue)
  <2>1. n \in Nat /\ n >= 1 /\ DOMAIN queue = 1 .. n
    BY <1>1
  <2>2. DOMAIN queue' = 1 .. (n - 1) /\ \A i \in 1 .. (n - 1) : queue'[i] = queue[i + 1]
    BY <1>1, <1>2
  <2> HIDE DEF n
  <2>3. \A i \in DOMAIN queue : i # 1 => i - 1 \in DOMAIN queue' /\ (i - 1) + 1 = i
    BY <2>1, <2>2
  <2>4. \A i \in DOMAIN queue : i # 1 => queue'[i - 1] = queue[i]
    <3> SUFFICES ASSUME NEW i \in DOMAIN queue, i # 1 PROVE queue'[i - 1] = queue[i]
      OBVIOUS
    <3>1. queue'[i - 1] = queue[(i - 1) + 1]
      BY <2>2, <2>3
    <3> QED BY <2>3, <3>1
  <2>5. \A i \in DOMAIN queue' : i + 1 \in DOMAIN queue /\ i + 1 # 1 /\ queue'[i] = queue[i + 1]
    BY <2>1, <2>2
  <2>6. 1 \in DOMAIN queue /\ DOMAIN queue' \subseteq Nat
    BY <2>1, <2>2
  <2> QED BY <2>3, <2>4, <2>5, <2>6
<1>4. CASE acc.plan = <<>> /\ DesiredCount(job.task_groups) > 0
  <2>1. blocked' = Append(blocked, e)
    BY <1>2, <1>4 DEF Park
  <2>2. /\ DOMAIN blocked' = DOMAIN blocked \cup {Len(blocked) + 1}
        /\ Len(blocked) + 1 \notin DOMAIN blocked
        /\ blocked'[Len(blocked) + 1] = e
        /\ \A i \in DOMAIN blocked : blocked'[i] = blocked[i]
    BY <1>1, <2>1
  <2> QED BY <1>3, <1>4, <2>2
<1>5. CASE ~(acc.plan = <<>> /\ DesiredCount(job.task_groups) > 0)
  <2>1. blocked' = blocked
    BY <1>2, <1>5 DEF Park
  <2> QED BY <1>3, <1>5, <2>1
<1> QED BY <1>4, <1>5

\* The ids in the store after a drain's step.
LEMMA DrainIds ==
  ASSUME FitInv, NEW e, NEW acc, Drained(e, acc)
  PROVE  /\ \A id \in DOMAIN allocs : id \in DOMAIN allocs' /\ allocs'[id] = allocs[id] /\ id[1] # e
         /\ \A i \in DOMAIN acc.plan : <<e, i>> \in DOMAIN allocs'
         /\ \A id \in DOMAIN allocs' :
              id \in DOMAIN allocs \/ (id[1] = e /\ \E i \in DOMAIN acc.plan : id = <<e, i>>)
<1>1. Joined(allocs', allocs, e, acc.plan)
  BY DEF Drained
<1>2. DOMAIN allocs' = DOMAIN allocs \cup {<<e, i>> : i \in DOMAIN acc.plan}
  BY <1>1 DEF Joined
<1>3. \A id \in DOMAIN allocs : allocs'[id] = allocs[id]
  BY <1>1 DEF Joined
<1>4. \A id \in DOMAIN allocs : id[1] # e
  BY DrainLists DEF FitInv, WaitingInv, Drained
<1> QED BY <1>2, <1>3, <1>4

LEMMA DrainWaiting ==
  ASSUME FitInv, NEW e, NEW acc, Drained(e, acc)
  PROVE  WaitingInv'
<1> DEFINE k == Len(blocked) + 1
<1>1. /\ \A i \in DOMAIN queue : queue[i] \in 1 .. evals
      /\ \A i \in DOMAIN blocked : blocked[i] \in 1 .. evals
      /\ \A i, m \in DOMAIN queue : queue[i] = queue[m] => i = m
      /\ \A i, m \in DOMAIN blocked : blocked[i] = blocked[m] => i = m
      /\ \A i \in DOMAIN queue, m \in DOMAIN blocked : queue[i] # blocked[m]
      /\ recent \subseteq 1 .. evals
      /\ \A i \in DOMAIN queue : queue[i] \notin recent
      /\ \A id \in DOMAIN allocs :
           /\ \A i \in DOMAIN queue : queue[i] # id[1]
           /\ \A i \in DOMAIN blocked : blocked[i] # id[1]
      /\ job = NoJob => evals = 0
  BY DEF FitInv, WaitingInv
<1>2. e = queue[1] /\ e \in 1 .. evals /\ recent' = recent \cup {e} /\ evals' = evals /\ job' = job
  BY DEF Drained
<1>3. /\ DOMAIN queue' \subseteq Nat
      /\ \A i \in DOMAIN queue' : i + 1 \in DOMAIN queue /\ i + 1 # 1 /\ queue'[i] = queue[i + 1]
      /\ 1 \in DOMAIN queue
      /\ \/ blocked' = blocked
         \/ /\ acc.plan = <<>>
            /\ DOMAIN blocked' = DOMAIN blocked \cup {k} /\ k \notin DOMAIN blocked
            /\ blocked'[k] = e /\ \A i \in DOMAIN blocked : blocked'[i] = blocked[i]
  BY DrainLists
<1> HIDE DEF k
<1>4. \A i \in DOMAIN queue' : queue'[i] # e /\ queue'[i] \in 1 .. evals /\ queue'[i] \notin recent
  BY <1>1, <1>2, <1>3
<1>5. \A i, m \in DOMAIN queue' : queue'[i] = queue'[m] => i = m
  <2> SUFFICES ASSUME NEW i \in DOMAIN queue', NEW m \in DOMAIN queue', queue'[i] = queue'[m] PROVE i = m
    OBVIOUS
  <2>1. i + 1 = m + 1 /\ i \in Nat /\ m \in Nat
    BY <1>1, <1>3
  <2> QED BY <2>1
<1>6. /\ \A i \in DOMAIN blocked' : blocked'[i] \in 1 .. evals
      /\ \A i, m \in DOMAIN blocked' : blocked'[i] = blocked'[m] => i = m
  BY <1>1, <1>2, <1>3
<1>7. \A i \in DOMAIN queue', m \in DOMAIN blocked' : queue'[i] # blocked'[m]
  BY <1>1, <1>3, <1>4
<1>8. ASSUME NEW id \in DOMAIN allocs'
      PROVE  /\ \A i \in DOMAIN queue' : queue'[i] # id[1]
             /\ \A i \in DOMAIN blocked' : blocked'[i] # id[1]
  <2>1. CASE id \in DOMAIN allocs
    BY <1>1, <1>2, <1>3, <2>1
  <2>2. CASE id[1] = e /\ \E i \in DOMAIN acc.plan : id = <<e, i>>
    <3>1. acc.plan # <<>>
      BY <2>2
    <3> QED BY <1>1, <1>2, <1>3, <1>4, <2>2, <3>1
  <2> QED BY <2>1, <2>2, DrainIds
<1> QED BY <1>1, <1>2, <1>4, <1>5, <1>6, <1>7, <1>8 DEF WaitingInv

LEMMA DrainFits ==
  ASSUME NothingWraps, FitInv, NEW e, NEW acc, Drained(e, acc)
  PROVE  PlanFits'
<1>1. nodes' = nodes /\ job' = job
  BY DEF Drained
<1> SUFFICES ASSUME NEW id \in DOMAIN allocs', id[1] > 0, NEW n, n = allocs'[id].node
             PROVE  /\ n \in DOMAIN nodes
                    /\ IsReady(nodes[n])
                    /\ \A d \in Dimension : RoomLeft(n, d)' >= 0
                    /\ \E g \in Range(job.task_groups) :
                         /\ allocs'[id].task_group = g.name
                         /\ \A d \in Dimension : allocs'[id].resources[d] = Demand(g, d)
                         /\ MeetsConstraints(nodes[n], g)
                         /\ \A c \in Range(g.constraints) : c.operand \in KnownOperands
  BY <1>1 DEF PlanFits
<1>2. CASE id \in DOMAIN allocs
  <2>1. allocs'[id] = allocs[id]
    BY <1>2, DrainIds
  <2>2. /\ n \in DOMAIN nodes
        /\ IsReady(nodes[n])
        /\ \A d \in Dimension : RoomLeft(n, d) >= 0
        /\ \E g \in Range(job.task_groups) :
             /\ allocs[id].task_group = g.name
             /\ \A d \in Dimension : allocs[id].resources[d] = Demand(g, d)
             /\ MeetsConstraints(nodes[n], g)
             /\ \A c \in Range(g.constraints) : c.operand \in KnownOperands
    BY <1>2, <2>1 DEF FitInv, PlanFits
  <2>3. \A d \in Dimension : RoomLeft(n, d)' >= 0
    BY <2>2, DrainRoom
  <2> QED BY <2>1, <2>2, <2>3
<1>3. CASE \E i \in DOMAIN acc.plan : id = <<e, i>>
  <2>1. PICK i \in DOMAIN acc.plan : id = <<e, i>>
    BY <1>3
  <2>2. PICK k \in DOMAIN job.task_groups, m \in Usable(nodes) :
           /\ MeetsConstraints(nodes[m], job.task_groups[k])
           /\ acc.plan[i].node = m /\ acc.plan[i].task_group = job.task_groups[k].name
           /\ \A d \in Dimension :
                /\ acc.plan[i].resources[d] = Demand(job.task_groups[k], d)
                /\ acc.free[m][d] >= 0
    BY PlannedFacts
  <2>3. /\ allocs'[id].node = acc.plan[i].node /\ allocs'[id].resources = acc.plan[i].resources
        /\ allocs'[id].task_group = acc.plan[i].task_group
    BY <2>1 DEF Drained, Joined
  <2>4. n = m /\ n \in DOMAIN nodes /\ IsReady(nodes[n])
    BY <2>2, <2>3 DEF Usable, NodeEligible, IsReady
  <2>5. \A d \in Dimension : RoomLeft(n, d)' >= 0
    BY <2>2, <2>4, DrainRoom
  <2> DEFINE g == job.task_groups[k]
  <2>6. g \in Range(job.task_groups)
    BY DEF Range
  <2>7. \A c \in Range(g.constraints) : c.operand \in KnownOperands
    BY <2>2, SatisfiedIsKnown DEF Range, MeetsConstraints
  <2> QED BY <2>2, <2>3, <2>4, <2>5, <2>6, <2>7
<1> QED BY <1>2, <1>3, DrainIds

\* A drain's step places for its own evaluation, as many as are in the plan,
\* and for no other.
LEMMA DrainPlaced ==
  ASSUME FitInv, NEW e, NEW acc, Drained(e, acc), NEW name
  PROVE  /\ Placed(e, name)' = Cardinality(Named(acc.plan, name))
         /\ \A f \in recent : f # e /\ Placed(f, name)' = Placed(f, name)
<1>1. PICK after : after = allocs'
  OBVIOUS
<1>2. /\ \A id \in DOMAIN allocs : id \in DOMAIN after /\ after[id] = allocs[id] /\ id[1] # e
      /\ \A i \in DOMAIN acc.plan : <<e, i>> \in DOMAIN after
      /\ \A id \in DOMAIN after :
           id \in DOMAIN allocs \/ (id[1] = e /\ \E i \in DOMAIN acc.plan : id = <<e, i>>)
  BY <1>1, DrainIds
<1>3. \A i \in DOMAIN acc.plan : after[<<e, i>>].task_group = acc.plan[i].task_group
  BY <1>1 DEF Drained
<1>4. Placed(e, name)' = Cardinality(Named(acc.plan, name))
  <2> DEFINE S == Named(acc.plan, name)
             T == {id \in DOMAIN after : id[1] = e /\ after[id].task_group = name}
             f == [i \in S |-> <<e, i>>]
  <2>1. acc.plan \in Seq(Placements(job.task_groups, nodes))
    BY DEF Drained, Achieves, Tight
  <2>2. IsFiniteSet(S)
    <3>1. IsFiniteSet(DOMAIN acc.plan) /\ S \subseteq DOMAIN acc.plan
      BY <2>1, FS_Interval DEF Named
    <3> QED BY <3>1, FS_Subset
  <2>3. \A i \in S : f[i] = <<e, i>> /\ f[i] \in T
    BY <1>2, <1>3 DEF Named
  <2>4. \A id \in T : \E i \in S : id = <<e, i>>
    BY <1>2, <1>3 DEF Named
  <2> HIDE DEF S, T
  <2>5. f \in [S -> T] /\ IsInjective(f)
    BY <2>3 DEF IsInjective
  <2>6. \A id \in T : \E i \in S : f[i] = id
    BY <2>3, <2>4
  <2>7. f \in Bijection(S, T)
    BY <2>5, <2>6 DEF Bijection, Injection, Surjection
  <2>8. ExistsBijection(S, T)
    BY <2>7 DEF ExistsBijection
  <2>9. Cardinality(T) = Cardinality(S)
    BY <2>2, <2>8, FS_Bijection
  <2> QED BY <1>1, <2>9 DEF Placed, S, T
<1>5. ASSUME NEW f \in recent PROVE f # e /\ Placed(f, name)' = Placed(f, name)
  <2>1. f # e
    BY DrainLists DEF FitInv, WaitingInv, Drained
  <2>2. {id \in DOMAIN after : id[1] = f /\ after[id].task_group = name}
          = {id \in DOMAIN allocs : id[1] = f /\ allocs[id].task_group = name}
    BY <1>2, <2>1
  <2> QED BY <1>1, <2>1, <2>2 DEF Placed
<1> QED BY <1>4, <1>5

LEMMA DrainMaximal ==
  ASSUME NothingWraps, FitInv, NEW e, NEW acc, Drained(e, acc)
  PROVE  PlanMaximal'
<1>1. nodes' = nodes /\ job' = job /\ recent' = recent \cup {e}
  BY DEF Drained
<1> DEFINE groups == job.task_groups
<1>2. \A g \in Range(groups) : \E i \in DOMAIN groups : g = groups[i]
  BY DEF Range
<1>3. \A i \in DOMAIN groups : groups[i] \in Range(groups)
  BY DEF Range
<1> SUFFICES ASSUME NEW f \in recent \cup {e}, NEW name \in {g.name : g \in Range(groups)}
             PROVE  /\ Placed(f, name)' <= Wanted(name)
                    /\ Placed(f, name)' < Wanted(name) =>
                         \E g \in Range(groups) : g.name = name /\ \A n \in DOMAIN nodes : ~Takes(n, g)'
  BY <1>1 DEF PlanMaximal, Wanted, Takes
<1>4. ASSUME NEW g \in Range(groups), NEW n \in DOMAIN nodes, ~Takes(n, g) PROVE ~Takes(n, g)'
  <2>1. PICK i \in DOMAIN groups : g = groups[i]
    BY <1>2
  <2>2. ~Takes(n, job.task_groups[i]) => ~Takes(n, job.task_groups[i])'
    BY DrainTakes
  <2> QED BY <1>1, <1>4, <2>1, <2>2 DEF Takes
<1>5. CASE f \in recent
  <2>1. Placed(f, name)' = Placed(f, name)
    BY <1>5, DrainPlaced
  <2>2. /\ Placed(f, name) <= Wanted(name)
        /\ Placed(f, name) < Wanted(name) =>
             \E g \in Range(groups) : g.name = name /\ \A n \in DOMAIN nodes : ~Takes(n, g)
    BY <1>5 DEF FitInv, PlanMaximal
  <2> HIDE DEF groups
  <2> QED BY <1>4, <2>1, <2>2
<1>6. CASE f = e
  <2>1. Placed(e, name)' = Cardinality(Named(acc.plan, name))
    BY DrainPlaced
  <2>2. /\ Cardinality(Named(acc.plan, name)) <= Wanted(name)
        /\ Cardinality(Named(acc.plan, name)) < Wanted(name) =>
             \E i \in DOMAIN groups : groups[i].name = name /\ NoCandidate(acc, groups[i], nodes)
    BY DEF Drained, Achieves, CountNamed, Wanted
  <2>3. ASSUME NEW i \in DOMAIN groups, groups[i].name = name, NoCandidate(acc, groups[i], nodes)
        PROVE  \E g \in Range(groups) : g.name = name /\ \A n \in DOMAIN nodes : ~Takes(n, g)'
    <3>1. PICK g : g = groups[i]
      OBVIOUS
    <3>2. ASSUME NEW n \in DOMAIN nodes PROVE ~Takes(n, g)'
      <4>1. ~Takes(n, job.task_groups[i])'
        BY <2>3, DrainTakes
      <4> QED BY <1>1, <3>1, <4>1 DEF Takes
    <3> QED BY <1>3, <2>3, <3>1, <3>2
  <2> HIDE DEF groups
  <2> QED BY <1>6, <2>1, <2>2, <2>3
<1> QED BY <1>5, <1>6

LEMMA RangeOfBoth ==
  ASSUME NEW s \in Seq(Nat), NEW t \in Seq(Nat)
  PROVE  Range(s \o t) = Range(s) \cup Range(t)
<1>1. /\ Len(s) \in Nat /\ Len(t) \in Nat /\ DOMAIN s = 1 .. Len(s) /\ DOMAIN t = 1 .. Len(t)
      /\ DOMAIN (s \o t) = 1 .. (Len(s) + Len(t))
      /\ \A i \in 1 .. (Len(s) + Len(t)) : (s \o t)[i] = IF i <= Len(s) THEN s[i] ELSE t[i - Len(s)]
  OBVIOUS
<1>2. ASSUME NEW i \in DOMAIN s PROVE s[i] \in Range(s \o t)
  <2>1. i \in DOMAIN (s \o t) /\ (s \o t)[i] = s[i]
    BY <1>1
  <2> QED BY <2>1 DEF Range
<1>3. ASSUME NEW i \in DOMAIN t PROVE t[i] \in Range(s \o t)
  <2>a. /\ i + Len(s) \in 1 .. (Len(s) + Len(t)) /\ ~(i + Len(s) <= Len(s))
        /\ (i + Len(s)) - Len(s) = i
    BY <1>1
  <2>1. i + Len(s) \in DOMAIN (s \o t) /\ (s \o t)[i + Len(s)] = t[i]
    BY <1>1, <2>a
  <2> QED BY <2>1 DEF Range
<1>4. ASSUME NEW x \in Range(s \o t) PROVE x \in Range(s) \cup Range(t)
  <2>1. PICK i \in DOMAIN (s \o t) : (s \o t)[i] = x
    BY DEF Range
  <2>2. CASE i <= Len(s)
    <3>1. i \in DOMAIN s /\ s[i] = x
      BY <1>1, <2>1, <2>2
    <3> QED BY <3>1 DEF Range
  <2>3. CASE ~(i <= Len(s))
    <3>1. i - Len(s) \in DOMAIN t /\ t[i - Len(s)] = x
      BY <1>1, <2>1, <2>3
    <3> QED BY <3>1 DEF Range
  <2> QED BY <2>2, <2>3
<1>5. Range(s) \subseteq Range(s \o t) /\ Range(t) \subseteq Range(s \o t)
  BY <1>2, <1>3 DEF Range
<1> QED BY <1>4, <1>5

LEMMA DrainHopeless ==
  ASSUME NothingWraps, FitInv, NEW e, NEW acc, Drained(e, acc)
  PROVE  ParkedIsHopeless'
<1>1. nodes' = nodes /\ job' = job /\ evals' = evals /\ e = queue[1] /\ job \in JobSpec /\ ValidJob(job)
  BY DEF Drained
<1>2. PICK groups : groups = job.task_groups
  OBVIOUS
<1>3. /\ \A g \in Range(groups) : \E i \in DOMAIN groups : g = groups[i]
      /\ \A i \in DOMAIN groups : groups[i] \in Range(groups)
  BY DEF Range
<1>4. /\ Measured(groups) /\ DesiredCount(groups) \in Nat
      /\ DesiredCount(groups) = 0 <=> \A i \in DOMAIN groups : groups[i].count = 0
  BY <1>1, <1>2, JobFacts
<1>5. ASSUME NEW g \in Range(groups), NEW n \in DOMAIN nodes,
             \/ ~Takes(n, g)
             \/ acc.plan = <<>> /\ g.count > 0
      PROVE  ~Takes(n, g)'
  <2>1. PICK i \in DOMAIN groups : g = groups[i]
    BY <1>3
  <2>2. /\ ~Takes(n, job.task_groups[i]) => ~Takes(n, job.task_groups[i])'
        /\ NoCandidate(acc, job.task_groups[i], nodes) => ~Takes(n, job.task_groups[i])'
    BY <1>2, DrainTakes
  <2>3. Takes(n, job.task_groups[i])' <=> Takes(n, g)'
    BY <1>1, <1>2, <2>1 DEF Takes
  <2>4. acc.plan = <<>> /\ g.count > 0 => NoCandidate(acc, g, nodes)
    <3>1. g.count <= Len(acc.plan) \/ NoCandidate(acc, g, nodes)
      BY <1>2, <2>1 DEF Drained, Achieves
    <3>2. g.count \in Nat
      BY <1>4, <2>1 DEF Measured
    <3>3. acc.plan = <<>> => Len(acc.plan) = 0
      OBVIOUS
    <3> QED BY <3>1, <3>2, <3>3
  <2> QED BY <1>2, <1>5, <2>1, <2>2, <2>3, <2>4
<1>6. /\ \A f \in Range(blocked) :
           /\ \E g \in Range(groups) : g.count > 0
           /\ \A g \in Range(groups) : \A n \in DOMAIN nodes : g.count > 0 => ~Takes(n, g)
      /\ \A f \in (1 .. evals) \ Range(queue \o blocked) :
           \/ \E id \in DOMAIN allocs : id[1] = f
           \/ \A g \in Range(groups) : g.count = 0
  BY <1>2 DEF FitInv, ParkedIsHopeless
<1>7. ASSUME NEW f \in Range(blocked')
      PROVE  /\ \E g \in Range(groups) : g.count > 0
             /\ \A id \in DOMAIN allocs' : id[1] # f
             /\ \A g \in Range(groups) : \A n \in DOMAIN nodes : g.count > 0 => ~Takes(n, g)'
  <2>1. PICK i \in DOMAIN blocked' : blocked'[i] = f
    BY DEF Range
  <2>2. \A id \in DOMAIN allocs' : id[1] # f
    BY <2>1, DrainWaiting DEF WaitingInv
  <2>3. CASE i \in DOMAIN blocked /\ blocked[i] = f
    <3>1. f \in Range(blocked)
      BY <2>3 DEF Range
    <3> QED BY <1>5, <1>6, <2>2, <3>1
  <2>4. CASE acc.plan = <<>> /\ DesiredCount(groups) > 0
    <3>1. DesiredCount(groups) # 0
      BY <1>4, <2>4
    <3>2. PICK m \in DOMAIN groups : groups[m].count # 0
      BY <1>4, <3>1
    <3>3. groups[m].count > 0
      BY <1>4, <3>2 DEF Measured
    <3>4. \E g \in Range(groups) : g.count > 0
      BY <1>3, <3>3
    <3> QED BY <1>5, <2>2, <2>4, <3>4
  <2> QED BY <1>2, <2>1, <2>3, <2>4, DrainLists
<1>8. ASSUME NEW f \in (1 .. evals) \ Range(queue' \o blocked')
      PROVE  \/ \E id \in DOMAIN allocs' : id[1] = f
             \/ \A g \in Range(groups) : g.count = 0
  <2>1. /\ queue \in Seq(Nat) /\ blocked \in Seq(Nat) /\ queue' \in Seq(Nat) /\ blocked' \in Seq(Nat)
    <3>1. queue \in Seq(Nat) /\ blocked \in Seq(Nat) /\ e \in Nat
      BY DEF FitInv, AcceptInv, Drained
    <3> QED BY <3>1 DEF Drained, Park
  <2>2. /\ \A i \in DOMAIN queue' : queue'[i] # f
        /\ \A i \in DOMAIN blocked' : blocked'[i] # f
    <3>1. Range(queue' \o blocked') = Range(queue') \cup Range(blocked')
      BY <2>1, RangeOfBoth
    <3> QED BY <3>1 DEF Range
  <2>3. CASE f = e
    <3>1. acc.plan # <<>> \/ ~(DesiredCount(groups) > 0)
      BY <1>2, <2>2, <2>3, DrainLists
    <3>2. CASE acc.plan # <<>>
      <4>1. acc.plan \in Seq(Placements(groups, nodes))
        BY <1>2 DEF Drained, Achieves, Tight
      <4>2. 1 \in DOMAIN acc.plan
        BY <3>2, <4>1
      <4>3. <<e, 1>> \in DOMAIN allocs' /\ <<e, 1>>[1] = e
        BY <4>2, DrainIds
      <4> QED BY <2>3, <4>3
    <3>3. CASE ~(DesiredCount(groups) > 0)
      <4>1. DesiredCount(groups) = 0
        BY <1>4, <3>3
      <4> QED BY <1>3, <1>4, <4>1
    <3> QED BY <3>1, <3>2, <3>3
  <2>4. CASE f # e
    <3>1. \A i \in DOMAIN queue : queue[i] # f
      BY <1>1, <2>2, <2>4, DrainLists
    <3>2. \A i \in DOMAIN blocked : blocked[i] # f
      BY <2>2, DrainLists
    <3>3. f \in Range(queue \o blocked) <=>
            (\E i \in DOMAIN queue : queue[i] = f) \/ (\E i \in DOMAIN blocked : blocked[i] = f)
      <4>1. Range(queue \o blocked) = Range(queue) \cup Range(blocked)
        BY <2>1, RangeOfBoth
      <4> QED BY <4>1 DEF Range
    <3>4. f \notin Range(queue \o blocked)
      BY <3>1, <3>2, <3>3
    <3> QED BY <1>6, <3>4, DrainIds
  <2> QED BY <2>3, <2>4
<1> QED BY <1>1, <1>2, <1>7, <1>8 DEF ParkedIsHopeless

LEMMA DrainStep ==
  ASSUME NothingWraps, FitInv, DrainQueue
  PROVE  StoreInv' /\ RoomInv' /\ WaitingInv' /\ PlanFits' /\ PlanMaximal' /\ ParkedIsHopeless'
<1>1. PICK e, acc : Drained(e, acc)
  BY DrainFacts
<1>2. RoomInv'
  BY <1>1, DrainRoom DEF RoomInv, Drained
<1> QED BY <1>1, <1>2, DrainStore, DrainWaiting, DrainFits, DrainMaximal, DrainHopeless

\* Nothing of the reference changes while nodes, allocations and job do not.
LEMMA SameReading ==
  ASSUME UNCHANGED <<nodes, allocs, job>>
  PROVE  /\ \A e, name : Placed(e, name)' = Placed(e, name)
         /\ \A name : Wanted(name)' = Wanted(name)
         /\ \A n, d : RoomLeft(n, d)' = RoomLeft(n, d)
         /\ \A n, g : Takes(n, g)' <=> Takes(n, g)
<1>1. \A n, d : RoomLeft(n, d)' = RoomLeft(n, d)
  BY DEF RoomLeft, Held
<1>2. \A n, g : Takes(n, g)' <=> Takes(n, g)
  BY <1>1 DEF Takes
<1>3. \A e, name : Placed(e, name)' = Placed(e, name)
  BY DEF Placed
<1>4. \A name : Wanted(name)' = Wanted(name)
  BY DEF Wanted
<1> QED BY <1>1, <1>2, <1>3, <1>4

LEMMA FitInit == Init => FitInv
<1> SUFFICES ASSUME Init PROVE FitInv
  OBVIOUS
<1>1. AcceptInv
  BY AcceptInit
<1>2. DOMAIN nodes = {} /\ DOMAIN allocs = {} /\ evals = 0 /\ recent = {} /\ queue = <<>> /\ blocked = <<>>
  BY DEF Init
<1>3. StoreInv /\ RoomInv /\ PlanFits /\ PlanMaximal
  BY <1>2, FS_EmptySet DEF StoreInv, RoomInv, PlanFits, PlanMaximal
<1>4. WaitingInv
  BY <1>2 DEF WaitingInv
<1>5. ParkedIsHopeless
  <2>1. Range(blocked) = {}
    BY <1>2 DEF Range
  <2>2. 1 .. evals = {}
    BY <1>2
  <2> QED BY <2>1, <2>2 DEF ParkedIsHopeless
<1> QED BY <1>1, <1>3, <1>4, <1>5 DEF FitInv

\* Allocations are there already before any node or job is.
LEMMA UpsertStep ==
  ASSUME FitInv, NEW a \in AllocSpec, UpsertAlloc(a)
  PROVE  StoreInv' /\ RoomInv' /\ WaitingInv' /\ PlanFits' /\ PlanMaximal' /\ ParkedIsHopeless'
<1>1. /\ job = NoJob /\ DOMAIN nodes = {} /\ UNCHANGED <<nodes, job, queue, blocked, evals, recent>>
  BY DEF UpsertAlloc
<1>2. evals = 0 /\ recent = {} /\ queue = <<>> /\ blocked = <<>>
  BY <1>1 DEF FitInv, WaitingInv, AcceptInv
<1> DEFINE c == Cardinality(DOMAIN allocs)
           id == <<0, c + 1>>
<1>3. c \in Nat /\ MaxAllocs \in Nat /\ c + 1 \in 1 .. MaxAllocs
  <2>1. c \in Nat
    BY FS_CardinalityType DEF FitInv, StoreInv
  <2>2. c < MaxAllocs
    BY DEF UpsertAlloc
  <2> QED BY <2>1, <2>2, PlacementAssumption
<1>4. \/ allocs' = allocs
      \/ allocs' = [k \in DOMAIN allocs \cup {id} |-> IF k = id THEN a ELSE allocs[k]]
  BY DEF UpsertAlloc
<1> HIDE DEF c
<1>5. StoreInv'
  <2>1. CASE allocs' = allocs
    BY <1>1, <2>1 DEF FitInv, StoreInv
  <2>2. CASE allocs' = [k \in DOMAIN allocs \cup {id} |-> IF k = id THEN a ELSE allocs[k]]
    <3>1. DOMAIN allocs' = DOMAIN allocs \cup {id}
      BY <2>2
    <3>2. IsFiniteSet(DOMAIN allocs')
      <4>1. IsFiniteSet(DOMAIN allocs)
        BY DEF FitInv, StoreInv
      <4> HIDE DEF id
      <4> QED BY <3>1, <4>1, FS_AddElement
    <3>3. ASSUME NEW k \in DOMAIN allocs', k # id
          PROVE  /\ k[1] \in 0 .. evals
                 /\ k[1] = 0 => allocs'[k] \in AllocSpec /\ \E i \in 1 .. MaxAllocs : k = <<0, i>>
                 /\ k[1] > 0 => allocs'[k].node \in DOMAIN nodes
                 /\ allocs'[k].client_status \in ClientStatus
                 /\ \A d \in Dimension : allocs'[k].resources[d] \in Int
      <4>1. k \in DOMAIN allocs /\ allocs'[k] = allocs[k]
        BY <2>2, <3>1, <3>3
      <4> QED BY <4>1 DEF FitInv, StoreInv
    <3>4. allocs'[id] = a /\ id[1] = 0
      BY <2>2
    <3>5. a.client_status \in ClientStatus /\ a.resources \in [Dimension -> I32]
      BY PlacementAssumption
    <3>6. \A d \in Dimension : a.resources[d] \in Int
      BY <3>5, SchedulerAssumption DEF I32
    <3>7. /\ id[1] \in 0 .. evals /\ ~(id[1] > 0)
          /\ allocs'[id] \in AllocSpec /\ \E i \in 1 .. MaxAllocs : id = <<0, i>>
      BY <1>2, <1>3, <3>4
    <3> HIDE DEF id
    <3> QED BY <1>1, <3>2, <3>3, <3>4, <3>5, <3>6, <3>7 DEF FitInv, StoreInv
  <2> QED BY <1>4, <2>1, <2>2
<1>6. RoomInv' /\ PlanMaximal'
  BY <1>1, <1>2 DEF RoomInv, PlanMaximal
<1>7. WaitingInv'
  BY <1>1, <1>2 DEF WaitingInv
<1>8. PlanFits'
  <2>1. \A k \in DOMAIN allocs' : k[1] \in 0 .. 0
    BY <1>1, <1>2, <1>5 DEF StoreInv
  <2>2. \A k \in DOMAIN allocs' : ~(k[1] > 0)
    BY <2>1
  <2> QED BY <2>2 DEF PlanFits
<1>9. ParkedIsHopeless'
  <2>1. Range(blocked') = {}
    BY <1>1, <1>2 DEF Range
  <2>2. 1 .. evals' = {}
    BY <1>1, <1>2
  <2> QED BY <2>1, <2>2 DEF ParkedIsHopeless
<1> QED BY <1>5, <1>6, <1>7, <1>8, <1>9

\* A node that registers has the room of its own, and everything is pending
\* again.
LEMMA NodeStep ==
  ASSUME NothingWraps, FitInv, NEW n \in Node, NEW spec \in NodeSpec, RegisterNode(n, spec), ValidNode(n, spec)
  PROVE  StoreInv' /\ RoomInv' /\ WaitingInv' /\ PlanFits' /\ PlanMaximal' /\ ParkedIsHopeless'
<1>1. /\ n \notin DOMAIN nodes
      /\ nodes' = [k \in DOMAIN nodes \cup {n} |-> IF k = n THEN spec ELSE nodes[k]]
      /\ queue' = queue \o blocked /\ blocked' = <<>> /\ recent' = {}
      /\ UNCHANGED <<allocs, job, evals>>
  BY DEF RegisterNode
<1>2. /\ DOMAIN nodes' = DOMAIN nodes \cup {n} /\ nodes'[n] = spec
      /\ \A m \in DOMAIN nodes : nodes'[m] = nodes[m]
  BY <1>1
<1>3. queue \in Seq(Nat) /\ blocked \in Seq(Nat)
  BY DEF FitInv, AcceptInv
<1>4. StoreInv'
  BY <1>1, <1>2 DEF FitInv, StoreInv
<1>5. ASSUME NEW m \in DOMAIN nodes, NEW d PROVE RoomLeft(m, d)' = RoomLeft(m, d)
  BY <1>1, <1>2 DEF RoomLeft, Held
<1>6. RoomInv'
  <2> SUFFICES ASSUME NEW m \in DOMAIN nodes', NEW d \in Dimension PROVE RoomLeft(m, d)' \in I32
    BY DEF RoomInv
  <2>1. CASE m \in DOMAIN nodes
    BY <1>5, <2>1 DEF FitInv, RoomInv
  <2>2. CASE m = n
    <3>1. RoomLeft(n, d)' = nodes'[n].resources[d] - Hold(n, d, allocs')
      BY <1>4, RoomIsNext
    <3>2. spec.resources[d] - Hold(n, d, allocs) \in I32
      BY <1>1, FreshNodeRoom DEF FitInv
    <3> QED BY <1>1, <1>2, <2>2, <3>1, <3>2
  <2> QED BY <1>2, <2>1, <2>2
<1>7. WaitingInv'
  <2>1. /\ \A i \in DOMAIN queue : queue[i] \in 1 .. evals
        /\ \A i \in DOMAIN blocked : blocked[i] \in 1 .. evals
        /\ \A i, k \in DOMAIN queue : queue[i] = queue[k] => i = k
        /\ \A i, k \in DOMAIN blocked : blocked[i] = blocked[k] => i = k
        /\ \A i \in DOMAIN queue, k \in DOMAIN blocked : queue[i] # blocked[k]
        /\ \A id \in DOMAIN allocs :
             /\ \A i \in DOMAIN queue : queue[i] # id[1]
             /\ \A i \in DOMAIN blocked : blocked[i] # id[1]
        /\ job = NoJob => evals = 0
    BY DEF FitInv, WaitingInv
  <2> DEFINE s == Len(queue)
             t == Len(blocked)
  <2>2. /\ s \in Nat /\ t \in Nat /\ DOMAIN queue = 1 .. s /\ DOMAIN blocked = 1 .. t
        /\ DOMAIN queue' = 1 .. (s + t)
        /\ \A i \in 1 .. (s + t) : queue'[i] = IF i <= s THEN queue[i] ELSE blocked[i - s]
    BY <1>1, <1>3
  <2> HIDE DEF s, t
  <2>3. \A i \in DOMAIN queue' :
          \/ i \in DOMAIN queue /\ queue'[i] = queue[i]
          \/ i - s \in DOMAIN blocked /\ i \notin DOMAIN queue /\ queue'[i] = blocked[i - s]
    BY <2>2
  <2>4. \A i \in DOMAIN queue' : queue'[i] \in 1 .. evals /\ \A id \in DOMAIN allocs : queue'[i] # id[1]
    BY <2>1, <2>3
  <2>5. ASSUME NEW i \in DOMAIN queue', NEW k \in DOMAIN queue', queue'[i] = queue'[k] PROVE i = k
    <3>1. CASE i \in DOMAIN queue /\ k \in DOMAIN queue
      BY <2>1, <2>3, <2>5, <3>1
    <3>2. CASE i \notin DOMAIN queue /\ k \notin DOMAIN queue
      <4>1. i - s = k - s
        BY <2>1, <2>3, <2>5, <3>2
      <4> QED BY <2>2, <4>1
    <3>3. CASE ~(i \in DOMAIN queue <=> k \in DOMAIN queue)
      BY <2>1, <2>3, <2>5, <3>3
    <3> QED BY <3>1, <3>2, <3>3
  <2>6. \A i \in DOMAIN blocked' : FALSE
    BY <1>1
  <2> QED BY <1>1, <2>1, <2>4, <2>5, <2>6 DEF WaitingInv
<1>8. PlanFits'
  <2> SUFFICES ASSUME NEW id \in DOMAIN allocs, id[1] > 0, NEW m, m = allocs[id].node
               PROVE  /\ m \in DOMAIN nodes'
                      /\ IsReady(nodes'[m])
                      /\ \A d \in Dimension : RoomLeft(m, d)' >= 0
                      /\ \E g \in Range(job.task_groups) :
                           /\ allocs[id].task_group = g.name
                           /\ \A d \in Dimension : allocs[id].resources[d] = Demand(g, d)
                           /\ MeetsConstraints(nodes'[m], g)
                           /\ \A c \in Range(g.constraints) : c.operand \in KnownOperands
    BY <1>1 DEF PlanFits
  <2>1. /\ m \in DOMAIN nodes
        /\ IsReady(nodes[m])
        /\ \A d \in Dimension : RoomLeft(m, d) >= 0
        /\ \E g \in Range(job.task_groups) :
             /\ allocs[id].task_group = g.name
             /\ \A d \in Dimension : allocs[id].resources[d] = Demand(g, d)
             /\ MeetsConstraints(nodes[m], g)
             /\ \A c \in Range(g.constraints) : c.operand \in KnownOperands
    BY DEF FitInv, PlanFits
  <2>2. nodes'[m] = nodes[m] /\ m \in DOMAIN nodes' /\ \A d \in Dimension : RoomLeft(m, d)' >= 0
    BY <1>2, <1>5, <2>1
  <2> QED BY <2>1, <2>2
<1>9. PlanMaximal'
  BY <1>1 DEF PlanMaximal
<1>10. ParkedIsHopeless'
  <2>1. Range(blocked') = {} /\ queue' \o blocked' = queue \o blocked
    <3>1. queue \o blocked \in Seq(Nat)
      BY <1>3
    <3>2. (queue \o blocked) \o <<>> = queue \o blocked
      BY <3>1
    <3> QED BY <1>1, <3>2 DEF Range
  <2>2. \A e \in (1 .. evals) \ Range(queue \o blocked) :
           \/ \E id \in DOMAIN allocs : id[1] = e
           \/ \A g \in Range(job.task_groups) : g.count = 0
    BY DEF FitInv, ParkedIsHopeless
  <2> QED BY <1>1, <2>1, <2>2 DEF ParkedIsHopeless
<1> QED BY <1>4, <1>6, <1>7, <1>8, <1>9, <1>10

\* A registration of the job makes an evaluation that has a number of its own.
LEMMA JobStep ==
  ASSUME FitInv, NEW j \in JobSpec, RegisterJob(j), ValidJob(j)
  PROVE  StoreInv' /\ RoomInv' /\ WaitingInv' /\ PlanFits' /\ PlanMaximal' /\ ParkedIsHopeless'
<1>1. /\ job' = j /\ evals' = evals + 1 /\ queue' = Append(queue, evals + 1)
      /\ UNCHANGED <<nodes, allocs, blocked, recent>> /\ job \in {NoJob, j} /\ j # NoJob
  BY PlacementAssumption DEF RegisterJob
<1>2. queue \in Seq(Nat) /\ blocked \in Seq(Nat) /\ evals \in Nat
  BY DEF FitInv, AcceptInv
<1>3. \/ job' = job
      \/ evals = 0 /\ queue = <<>> /\ blocked = <<>> /\ recent = {}
  BY <1>1 DEF FitInv, AcceptInv, WaitingInv
<1>4. \A id \in DOMAIN allocs : id[1] \in 0 .. evals
  BY DEF FitInv, StoreInv
<1>5. StoreInv'
  <2>1. \A id \in DOMAIN allocs : id[1] \in 0 .. evals'
    BY <1>1, <1>2, <1>4
  <2> QED BY <1>1, <2>1 DEF FitInv, StoreInv
<1>6. RoomInv'
  BY <1>1 DEF FitInv, RoomInv, RoomLeft, Held
<1>7. WaitingInv'
  <2>1. /\ \A i \in DOMAIN queue : queue[i] \in 1 .. evals
        /\ \A i \in DOMAIN blocked : blocked[i] \in 1 .. evals
        /\ \A i, k \in DOMAIN queue : queue[i] = queue[k] => i = k
        /\ \A i, k \in DOMAIN blocked : blocked[i] = blocked[k] => i = k
        /\ \A i \in DOMAIN queue, k \in DOMAIN blocked : queue[i] # blocked[k]
        /\ recent \subseteq 1 .. evals
        /\ \A i \in DOMAIN queue : queue[i] \notin recent
        /\ \A id \in DOMAIN allocs :
             /\ \A i \in DOMAIN queue : queue[i] # id[1]
             /\ \A i \in DOMAIN blocked : blocked[i] # id[1]
    BY DEF FitInv, WaitingInv
  <2> DEFINE k == Len(queue) + 1
             new == evals + 1
  <2>2. /\ DOMAIN queue' = DOMAIN queue \cup {k} /\ k \notin DOMAIN queue
        /\ queue'[k] = new /\ \A i \in DOMAIN queue : queue'[i] = queue[i]
    BY <1>1, <1>2
  <2>3. /\ 1 .. evals \subseteq 1 .. new /\ new \in 1 .. new /\ new \notin 1 .. evals /\ new \notin 0 .. evals
    BY <1>2
  <2> HIDE DEF k, new
  <2>4. /\ \A i \in DOMAIN queue' : queue'[i] \in 1 .. new /\ queue'[i] \notin recent
        /\ \A i \in DOMAIN blocked : blocked[i] \in 1 .. new
        /\ recent \subseteq 1 .. new
    BY <2>1, <2>2, <2>3
  <2>5. /\ \A i, m \in DOMAIN queue' : queue'[i] = queue'[m] => i = m
        /\ \A i \in DOMAIN queue', m \in DOMAIN blocked : queue'[i] # blocked[m]
    BY <2>1, <2>2, <2>3
  <2>6. \A id \in DOMAIN allocs : \A i \in DOMAIN queue' : queue'[i] # id[1]
    BY <1>4, <2>1, <2>2, <2>3
  <2>7. evals' = new
    BY <1>1 DEF new
  <2> QED BY <1>1, <2>1, <2>4, <2>5, <2>6, <2>7 DEF WaitingInv
<1>8. PlanFits'
  <2>1. CASE job' = job
    BY <1>1, <2>1 DEF FitInv, PlanFits, RoomLeft, Held
  <2>2. CASE evals = 0
    <3>1. \A id \in DOMAIN allocs' : ~(id[1] > 0)
      BY <1>1, <1>4, <2>2
    <3> QED BY <3>1 DEF PlanFits
  <2> QED BY <1>3, <2>1, <2>2
<1>9. PlanMaximal'
  <2>1. CASE job' = job
    BY <1>1, <2>1, SameReading DEF FitInv, PlanMaximal
  <2>2. CASE recent = {}
    BY <1>1, <2>2 DEF PlanMaximal
  <2> QED BY <1>3, <2>1, <2>2
<1>10. ParkedIsHopeless'
  <2>1. \A e \in (1 .. evals') \ Range(queue' \o blocked') : e \in (1 .. evals) \ Range(queue \o blocked)
    <3> SUFFICES ASSUME NEW e \in 1 .. evals', e \notin Range(queue' \o blocked')
                 PROVE  e \in 1 .. evals /\ e \notin Range(queue \o blocked)
      OBVIOUS
    <3>1. queue' \in Seq(Nat) /\ blocked' \in Seq(Nat) /\ queue \in Seq(Nat) /\ blocked \in Seq(Nat)
      BY <1>1, <1>2
    <3>2. e \in Range(queue' \o blocked') <=>
            (\E i \in DOMAIN queue' : queue'[i] = e) \/ (\E i \in DOMAIN blocked' : blocked'[i] = e)
      <4>1. Range(queue' \o blocked') = Range(queue') \cup Range(blocked')
        BY <3>1, RangeOfBoth
      <4> QED BY <4>1 DEF Range
    <3>3. e \in Range(queue \o blocked) <=>
            (\E i \in DOMAIN queue : queue[i] = e) \/ (\E i \in DOMAIN blocked : blocked[i] = e)
      <4>1. Range(queue \o blocked) = Range(queue) \cup Range(blocked)
        BY <3>1, RangeOfBoth
      <4> QED BY <4>1 DEF Range
    <3>4. /\ \A i \in DOMAIN queue : i \in DOMAIN queue' /\ queue'[i] = queue[i]
          /\ Len(queue) + 1 \in DOMAIN queue' /\ queue'[Len(queue) + 1] = evals + 1
      BY <1>1, <1>2
    <3>5. e # evals + 1
      BY <3>2, <3>4
    <3>6. e \in 1 .. evals
      BY <1>1, <1>2, <3>5
    <3> QED BY <1>1, <3>2, <3>3, <3>4, <3>6
  <2>2. CASE job' = job
    BY <1>1, <2>1, <2>2, SameReading DEF FitInv, ParkedIsHopeless
  <2>3. CASE evals = 0 /\ blocked = <<>>
    <3>1. Range(blocked') = {} /\ 1 .. evals = {}
      BY <1>1, <2>3 DEF Range
    <3> QED BY <2>1, <3>1 DEF ParkedIsHopeless
  <2> QED BY <1>3, <2>2, <2>3
<1> QED BY <1>5, <1>6, <1>7, <1>8, <1>9, <1>10

LEMMA FitSame == FitInv /\ UNCHANGED vars => FitInv'
<1> SUFFICES ASSUME FitInv, UNCHANGED vars PROVE FitInv'
  OBVIOUS
<1> USE DEF vars, FitInv
<1>1. AcceptInv' /\ StoreInv' /\ WaitingInv'
  BY DEF AcceptInv, StoreInv, WaitingInv
<1>2. RoomInv' /\ PlanFits'
  BY DEF RoomInv, PlanFits, RoomLeft, Held
<1>3. PlanMaximal' /\ ParkedIsHopeless'
  BY SameReading DEF PlanMaximal, ParkedIsHopeless
<1> QED BY <1>1, <1>2, <1>3

LEMMA FitStep ==
  ASSUME NothingWraps
  PROVE  FitInv /\ [Next]_vars => FitInv'
<1> SUFFICES ASSUME FitInv, [Next]_vars PROVE FitInv'
  OBVIOUS
<1>0. AcceptInv'
  BY AcceptStep DEF FitInv
<1>1. ASSUME NEW a \in AllocSpec, UpsertAlloc(a) PROVE FitInv'
  BY <1>0, <1>1, UpsertStep DEF FitInv
<1>2. ASSUME NEW n \in Node, NEW spec \in NodeSpec, RegisterNode(n, spec) PROVE FitInv'
  <2>1. CASE ValidNode(n, spec)
    BY <1>0, <1>2, <2>1, NodeStep DEF FitInv
  <2>2. CASE ~ValidNode(n, spec)
    <3>1. UNCHANGED vars
      BY <1>2, <2>2 DEF RegisterNode, vars
    <3> QED BY <3>1, FitSame
  <2> QED BY <2>1, <2>2
<1>3. ASSUME NEW j \in JobSpec, RegisterJob(j) PROVE FitInv'
  <2>1. CASE ValidJob(j)
    BY <1>0, <1>3, <2>1, JobStep DEF FitInv
  <2>2. CASE ~ValidJob(j)
    <3>1. UNCHANGED vars
      BY <1>3, <2>2 DEF RegisterJob, vars
    <3> QED BY <3>1, FitSame
  <2> QED BY <2>1, <2>2
<1>4. CASE DrainQueue
  BY <1>0, <1>4, DrainStep DEF FitInv
<1>5. CASE UNCHANGED vars
  BY <1>5, FitSame
<1> QED BY <1>1, <1>2, <1>3, <1>4, <1>5 DEF Next

\* The store, what is left of the nodes and the lists of evaluations agree
\* with each other at every step of every drain.
THEOREM FitInvariantHolds ==
  ASSUME NothingWraps
  PROVE  Spec => []FitInv
  BY FitInit, FitStep, PTL DEF Spec

\* Whatever is registered in whatever order, and wherever list_nodes() has
\* it: what process_eval placed is on a ready node that satisfies the group's
\* constraints, with the group's true demand, and no such node holds more than
\* it has, over all evaluations.
THEOREM PlanFitsHolds ==
  ASSUME NothingWraps
  PROVE  Spec => []PlanFits
<1>1. FitInv => PlanFits
  BY DEF FitInv
<1> QED BY <1>1, FitInvariantHolds, PTL

\* First fit and best score alike leave an instance unplaced only where no
\* node would take one more of a group of its name, and place none too many.
THEOREM PlanMaximalHolds ==
  ASSUME NothingWraps
  PROVE  Spec => []PlanMaximal
<1>1. FitInv => PlanMaximal
  BY DEF FitInv
<1> QED BY <1>1, FitInvariantHolds, PTL

\* drain_queue parks an evaluation just when it wants instances and no node
\* would take any, and it stays so until a node registers.
THEOREM ParkedIsHopelessHolds ==
  ASSUME NothingWraps
  PROVE  Spec => []ParkedIsHopeless
<1>1. FitInv => ParkedIsHopeless
  BY DEF FitInv
<1> QED BY <1>1, FitInvariantHolds, PTL

============================================================================
