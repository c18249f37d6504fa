------------------------------ MODULE MCClient ------------------------------
(***************************************************************************)
(* The client side: an alloc runner (AllocRunner), a task runner used      *)
(* directly (TaskRunner), the local database (ClientState) and the gossip  *)
(* among the agents (Membership).  Nothing in the code connects them yet,  *)
(* so a behaviour moves only one of them: the part it starts with.         *)
(***************************************************************************)
EXTENDS TaskRunner, ClientState, Membership, TLC

CONSTANTS k1, k2, a1, a2, t1, r1

VARIABLE part

MCConnection == {k1, k2}
MCAllocId == {a1, a2}
MCTaskName == {t1}
MCRest == {r1}

MCPolicies == [attempts : 0 .. 2]

\* Members are interchangeable.
NodeSymmetry == Permutations(Node)

runnerPart == <<runnerVars, taskVars>>

vars == <<part, runnerPart, dbVars, memberVars>>

Init ==
  /\ part \in {"alloc", "task", "database", "gossip"}
  /\ RunnerInit /\ TaskInit /\ DbInit /\ MemberInit
  /\ part # "task" => policy = [attempts |-> 0]

Next ==
  \/ part = "alloc" /\ RunnerNext /\ UNCHANGED <<part, taskVars, dbVars, memberVars>>
  \/ part = "task" /\ TaskNext /\ UNCHANGED <<part, dbVars, memberVars>>
  \/ part = "database" /\ DbNext /\ UNCHANGED <<part, runnerPart, memberVars>>
  \/ part = "gossip" /\ MemberNext /\ UNCHANGED <<part, runnerPart, dbVars>>

Spec == Init /\ [][Next]_vars

============================================================================
