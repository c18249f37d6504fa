------------------------- MODULE BrokerRefinement --------------------------
(***************************************************************************)
(* EvalQueue implements PriorityBroker: each lane is the heap's entries of *)
(* one priority in the order of their sequence numbers, a delivery's tries *)
(* are its dequeues, and time is forgotten.                                *)
(***************************************************************************)
EXTENDS EvalQueue

\* What PriorityBroker has of an entry.
Shown(pe) == [eval |-> pe.eval, tries |-> pe.dequeues]

\* The entries of S with priority p and sequence number n: one at most.
LaneAt(S, p, n) == {pe \in S : pe.seq = n /\ Priority[pe.eval] = p}

\* The lane of priority p in S up to its next sequence number, n.
Longer(S, p, n, lane) ==
  IF LaneAt(S, p, n) = {} THEN lane
  ELSE Append(lane, Shown(CHOOSE pe \in LaneAt(S, p, n) : TRUE))

\* The lane of priority p in S, walking the sequence numbers up to limit.
LaneUpTo(S, p, limit) ==
  LET upTo[n \in 0 .. limit] == IF n = 0 THEN <<>> ELSE Longer(S, p, n - 1, upTo[n - 1])
  IN  upTo

Lane(p) == LaneUpTo(heap, p, next_seq)[next_seq]

Broker ==
  INSTANCE PriorityBroker WITH
    Limit  <- MAX_DEQUEUE,
    lanes  <- [p \in {Priority[e] : e \in Eval} |-> Lane(p)],
    held   <- [id \in DOMAIN in_flight |-> in_flight[id].dequeues],
    parked <- blocked

\* The queue keeps the broker's promise step by step: delivery order, counts
\* across nack, reap_expired and unblock_all, and what is given up.
ImplementsBroker == Broker!Spec

============================================================================
