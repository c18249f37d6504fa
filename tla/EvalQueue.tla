----------------------------- MODULE EvalQueue -----------------------------
(***************************************************************************)
(* The evaluation broker of src/src/eval_queue.rs.                         *)
(*                                                                         *)
(* Every public method of EvalQueue takes the one mutex, changes Inner and *)
(* releases it, so each method is one atomic action here.  The module      *)
(* keeps the fields of Inner under their own names:                        *)
(*                                                                         *)
(*   heap       the BinaryHeap<PendingEval>, as a set of records: the pop  *)
(*              order is fixed by Ord (Before), not by the heap's layout   *)
(*   next_seq   the insertion counter                                      *)
(*   in_flight  the HashMap from eval id to the delivered PendingEval      *)
(*   blocked    the Vec of parked evaluations                              *)
(*                                                                         *)
(* An evaluation is identified with its id.  The Instant dequeued_at is    *)
(* kept as the age of the delivery, which Tick advances for every          *)
(* delivery at once and which saturates at VISIBILITY, the only timeout    *)
(* the server passes to reap_expired.  Entries of the heap have no age     *)
(* (dequeued_at is None for all of them).                                  *)
(*                                                                         *)
(* Mutex poisoning is not modelled: no method panics while it holds the    *)
(* lock.  Len, in_flight_len, blocked_len and depth only read.             *)
(***************************************************************************)
EXTENDS Integers, Sequences, FiniteSets, Functions

CONSTANTS
  Eval,         \* evaluations, identified with their ids
  Priority,     \* Priority[e]: the priority the evaluation was created with
  MAX_DEQUEUE,  \* how often an entry is delivered before a nack drops it
  VISIBILITY,   \* the age at which a delivery counts as dead
  MaxSeq,       \* bound: insertions, the only unbounded counter
  MaxBlocked    \* bound: length of the parked list

ASSUME QueueAssumption ==
  /\ Priority \in [Eval -> Int]
  /\ MAX_DEQUEUE \in Nat \ {0}
  /\ VISIBILITY \in Nat \ {0}
  /\ MaxSeq \in Nat
  /\ MaxBlocked \in Nat

VARIABLES heap, next_seq, in_flight, blocked

queueVars == <<heap, next_seq, in_flight, blocked>>

PendingEval == [seq : Nat, eval : Eval, dequeues : Nat]

Delivered == [seq : Nat, eval : Eval, dequeues : Nat, age : 0 .. VISIBILITY]

----------------------------------------------------------------------------
(* Helpers of the methods.                                                 *)

\* Faulty variant: ignores the priority.
BeforeBySeq(a, b) == a.seq < b.seq

\* Faulty variant: among equals the youngest goes first.
BeforeYoungest(a, b) ==
  \/ Priority[a.eval] > Priority[b.eval]
  \/ Priority[a.eval] = Priority[b.eval] /\ a.seq > b.seq

\* Ord for PendingEval: a is popped before b.
Before(a, b) ==
  \/ Priority[a.eval] > Priority[b.eval]
  \/ Priority[a.eval] = Priority[b.eval] /\ a.seq < b.seq

\* Faulty variant: the delivery count starts over.
RequeuedAfresh(pe, seq) == [seq |-> seq, eval |-> pe.eval, dequeues |-> 0]

\* A delivery put back on the heap under a fresh sequence number; it keeps
\* its delivery count.
Requeued(pe, seq) == [seq |-> seq, eval |-> pe.eval, dequeues |-> pe.dequeues]

\* A first-time heap entry.
Fresh(seq, e) == [seq |-> seq, eval |-> e, dequeues |-> 0]

\* The deliveries, by id, that are at least timeout old.
Expired(timeout) == {id \in DOMAIN in_flight : in_flight[id].age >= timeout}

\* The deliveries among ids that may still be delivered again.
Retriable(ids) == {id \in ids : in_flight[id].dequeues < MAX_DEQUEUE}

\* Faulty variant: looks the entries up and leaves them in the map.
WithoutNone(ids) == in_flight

Without(ids) == [id \in DOMAIN in_flight \ ids |-> in_flight[id]]

----------------------------------------------------------------------------
(* The methods.                                                            *)

QueueInit ==
  /\ heap = {}
  /\ next_seq = 0
  /\ in_flight = [id \in {} |-> {}]
  /\ blocked = <<>>

Enqueue(e) ==
  /\ next_seq < MaxSeq
  /\ heap' = heap \cup {Fresh(next_seq, e)}
  /\ next_seq' = next_seq + 1
  /\ UNCHANGED <<in_flight, blocked>>

\* dequeue() returning Some(pe.eval); on an empty heap it changes nothing.
\* HashMap::insert replaces an older delivery of the same id.
Dequeue(pe) ==
  /\ pe \in heap
  /\ \A other \in heap \ {pe} : Before(pe, other)
  /\ heap' = heap \ {pe}
  /\ in_flight' = [id \in DOMAIN in_flight \cup {pe.eval} |->
                     IF id = pe.eval
                       THEN [seq |-> pe.seq, eval |-> pe.eval,
                             dequeues |-> pe.dequeues + 1, age |-> 0]
                       ELSE in_flight[id]]
  /\ UNCHANGED <<next_seq, blocked>>

\* ack() of an unknown id is a no-op.
Ack(id) ==
  /\ in_flight' = Without({id})
  /\ UNCHANGED <<heap, next_seq, blocked>>

Nack(id) ==
  /\ id \in DOMAIN in_flight
  /\ in_flight' = Without({id})
  /\ IF in_flight[id].dequeues < MAX_DEQUEUE
       THEN /\ next_seq < MaxSeq
            /\ heap' = heap \cup {Requeued(in_flight[id], next_seq)}
            /\ next_seq' = next_seq + 1
       ELSE UNCHANGED <<heap, next_seq>>
  /\ UNCHANGED blocked

\* The sequence numbers that reap_expired may hand to the ids it re-queues:
\* it walks a HashMap, so in any order.
Orders(ids) == Bijection(ids, next_seq .. (next_seq + Cardinality(ids) - 1))

ReapExpired(timeout, order) ==
  LET back == Retriable(Expired(timeout)) IN
  /\ Expired(timeout) # {}
  /\ next_seq + Cardinality(back) <= MaxSeq
  /\ order \in Orders(back)
  /\ heap' = heap \cup {Requeued(in_flight[id], order[id]) : id \in back}
  /\ next_seq' = next_seq + Cardinality(back)
  /\ in_flight' = Without(Expired(timeout))
  /\ UNCHANGED blocked

Block(e) ==
  /\ Len(blocked) < MaxBlocked
  /\ blocked' = Append(blocked, e)
  /\ UNCHANGED <<heap, next_seq, in_flight>>

\* unblock_all() starts every parked evaluation afresh, in parking order.
UnblockAll ==
  /\ next_seq + Len(blocked) <= MaxSeq
  /\ heap' = heap \cup {Fresh(next_seq + i - 1, blocked[i]) : i \in 1 .. Len(blocked)}
  /\ next_seq' = next_seq + Len(blocked)
  /\ blocked' = <<>>
  /\ UNCHANGED in_flight

\* One unit of time passes for every delivery.
Tick ==
  /\ in_flight' = [id \in DOMAIN in_flight |->
                     IF in_flight[id].age < VISIBILITY
                       THEN [in_flight[id] EXCEPT !.age = @ + 1]
                       ELSE in_flight[id]]
  /\ UNCHANGED <<heap, next_seq, blocked>>

----------------------------------------------------------------------------
(* The broker with any number of threads calling any method at any time.   *)

QueueNext ==
  \/ \E e \in Eval : Enqueue(e) \/ Ack(e) \/ Nack(e) \/ Block(e)
  \/ \E pe \in heap : Dequeue(pe)
  \/ \E order \in Orders(Retriable(Expired(VISIBILITY))) : ReapExpired(VISIBILITY, order)
  \/ UnblockAll
  \/ Tick

QueueSpec == QueueInit /\ [][QueueNext]_queueVars

----------------------------------------------------------------------------
(* Every field of Inner holds values of its Rust type. *)
QueueTypeOK ==
  /\ heap \subseteq PendingEval
  /\ next_seq \in Nat
  /\ DOMAIN in_flight \subseteq Eval
  /\ in_flight \in [DOMAIN in_flight -> Delivered]
  /\ blocked \in Seq(Eval)

============================================================================
