------------------------- MODULE EvalQueueHistory --------------------------
(***************************************************************************)
(* EvalQueue with a history of what became of every evaluation put into    *)
(* it.  A ticket is one admission to the heap by enqueue or unblock_all;   *)
(* it is named by the sequence number it was admitted under and survives   *)
(* every re-queue by nack or reap_expired.  The history variables watch    *)
(* the queue and never influence it.                                       *)
(***************************************************************************)
EXTENDS EvalQueue

VARIABLES
  origin,    \* origin[s]: the ticket that sequence number s was given to
  admitted,  \* admitted[t]: the evaluation ticket t was issued for
  handed,    \* handed[t]: how often ticket t was delivered
  fate       \* fate[t]: "live", or how ticket t ended

historyVars == <<origin, admitted, handed, fate>>

vars == <<heap, next_seq, in_flight, blocked, origin, admitted, handed, fate>>

Fate == {"live", "acked", "dropped", "replaced"}

Tickets == DOMAIN fate

\* The ticket of the delivery of id now in flight.
TicketOf(id) == origin[in_flight[id].seq]

----------------------------------------------------------------------------
(* What each step adds to the history.                                     *)

\* The evaluations of the sequence evs were admitted, in that order.
Admitted(evs) ==
  LET new == next_seq .. (next_seq + Len(evs) - 1) IN
  /\ origin' = [s \in DOMAIN origin \cup new |->
                  IF s \in new THEN s ELSE origin[s]]
  /\ admitted' = [t \in Tickets \cup new |->
                    IF t \in new THEN evs[t - next_seq + 1] ELSE admitted[t]]
  /\ handed' = [t \in Tickets \cup new |-> IF t \in new THEN 0 ELSE handed[t]]
  /\ fate' = [t \in Tickets \cup new |-> IF t \in new THEN "live" ELSE fate[t]]

\* The deliveries ids ended; those in the domain of order wait again, under
\* the sequence numbers order gives them, the others were given up.
Returned(ids, order) ==
  LET new == {order[id] : id \in DOMAIN order} IN
  /\ origin' = [s \in DOMAIN origin \cup new |->
                  IF s \in new
                    THEN TicketOf(CHOOSE id \in DOMAIN order : order[id] = s)
                    ELSE origin[s]]
  /\ fate' = [t \in Tickets |->
                IF \E id \in ids \ DOMAIN order : t = TicketOf(id)
                  THEN "dropped" ELSE fate[t]]
  /\ UNCHANGED <<admitted, handed>>

\* pe was delivered; an older delivery of the same id is forgotten.
Given(pe) ==
  /\ handed' = [handed EXCEPT ![origin[pe.seq]] = @ + 1]
  /\ fate' = [t \in Tickets |->
                IF pe.eval \in DOMAIN in_flight /\ t = TicketOf(pe.eval)
                  THEN "replaced" ELSE fate[t]]
  /\ UNCHANGED <<origin, admitted>>

Settled(id) ==
  /\ fate' = [t \in Tickets |->
                IF id \in DOMAIN in_flight /\ t = TicketOf(id)
                  THEN "acked" ELSE fate[t]]
  /\ UNCHANGED <<origin, admitted, handed>>

----------------------------------------------------------------------------
HInit ==
  /\ QueueInit
  /\ origin = [s \in {} |-> 0]
  /\ admitted = [t \in {} |-> {}]
  /\ handed = [t \in {} |-> 0]
  /\ fate = [t \in {} |-> "live"]

HEnqueue(e) == Enqueue(e) /\ Admitted(<<e>>)

HDequeue(pe) == Dequeue(pe) /\ Given(pe)

HAck(id) == Ack(id) /\ Settled(id)

HNack(id) == Nack(id) /\ Returned({id}, [i \in Retriable({id}) |-> next_seq])

HReapExpired ==
  \E order \in Orders(Retriable(Expired(VISIBILITY))) :
     ReapExpired(VISIBILITY, order) /\ Returned(Expired(VISIBILITY), order)

HBlock(e) == Block(e) /\ UNCHANGED historyVars

HUnblockAll == UnblockAll /\ Admitted(blocked)

HTick == Tick /\ UNCHANGED historyVars

HNext ==
  \/ \E e \in Eval : HEnqueue(e) \/ HAck(e) \/ HNack(e) \/ HBlock(e)
  \/ \E pe \in heap : HDequeue(pe)
  \/ HReapExpired
  \/ HUnblockAll
  \/ HTick

HSpec == HInit /\ [][HNext]_vars

----------------------------------------------------------------------------
(* Properties.                                                             *)

\* The queue's fields are of their types, and the history is a function of
\* the sequence numbers handed out and of the tickets among them.
HTypeOK ==
  /\ QueueTypeOK
  /\ Tickets \subseteq 0 .. (next_seq - 1)
  /\ origin \in [0 .. (next_seq - 1) -> Tickets]
  /\ admitted \in [Tickets -> Eval]
  /\ handed \in [Tickets -> Nat]
  /\ fate \in [Tickets -> Fate]

\* The delivery limit of eval_queue.rs: however dequeue, ack, nack and
\* reap_expired interleave, one admission is handed out at most MAX_DEQUEUE
\* times.
DeliveryCap == \A t \in Tickets : handed[t] <= MAX_DEQUEUE

\* The heap entries and the deliveries of ticket t.
OnHeap(t) == {pe \in heap : origin[pe.seq] = t}
Out(t) == {id \in DOMAIN in_flight : TicketOf(id) = t}

\* Nothing leaves the queue unnoticed: a live ticket has exactly one entry,
\* on the heap or in flight; an ended one has none; and nack and reap_expired
\* give a ticket up only after its last permitted delivery.
Conservation ==
  \A t \in Tickets :
    /\ fate[t] = "live" <=> (OnHeap(t) # {} \/ Out(t) # {})
    /\ OnHeap(t) = {} \/ Out(t) = {}
    /\ \A p, q \in OnHeap(t) : p = q
    /\ \A i, j \in Out(t) : i = j
    /\ fate[t] = "dropped" => handed[t] = MAX_DEQUEUE

\* "Equal-priority evals are returned FIFO": an admission is delivered for
\* the first time only after every earlier admission of the same or of a
\* higher priority was.
NoOvertaking ==
  \A t, u \in Tickets :
    /\ t < u
    /\ Priority[admitted[t]] >= Priority[admitted[u]]
    /\ handed[u] > 0
    => handed[t] > 0

============================================================================
