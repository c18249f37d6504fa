-------------------------- MODULE EvalQueueProofs --------------------------
(***************************************************************************)
(* Proofs about the evaluation broker, for every set of evaluations, every *)
(* priority assignment, delivery limit, visibility timeout and bound.      *)
(***************************************************************************)
EXTENDS EvalQueueHistory, BrokerRefinement, Induction, FiniteSetTheorems, TLAPS

\* The deliveries are finitely many and are filed under their own ids.
Filed ==
  /\ IsFiniteSet(DOMAIN in_flight)
  /\ \A id \in DOMAIN in_flight : in_flight[id].eval = id

\* Every entry has a sequence number that was handed out, stands for a live
\* ticket issued for its evaluation and knows how often that was delivered.
Books ==
  /\ \A pe \in heap :
       /\ pe.seq \in 0 .. (next_seq - 1)
       /\ fate[origin[pe.seq]] = "live"
       /\ admitted[origin[pe.seq]] = pe.eval
       /\ handed[origin[pe.seq]] = pe.dequeues
       /\ pe.dequeues < MAX_DEQUEUE
  /\ \A id \in DOMAIN in_flight :
       /\ in_flight[id].seq \in 0 .. (next_seq - 1)
       /\ fate[TicketOf(id)] = "live"
       /\ admitted[TicketOf(id)] = id
       /\ handed[TicketOf(id)] = in_flight[id].dequeues
       /\ in_flight[id].dequeues \in 1 .. MAX_DEQUEUE

\* No two entries stand for the same ticket.
Distinct ==
  /\ \A p, q \in heap : origin[p.seq] = origin[q.seq] => p = q
  /\ \A i, j \in DOMAIN in_flight : TicketOf(i) = TicketOf(j) => i = j
  /\ \A p \in heap : \A i \in DOMAIN in_flight : origin[p.seq] # TicketOf(i)

\* Ticket t has an entry on the heap or in flight.
Located(t) ==
  \/ \E pe \in heap : origin[pe.seq] = t
  \/ \E id \in DOMAIN in_flight : TicketOf(id) = t

\* What a ticket's fate says about it.  One that was never delivered is on
\* the heap under the number it was admitted with.
Fates ==
  \A t \in Tickets :
    /\ handed[t] <= MAX_DEQUEUE
    /\ fate[t] = "live" => Located(t)
    /\ fate[t] = "dropped" => handed[t] = MAX_DEQUEUE
    /\ handed[t] = 0 => \E pe \in heap : pe.seq = t /\ origin[t] = t /\ pe.eval = admitted[t]

HInv == HTypeOK /\ Filed /\ Books /\ Distinct /\ Fates /\ NoOvertaking

----------------------------------------------------------------------------
\* HInv holds of the empty queue of EvalQueue::new.
LEMMA InitHolds == HInit => HInv
  BY QueueAssumption, FS_EmptySet
  DEF HInit, QueueInit, HInv, HTypeOK, QueueTypeOK, Filed, Books, Distinct, Fates,
      NoOvertaking, Tickets, PendingEval, Delivered

\* Nothing but the parked list changed, as in block() and in a stuttering step.
LEMMA ParkedOnlyHolds ==
  ASSUME HInv, blocked' \in Seq(Eval),
         UNCHANGED <<heap, next_seq, in_flight, origin, admitted, handed, fate>>
  PROVE  HInv'
<1>1. HTypeOK'
  BY DEF HInv, HTypeOK, QueueTypeOK, Tickets
<1>2. \A id : TicketOf(id)' = TicketOf(id)
  BY DEF TicketOf
<1>3. \A t : Located(t)' = Located(t)
  BY <1>2 DEF Located
<1>4. Filed' /\ NoOvertaking'
  BY DEF HInv, Filed, NoOvertaking, Tickets
<1>5. Books'
  BY <1>2 DEF HInv, Books
<1>6. Distinct'
  BY <1>2 DEF HInv, Distinct
<1>7. Fates'
  BY <1>3 DEF HInv, Fates, Tickets
<1> QED BY <1>1, <1>4, <1>5, <1>6, <1>7 DEF HInv

\* The passing of time.
LEMMA TickHolds == ASSUME HInv, HTick PROVE HInv'
<1>1. /\ DOMAIN in_flight' = DOMAIN in_flight
      /\ in_flight' \in [DOMAIN in_flight -> Delivered]
      /\ \A id \in DOMAIN in_flight :
           /\ in_flight'[id].seq = in_flight[id].seq
           /\ in_flight'[id].eval = in_flight[id].eval
           /\ in_flight'[id].dequeues = in_flight[id].dequeues
  <2>1. in_flight' = [id \in DOMAIN in_flight |->
                        IF in_flight[id].age < VISIBILITY
                          THEN [in_flight[id] EXCEPT !.age = @ + 1]
                          ELSE in_flight[id]]
    BY DEF HTick, Tick
  <2>2. ASSUME NEW id \in DOMAIN in_flight
        PROVE  /\ in_flight'[id] \in Delivered
               /\ in_flight'[id].seq = in_flight[id].seq
               /\ in_flight'[id].eval = in_flight[id].eval
               /\ in_flight'[id].dequeues = in_flight[id].dequeues
    <3>1. in_flight[id] \in Delivered
      BY DEF HInv, HTypeOK, QueueTypeOK
    <3> QED BY <2>1, <3>1, QueueAssumption DEF Delivered
  <2> QED BY <2>1, <2>2
<1>2. UNCHANGED <<heap, next_seq, blocked, origin, admitted, handed, fate>>
  BY DEF HTick, Tick, historyVars
<1>3. \A id \in DOMAIN in_flight : TicketOf(id)' = TicketOf(id)
  BY <1>1, <1>2 DEF TicketOf
<1>4. HTypeOK'
  BY <1>1, <1>2 DEF HInv, HTypeOK, QueueTypeOK, Tickets
<1>5. Filed'
  BY <1>1 DEF HInv, Filed
<1>6. Books'
  BY <1>1, <1>2, <1>3 DEF HInv, Books
<1>7. Distinct'
  BY <1>1, <1>2, <1>3 DEF HInv, Distinct
<1>8. \A t : Located(t)' = Located(t)
  BY <1>1, <1>2, <1>3 DEF Located
<1>9. Fates' /\ NoOvertaking'
  BY <1>2, <1>8 DEF HInv, Fates, NoOvertaking, Tickets
<1> QED BY <1>4, <1>5, <1>6, <1>7, <1>9 DEF HInv

----------------------------------------------------------------------------
\* What HInv says of the tickets the entries stand for.
LEMMA EntryTickets ==
  ASSUME HInv
  PROVE  /\ next_seq \in Nat
         /\ \A t \in Tickets : t \in Nat /\ t < next_seq
         /\ DOMAIN origin = 0 .. (next_seq - 1)
         /\ \A pe \in heap : pe \in PendingEval /\ pe.seq \in DOMAIN origin /\ origin[pe.seq] \in Tickets
         /\ \A id \in DOMAIN in_flight :
              /\ id \in Eval
              /\ in_flight[id] \in Delivered
              /\ in_flight[id].seq \in DOMAIN origin
              /\ TicketOf(id) \in Tickets
  BY DEF HInv, HTypeOK, QueueTypeOK, Books, TicketOf

\* enqueue() and unblock_all(): the evaluations evs are admitted, each under
\* a sequence number, and so a ticket, that was never used before.
LEMMA AdmitHolds ==
  ASSUME HInv, NEW evs \in Seq(Eval),
         heap' = heap \cup {Fresh(next_seq + i - 1, evs[i]) : i \in 1 .. Len(evs)},
         next_seq' = next_seq + Len(evs),
         in_flight' = in_flight,
         blocked' \in Seq(Eval),
         Admitted(evs)
  PROVE  HInv'
<1> DEFINE new == next_seq .. (next_seq + Len(evs) - 1)
<1>1. next_seq \in Nat /\ Len(evs) \in Nat /\ \A t \in Tickets : t \in Nat /\ t < next_seq
  BY EntryTickets
<1>2. /\ Tickets' = Tickets \cup new
      /\ DOMAIN origin' = DOMAIN origin \cup new
      /\ \A t \in Tickets : /\ admitted'[t] = admitted[t]
                            /\ handed'[t] = handed[t]
                            /\ fate'[t] = fate[t]
      /\ \A s \in DOMAIN origin : s \notin new /\ origin'[s] = origin[s]
  BY <1>1, EntryTickets DEF Admitted, Tickets
<1>3. \A t \in new : /\ origin'[t] = t
                     /\ t \notin Tickets
                     /\ admitted'[t] = evs[t - next_seq + 1]
                     /\ admitted'[t] \in Eval
                     /\ handed'[t] = 0
                     /\ fate'[t] = "live"
  BY <1>1 DEF Admitted, Tickets
<1>4. \A t \in new : Fresh(t, admitted'[t]) \in heap'
  <2> SUFFICES ASSUME NEW t \in new PROVE Fresh(t, admitted'[t]) \in heap'
    OBVIOUS
  <2>1. t - next_seq + 1 \in 1 .. Len(evs) /\ next_seq + (t - next_seq + 1) - 1 = t
    BY <1>1
  <2> QED BY <2>1, <1>3
<1>5. \A pe \in heap' : pe \in heap \/ \E t \in new : pe = Fresh(t, admitted'[t])
  <2> SUFFICES ASSUME NEW i \in 1 .. Len(evs)
               PROVE  \E t \in new : Fresh(next_seq + i - 1, evs[i]) = Fresh(t, admitted'[t])
    OBVIOUS
  <2>1. next_seq + i - 1 \in new /\ (next_seq + i - 1) - next_seq + 1 = i
    BY <1>1
  <2> QED BY <2>1, <1>3
<1>6. /\ \A pe \in heap : origin'[pe.seq] = origin[pe.seq] /\ pe.seq \notin new
      /\ \A id \in DOMAIN in_flight : TicketOf(id)' = TicketOf(id)
  BY <1>2, EntryTickets DEF TicketOf
<1>7. HTypeOK'
  <2>1. QueueTypeOK'
    <3>1. \A t \in new : Fresh(t, admitted'[t]) \in PendingEval
      BY <1>1, <1>3 DEF PendingEval, Fresh
    <3>2. heap' \subseteq PendingEval
      BY <3>1, <1>5 DEF HInv, HTypeOK, QueueTypeOK
    <3> QED BY <3>2, <1>1 DEF HInv, HTypeOK, QueueTypeOK
  <2>2. DOMAIN origin' = 0 .. (next_seq' - 1) /\ Tickets' \subseteq 0 .. (next_seq' - 1)
    BY <1>1, <1>2, EntryTickets
  <2>3. \A s \in DOMAIN origin' : origin'[s] \in Tickets'
    BY <1>2, <1>3 DEF HInv, HTypeOK
  <2>4. /\ origin' \in [0 .. (next_seq' - 1) -> Tickets']
        /\ admitted' \in [Tickets' -> Eval]
        /\ handed' \in [Tickets' -> Nat]
        /\ fate' \in [Tickets' -> Fate]
    BY <1>2, <1>3, <2>2, <2>3 DEF HInv, HTypeOK, Admitted, Tickets, Fate
  <2> QED BY <2>1, <2>2, <2>4 DEF HTypeOK
<1>8. Filed'
  BY DEF HInv, Filed
<1>9. Books'
  <2>1. ASSUME NEW pe \in heap'
        PROVE  /\ pe.seq \in 0 .. (next_seq' - 1)
               /\ fate'[origin'[pe.seq]] = "live"
               /\ admitted'[origin'[pe.seq]] = pe.eval
               /\ handed'[origin'[pe.seq]] = pe.dequeues
               /\ pe.dequeues < MAX_DEQUEUE
    <3>1. CASE pe \in heap
      BY <3>1, <1>1, <1>2, <1>6, EntryTickets DEF HInv, Books
    <3>2. CASE \E t \in new : pe = Fresh(t, admitted'[t])
      <4>1. PICK t \in new : pe = Fresh(t, admitted'[t])
        BY <3>2
      <4>2. pe.seq = t /\ pe.eval = admitted'[t] /\ pe.dequeues = 0
        BY <4>1 DEF Fresh
      <4>3. t \in 0 .. (next_seq' - 1)
        BY <1>1
      <4>4. 0 < MAX_DEQUEUE
        BY QueueAssumption
      <4>5. /\ origin'[t] = t
            /\ fate'[t] = "live"
            /\ handed'[t] = 0
        BY <1>3
      <4> QED BY ONLY <4>2, <4>3, <4>4, <4>5
    <3> QED BY <3>1, <3>2, <1>5
  <2>2. ASSUME NEW id \in DOMAIN in_flight
        PROVE  /\ in_flight[id].seq \in 0 .. (next_seq' - 1)
               /\ fate'[TicketOf(id)] = "live"
               /\ admitted'[TicketOf(id)] = id
               /\ handed'[TicketOf(id)] = in_flight[id].dequeues
               /\ in_flight[id].dequeues \in 1 .. MAX_DEQUEUE
    <3>1. in_flight[id].seq \in 0 .. (next_seq' - 1)
      BY <1>1, EntryTickets
    <3> QED BY <3>1, <1>2, EntryTickets DEF HInv, Books
  <2> QED BY <2>1, <2>2, <1>6 DEF Books
<1>10. Distinct'
  <2>1. \A p, q \in heap' : origin'[p.seq] = origin'[q.seq] => p = q
    <3> SUFFICES ASSUME NEW p \in heap', NEW q \in heap', origin'[p.seq] = origin'[q.seq]
                 PROVE  p = q
      OBVIOUS
    <3>1. CASE p \in heap /\ q \in heap
      BY <3>1, <1>6 DEF HInv, Distinct
    <3>2. \A r \in heap' : r \in heap => origin'[r.seq] \notin new
      BY <1>3, <1>6, EntryTickets
    <3>3. \A r \in heap' : r \notin heap => r.seq \in new /\ r = Fresh(r.seq, admitted'[r.seq])
      BY <1>5 DEF Fresh
    <3> QED BY <1>3, <3>1, <3>2, <3>3
  <2>2. \A i, j \in DOMAIN in_flight : TicketOf(i)' = TicketOf(j)' => i = j
    BY <1>6 DEF HInv, Distinct
  <2>3. \A p \in heap' : \A i \in DOMAIN in_flight : origin'[p.seq] # TicketOf(i)
    BY <1>3, <1>5, <1>6, EntryTickets, SMTT(30) DEF HInv, Distinct, Fresh
  <2> QED BY <2>1, <2>2, <2>3, <1>6 DEF Distinct
<1>11. Fates'
  <2>1. ASSUME NEW t \in Tickets
        PROVE  /\ handed'[t] <= MAX_DEQUEUE
               /\ fate'[t] = "live" => Located(t)'
               /\ fate'[t] = "dropped" => handed'[t] = MAX_DEQUEUE
               /\ handed'[t] = 0 =>
                    \E pe \in heap' : pe.seq = t /\ origin'[t] = t /\ pe.eval = admitted'[t]
    BY <1>2, <1>6 DEF HInv, Fates, Located
  <2>2. ASSUME NEW t \in new
        PROVE  /\ handed'[t] <= MAX_DEQUEUE
               /\ fate'[t] # "dropped"
               /\ Located(t)'
               /\ \E pe \in heap' : pe.seq = t /\ origin'[t] = t /\ pe.eval = admitted'[t]
    <3>1. /\ Fresh(t, admitted'[t]) \in heap'
          /\ Fresh(t, admitted'[t]).seq = t
          /\ Fresh(t, admitted'[t]).eval = admitted'[t]
      BY <1>4 DEF Fresh
    <3>2. handed'[t] <= MAX_DEQUEUE /\ fate'[t] # "dropped" /\ origin'[t] = t
      BY <1>3, QueueAssumption
    <3> QED BY <3>1, <3>2 DEF Located
  <2> QED BY <2>1, <2>2, <1>2 DEF Fates
<1>12. NoOvertaking'
  <2> SUFFICES ASSUME NEW t \in Tickets', NEW u \in Tickets', t < u,
                      Priority[admitted'[t]] >= Priority[admitted'[u]], handed'[u] > 0
               PROVE  handed'[t] > 0
    BY DEF NoOvertaking
  <2>1. u \in Tickets
    BY <1>2, <1>3
  <2>2. t \in Tickets
    BY <1>1, <1>2, <2>1
  <2> QED BY <1>2, <2>1, <2>2 DEF HInv, NoOvertaking
<1> QED BY <1>7, <1>8, <1>9, <1>10, <1>11, <1>12 DEF HInv

----------------------------------------------------------------------------
\* ack(): the delivery of id a, if there is one, and its ticket end.
LEMMA AckHolds == ASSUME HInv, NEW a \in Eval, HAck(a) PROVE HInv'
<1>1. UNCHANGED <<heap, next_seq, blocked, origin, admitted, handed>>
  BY DEF HAck, Ack, Settled
<1>2. /\ DOMAIN in_flight' = DOMAIN in_flight \ {a}
      /\ in_flight' = [id \in DOMAIN in_flight \ {a} |-> in_flight[id]]
      /\ \A id \in DOMAIN in_flight \ {a} : in_flight'[id] = in_flight[id]
  BY DEF HAck, Ack, Without
<1>3. \A id \in DOMAIN in_flight' : TicketOf(id)' = TicketOf(id)
  BY <1>1, <1>2 DEF TicketOf
<1>4. /\ Tickets' = Tickets
      /\ \A t \in Tickets :
           fate'[t] = IF a \in DOMAIN in_flight /\ t = TicketOf(a) THEN "acked" ELSE fate[t]
  BY DEF HAck, Settled, Tickets
<1>5. HTypeOK'
  <2>1. QueueTypeOK'
    BY <1>1, <1>2 DEF HInv, HTypeOK, QueueTypeOK
  <2>2. fate' \in [Tickets -> Fate]
    BY <1>4 DEF HInv, HTypeOK, HAck, Settled, Fate
  <2> QED BY <1>1, <1>4, <2>1, <2>2 DEF HInv, HTypeOK
<1>6. Filed'
  <2>1. IsFiniteSet(DOMAIN in_flight')
    BY <1>2, FS_Subset DEF HInv, Filed
  <2> QED BY <1>2, <2>1 DEF HInv, Filed
<1>7. Books'
  <2>1. \A pe \in heap : fate'[origin[pe.seq]] = "live"
    BY <1>4, EntryTickets DEF HInv, Books, Distinct
  <2>2. \A id \in DOMAIN in_flight' : fate'[TicketOf(id)] = "live"
    BY <1>2, <1>4, EntryTickets DEF HInv, Books, Distinct
  <2> QED BY <1>1, <1>2, <1>3, <2>1, <2>2 DEF HInv, Books
<1>8. Distinct'
  BY <1>1, <1>2, <1>3 DEF HInv, Distinct
<1>9. Fates'
  <2>1. ASSUME NEW t \in Tickets, fate'[t] = "live" PROVE Located(t)'
    <3>1. Located(t) /\ ~(a \in DOMAIN in_flight /\ t = TicketOf(a))
      BY <1>4, <2>1 DEF HInv, Fates
    <3> QED BY <1>1, <1>2, <1>3, <3>1 DEF Located
  <2>2. \A t \in Tickets : fate'[t] = "dropped" => fate[t] = "dropped"
    BY <1>4
  <2> QED BY <1>1, <1>4, <2>1, <2>2 DEF HInv, Fates
<1>10. NoOvertaking'
  BY <1>1, <1>4 DEF HInv, NoOvertaking
<1> QED BY <1>5, <1>6, <1>7, <1>8, <1>9, <1>10 DEF HInv

\* dequeue(): the best entry of the heap moves to the deliveries, where it
\* may take the place of an older delivery of the same id.
LEMMA DequeueHolds == ASSUME HInv, NEW pe \in heap, HDequeue(pe) PROVE HInv'
<1> DEFINE u == origin[pe.seq]
<1> DEFINE e == pe.eval
<1> DEFINE given == [seq |-> pe.seq, eval |-> pe.eval, dequeues |-> pe.dequeues + 1, age |-> 0]
<1>1. /\ heap' = heap \ {pe}
      /\ UNCHANGED <<next_seq, blocked, origin, admitted>>
  BY DEF HDequeue, Dequeue, Given
<1>2. /\ in_flight' = [id \in DOMAIN in_flight \cup {e} |-> IF id = e THEN given ELSE in_flight[id]]
      /\ DOMAIN in_flight' = DOMAIN in_flight \cup {e}
      /\ in_flight'[e] = given
      /\ \A id \in DOMAIN in_flight \ {e} : in_flight'[id] = in_flight[id]
  BY DEF HDequeue, Dequeue
<1>3. /\ pe \in PendingEval /\ u \in Tickets
      /\ handed[u] = pe.dequeues /\ pe.dequeues \in Nat /\ pe.dequeues < MAX_DEQUEUE
      /\ admitted[u] = e /\ fate[u] = "live" /\ e \in Eval
      /\ pe.seq \in 0 .. (next_seq - 1)
  BY EntryTickets DEF HInv, Books, PendingEval
<1>4. TicketOf(e)' = u /\ \A id \in DOMAIN in_flight \ {e} : TicketOf(id)' = TicketOf(id)
  BY <1>1, <1>2 DEF TicketOf
<1>5. /\ handed' = [handed EXCEPT ![u] = @ + 1]
      /\ handed'[u] = pe.dequeues + 1
      /\ \A t \in Tickets \ {u} : handed'[t] = handed[t]
  BY <1>3 DEF HInv, HTypeOK, HDequeue, Given
<1>6. /\ Tickets' = Tickets
      /\ \A t \in Tickets :
           fate'[t] = IF e \in DOMAIN in_flight /\ t = TicketOf(e) THEN "replaced" ELSE fate[t]
  BY DEF HDequeue, Given, Tickets
<1>7. /\ \A q \in heap \ {pe} : origin[q.seq] # u
      /\ \A id \in DOMAIN in_flight : TicketOf(id) # u
  BY DEF HInv, Distinct
<1>8. HTypeOK'
  <2>1. given \in Delivered
    BY <1>3, QueueAssumption DEF Delivered, PendingEval
  <2>2. in_flight' \in [DOMAIN in_flight' -> Delivered]
    BY <1>2, <2>1 DEF HInv, HTypeOK, QueueTypeOK
  <2>3. QueueTypeOK'
    BY <1>1, <1>2, <1>3, <2>2 DEF HInv, HTypeOK, QueueTypeOK
  <2>4. handed' \in [Tickets -> Nat]
    BY <1>3, <1>5 DEF HInv, HTypeOK
  <2>5. fate' \in [Tickets -> Fate]
    BY <1>6 DEF HInv, HTypeOK, HDequeue, Given, Fate
  <2> QED BY <1>1, <1>6, <2>3, <2>4, <2>5 DEF HInv, HTypeOK
<1>9. Filed'
  <2>1. IsFiniteSet(DOMAIN in_flight')
    BY <1>2, FS_AddElement DEF HInv, Filed
  <2> QED BY <1>2, <2>1 DEF HInv, Filed
<1>10. Books'
  <2>1. ASSUME NEW q \in heap \ {pe}
        PROVE  /\ fate'[origin[q.seq]] = "live"
               /\ handed'[origin[q.seq]] = handed[origin[q.seq]]
    BY <1>5, <1>6, <1>7, EntryTickets DEF HInv, Books, Distinct
  <2>2. ASSUME NEW id \in DOMAIN in_flight \ {e}
        PROVE  /\ fate'[TicketOf(id)] = "live"
               /\ handed'[TicketOf(id)] = handed[TicketOf(id)]
    BY <1>5, <1>6, <1>7, EntryTickets DEF HInv, Books, Distinct
  <2>3. /\ fate'[u] = "live" /\ admitted[u] = e
        /\ handed'[u] = given.dequeues /\ given.seq \in 0 .. (next_seq - 1)
        /\ given.dequeues \in 1 .. MAX_DEQUEUE
    BY <1>3, <1>5, <1>6, <1>7, QueueAssumption
  <2>4. ASSUME NEW q \in heap'
        PROVE  /\ q.seq \in 0 .. (next_seq' - 1)
               /\ fate'[origin'[q.seq]] = "live"
               /\ admitted'[origin'[q.seq]] = q.eval
               /\ handed'[origin'[q.seq]] = q.dequeues
               /\ q.dequeues < MAX_DEQUEUE
    BY <1>1, <2>1 DEF HInv, Books
  <2>5. ASSUME NEW id \in DOMAIN in_flight'
        PROVE  /\ in_flight'[id].seq \in 0 .. (next_seq' - 1)
               /\ fate'[TicketOf(id)'] = "live"
               /\ admitted'[TicketOf(id)'] = id
               /\ handed'[TicketOf(id)'] = in_flight'[id].dequeues
               /\ in_flight'[id].dequeues \in 1 .. MAX_DEQUEUE
    <3>1. CASE id = e
      BY <3>1, <1>1, <1>2, <1>4, <2>3
    <3>2. CASE id # e
      BY <3>2, <1>1, <1>2, <1>4, <2>2 DEF HInv, Books
    <3> QED BY <3>1, <3>2
  <2> QED BY <2>4, <2>5 DEF Books
<1>11. Distinct'
  <2>1. \A p, q \in heap' : origin'[p.seq] = origin'[q.seq] => p = q
    BY <1>1 DEF HInv, Distinct
  <2>2. \A i, j \in DOMAIN in_flight' : TicketOf(i)' = TicketOf(j)' => i = j
    BY <1>2, <1>4, <1>7 DEF HInv, Distinct
  <2>3. \A p \in heap' : \A i \in DOMAIN in_flight' : origin'[p.seq] # TicketOf(i)'
    BY <1>1, <1>2, <1>4, <1>7 DEF HInv, Distinct
  <2> QED BY <2>1, <2>2, <2>3 DEF Distinct
<1>12. Fates'
  <2> SUFFICES ASSUME NEW t \in Tickets
               PROVE  /\ handed'[t] <= MAX_DEQUEUE
                      /\ fate'[t] = "live" => Located(t)'
                      /\ fate'[t] = "dropped" => handed'[t] = MAX_DEQUEUE
                      /\ handed'[t] = 0 => \E q \in heap' :
                           q.seq = t /\ origin'[t] = t /\ q.eval = admitted'[t]
    BY <1>6 DEF Fates
  <2>1. CASE t = u
    <3>1. Located(t)'
      BY <2>1, <1>2, <1>4 DEF Located
    <3>2. fate'[t] = "live"
      BY <2>1, <1>3, <1>6, <1>7
    <3> QED BY <2>1, <1>3, <1>5, <3>1, <3>2, QueueAssumption
  <2>2. CASE t # u
    <3>1. handed'[t] = handed[t]
      BY <2>2, <1>5
    <3>2. ASSUME fate'[t] = "live" PROVE Located(t)'
      <4>1. fate[t] = "live" /\ ~(e \in DOMAIN in_flight /\ t = TicketOf(e))
        BY <3>2, <1>6
      <4>2. Located(t)
        BY <4>1 DEF HInv, Fates
      <4>3. CASE \E q \in heap : origin[q.seq] = t
        BY <4>3, <2>2, <1>1 DEF Located
      <4>4. CASE \E id \in DOMAIN in_flight : TicketOf(id) = t
        BY <4>4, <4>1, <1>2, <1>4 DEF Located
      <4> QED BY <4>2, <4>3, <4>4 DEF Located
    <3>3. fate'[t] = "dropped" => fate[t] = "dropped"
      BY <1>6
    <3>4. ASSUME handed[t] = 0
          PROVE  \E q \in heap' : q.seq = t /\ origin'[t] = t /\ q.eval = admitted'[t]
      BY <3>4, <2>2, <1>1 DEF HInv, Fates
    <3> QED BY <3>1, <3>2, <3>3, <3>4 DEF HInv, Fates
  <2> QED BY <2>1, <2>2
<1>13. NoOvertaking'
  <2> SUFFICES ASSUME NEW t \in Tickets, NEW v \in Tickets, t < v,
                      Priority[admitted[t]] >= Priority[admitted[v]], handed'[v] > 0,
                      handed'[t] = 0
               PROVE  FALSE
    <3>1. \A t \in Tickets : handed'[t] \in Nat
      BY <1>8, <1>6 DEF HTypeOK
    <3> QED BY <3>1, <1>1, <1>6 DEF NoOvertaking
  <2>1. t # u /\ handed[t] = 0
    BY <1>3, <1>5
  <2>2. v = u /\ handed[u] = 0
    BY <2>1, <1>3, <1>5 DEF HInv, HTypeOK, NoOvertaking
  <2>3. pe.seq = u
    BY <2>2, <1>3 DEF HInv, Fates, Distinct
  <2>4. PICK q \in heap : q.seq = t /\ origin[t] = t /\ q.eval = admitted[t]
    BY <2>1 DEF HInv, Fates
  <2>5. Before(pe, q)
    BY <2>1, <2>4 DEF HDequeue, Dequeue
  <2>6. Priority[pe.eval] \in Int /\ Priority[q.eval] \in Int /\ t \in Nat /\ u \in Nat
    BY <1>3, <2>4, EntryTickets, QueueAssumption DEF PendingEval
  <2> QED BY <2>2, <2>3, <2>4, <2>5, <2>6, <1>3 DEF Before
<1> QED BY <1>8, <1>9, <1>10, <1>11, <1>12, <1>13 DEF HInv

----------------------------------------------------------------------------
\* nack() and reap_expired(): the deliveries ids end, and those that may be
\* delivered again return to the heap under k fresh sequence numbers.
LEMMA ReturnHolds ==
  ASSUME HInv, NEW ids \in SUBSET DOMAIN in_flight, NEW k \in Nat,
         NEW order \in Bijection(Retriable(ids), next_seq .. (next_seq + k - 1)),
         heap' = heap \cup {Requeued(in_flight[id], order[id]) : id \in Retriable(ids)},
         next_seq' = next_seq + k,
         in_flight' = Without(ids),
         blocked' = blocked,
         Returned(ids, order)
  PROVE  HInv'
<1> DEFINE back == Retriable(ids)
<1> DEFINE new == next_seq .. (next_seq + k - 1)
<1>1. next_seq \in Nat /\ back \subseteq ids /\ \A id \in back : in_flight[id].dequeues < MAX_DEQUEUE
  BY EntryTickets DEF Retriable
<1>2. /\ order \in [back -> new]
      /\ \A i, j \in back : order[i] = order[j] => i = j
      /\ \A s \in new : \E i \in back : order[i] = s
  BY DEF Bijection, Injection, Surjection, IsInjective
<1>3. UNCHANGED <<admitted, handed>> /\ Tickets' = Tickets
  BY DEF Returned, Tickets
<1>4. /\ DOMAIN origin' = DOMAIN origin \cup new
      /\ \A s \in DOMAIN origin : s \notin new /\ origin'[s] = origin[s]
      /\ \A id \in back : origin'[order[id]] = TicketOf(id)
  <2>1. {order[id] : id \in DOMAIN order} = new
    BY <1>2
  <2>2. origin' = [s \in DOMAIN origin \cup new |->
                     IF s \in new
                       THEN TicketOf(CHOOSE id \in DOMAIN order : order[id] = s)
                       ELSE origin[s]]
    BY <2>1 DEF Returned
  <2>3. \A s \in DOMAIN origin : s \notin new
    BY <1>1, EntryTickets
  <2>4. ASSUME NEW id \in back PROVE origin'[order[id]] = TicketOf(id)
    <3>1. (CHOOSE i \in DOMAIN order : order[i] = order[id]) = id
      BY <1>2
    <3>2. order[id] \in new
      BY <1>2
    <3> QED BY <2>2, <3>1, <3>2
  <2> QED BY <2>2, <2>3, <2>4
<1>5. \A t \in Tickets :
        fate'[t] = IF \E id \in ids \ back : t = TicketOf(id) THEN "dropped" ELSE fate[t]
  BY <1>2 DEF Returned
<1>6. /\ DOMAIN in_flight' = DOMAIN in_flight \ ids
      /\ in_flight' = [id \in DOMAIN in_flight \ ids |-> in_flight[id]]
      /\ \A id \in DOMAIN in_flight \ ids : in_flight'[id] = in_flight[id]
  BY DEF Without
<1>7. /\ \A pe \in heap : origin'[pe.seq] = origin[pe.seq]
      /\ \A id \in DOMAIN in_flight' : TicketOf(id)' = TicketOf(id)
  BY <1>4, <1>6, EntryTickets DEF TicketOf
<1>8. ASSUME NEW id \in back
      PROVE  LET pe == Requeued(in_flight[id], order[id])
             IN  /\ pe \in heap' /\ pe.seq = order[id] /\ pe.seq \in new
                 /\ pe.eval = id /\ pe.dequeues = in_flight[id].dequeues
                 /\ pe \in PendingEval /\ origin'[pe.seq] = TicketOf(id)
  <2>1. in_flight[id] \in Delivered /\ in_flight[id].eval = id /\ id \in Eval
    BY <1>1, EntryTickets DEF HInv, Filed
  <2>2. order[id] \in new /\ order[id] \in Nat
    BY <1>1, <1>2
  <2> QED BY <1>4, <2>1, <2>2 DEF Requeued, Delivered, PendingEval
<1>9. \A pe \in heap' : pe \in heap \/ \E id \in back : pe = Requeued(in_flight[id], order[id])
  OBVIOUS
<1>10. /\ \A pe \in heap : fate'[origin[pe.seq]] = "live"
       /\ \A id \in DOMAIN in_flight : id \notin ids \/ id \in back => fate'[TicketOf(id)] = "live"
  BY <1>5, EntryTickets DEF HInv, Books, Distinct
<1>11. HTypeOK'
  <2>1. heap' \subseteq PendingEval
    BY <1>8, <1>9, EntryTickets
  <2>2. QueueTypeOK'
    BY <1>1, <1>6, <2>1 DEF HInv, HTypeOK, QueueTypeOK
  <2>3. DOMAIN origin' = 0 .. (next_seq' - 1)
    BY <1>1, <1>4, EntryTickets
  <2>4. \A s \in DOMAIN origin' : origin'[s] \in Tickets
    <3>1. \A s \in new : origin'[s] \in Tickets
      BY <1>1, <1>2, <1>4, EntryTickets
    <3> QED BY <3>1, <1>4 DEF HInv, HTypeOK
  <2>5. origin' \in [0 .. (next_seq' - 1) -> Tickets]
    BY <2>3, <2>4 DEF Returned
  <2>6. fate' \in [Tickets -> Fate]
    BY <1>5 DEF HInv, HTypeOK, Returned, Fate
  <2>7. Tickets \subseteq 0 .. (next_seq' - 1)
    BY <1>1, EntryTickets
  <2> QED BY <1>3, <2>2, <2>5, <2>6, <2>7 DEF HInv, HTypeOK
<1>12. Filed'
  <2>1. IsFiniteSet(DOMAIN in_flight')
    BY <1>6, FS_Subset DEF HInv, Filed
  <2> QED BY <1>6, <2>1 DEF HInv, Filed
<1>13. Books'
  <2>1. ASSUME NEW pe \in heap'
        PROVE  /\ pe.seq \in 0 .. (next_seq' - 1)
               /\ fate'[origin'[pe.seq]] = "live"
               /\ admitted'[origin'[pe.seq]] = pe.eval
               /\ handed'[origin'[pe.seq]] = pe.dequeues
               /\ pe.dequeues < MAX_DEQUEUE
    <3>1. CASE pe \in heap
      <4>1. pe.seq \in 0 .. (next_seq' - 1)
        BY <3>1, <1>1, EntryTickets
      <4> QED BY <3>1, <4>1, <1>3, <1>7, <1>10 DEF HInv, Books
    <3>2. CASE \E id \in back : pe = Requeued(in_flight[id], order[id])
      <4>1. PICK id \in back : pe = Requeued(in_flight[id], order[id])
        BY <3>2
      <4>2. /\ pe.seq \in new /\ pe.eval = id /\ pe.dequeues = in_flight[id].dequeues
            /\ origin'[pe.seq] = TicketOf(id)
        BY <4>1, <1>8
      <4>3. id \in DOMAIN in_flight /\ fate'[TicketOf(id)] = "live"
        BY <1>1, <1>10
      <4>4. pe.seq \in 0 .. (next_seq' - 1)
        BY <4>2, <1>1
      <4> QED BY <4>2, <4>3, <4>4, <1>1, <1>3 DEF HInv, Books
    <3> QED BY <3>1, <3>2, <1>9
  <2>2. ASSUME NEW id \in DOMAIN in_flight'
        PROVE  /\ in_flight'[id].seq \in 0 .. (next_seq' - 1)
               /\ fate'[TicketOf(id)'] = "live"
               /\ admitted'[TicketOf(id)'] = id
               /\ handed'[TicketOf(id)'] = in_flight'[id].dequeues
               /\ in_flight'[id].dequeues \in 1 .. MAX_DEQUEUE
    <3>1. in_flight'[id].seq \in 0 .. (next_seq' - 1)
      BY <1>1, <1>6, EntryTickets
    <3> QED BY <3>1, <1>3, <1>6, <1>7, <1>10 DEF HInv, Books
  <2> QED BY <2>1, <2>2 DEF Books
<1>14. Distinct'
  <2>1. ASSUME NEW p \in heap', NEW q \in heap', origin'[p.seq] = origin'[q.seq]
        PROVE  p = q
    <3>1. CASE p \in heap /\ q \in heap
      BY <2>1, <3>1, <1>7 DEF HInv, Distinct
    <3>2. CASE p \notin heap /\ q \notin heap
      <4>1. PICK i \in back : p = Requeued(in_flight[i], order[i])
        BY <3>2, <1>9
      <4>2. PICK j \in back : q = Requeued(in_flight[j], order[j])
        BY <3>2, <1>9
      <4>3. TicketOf(i) = TicketOf(j)
        BY <2>1, <4>1, <4>2, <1>8
      <4> QED BY <4>1, <4>2, <4>3, <1>1 DEF HInv, Distinct
    <3>3. \A r \in heap' \ heap : \E i \in DOMAIN in_flight : origin'[r.seq] = TicketOf(i)
      BY <1>1, <1>8, <1>9
    <3>4. \A r \in heap : \A i \in DOMAIN in_flight : origin'[r.seq] # TicketOf(i)
      BY <1>7 DEF HInv, Distinct
    <3> QED BY <2>1, <3>1, <3>2, <3>3, <3>4
  <2>2. \A i, j \in DOMAIN in_flight' : TicketOf(i)' = TicketOf(j)' => i = j
    BY <1>6, <1>7 DEF HInv, Distinct
  <2>3. ASSUME NEW p \in heap', NEW i \in DOMAIN in_flight'
        PROVE  origin'[p.seq] # TicketOf(i)'
    <3>1. CASE p \in heap
      BY <3>1, <1>6, <1>7 DEF HInv, Distinct
    <3>2. CASE \E j \in back : p = Requeued(in_flight[j], order[j])
      BY <3>2, <1>1, <1>6, <1>7, <1>8 DEF HInv, Distinct
    <3> QED BY <3>1, <3>2, <1>9
  <2> QED BY <2>1, <2>2, <2>3 DEF Distinct
<1>15. Fates'
  <2> SUFFICES ASSUME NEW t \in Tickets
               PROVE  /\ handed'[t] <= MAX_DEQUEUE
                      /\ fate'[t] = "live" => Located(t)'
                      /\ fate'[t] = "dropped" => handed'[t] = MAX_DEQUEUE
                      /\ handed'[t] = 0 => \E q \in heap' :
                           q.seq = t /\ origin'[t] = t /\ q.eval = admitted'[t]
    BY <1>3 DEF Fates
  <2>1. ASSUME fate'[t] = "live" PROVE Located(t)'
    <3>1. fate[t] = "live" /\ ~\E id \in ids \ back : t = TicketOf(id)
      BY <2>1, <1>5
    <3>2. CASE \E q \in heap : origin[q.seq] = t
      BY <3>2, <1>7 DEF Located
    <3>3. CASE \E id \in DOMAIN in_flight : TicketOf(id) = t
      <4>1. PICK id \in DOMAIN in_flight : TicketOf(id) = t
        BY <3>3
      <4>2. CASE id \in back
        BY <4>1, <4>2, <1>8 DEF Located
      <4>3. CASE id \notin ids
        BY <4>1, <4>3, <1>6, <1>7 DEF Located
      <4> QED BY <3>1, <4>1, <4>2, <4>3
    <3> QED BY <3>1, <3>2, <3>3 DEF HInv, Fates, Located
  <2>2. ASSUME fate'[t] = "dropped" PROVE handed[t] = MAX_DEQUEUE
    <3>1. CASE fate[t] = "dropped"
      BY <3>1 DEF HInv, Fates
    <3>2. CASE \E id \in ids \ back : t = TicketOf(id)
      <4>1. PICK id \in ids \ back : t = TicketOf(id)
        BY <3>2
      <4>2. in_flight[id].dequeues \in 1 .. MAX_DEQUEUE /\ handed[t] = in_flight[id].dequeues
        BY <4>1 DEF HInv, Books
      <4>3. ~(in_flight[id].dequeues < MAX_DEQUEUE)
        BY <4>1 DEF Retriable
      <4> QED BY <4>2, <4>3, QueueAssumption
    <3> QED BY <2>2, <3>1, <3>2, <1>5
  <2>3. ASSUME handed[t] = 0
        PROVE  \E q \in heap' : q.seq = t /\ origin'[t] = t /\ q.eval = admitted'[t]
    <3>1. PICK q \in heap : q.seq = t /\ origin[t] = t /\ q.eval = admitted[t]
      BY <2>3 DEF HInv, Fates
    <3> QED BY <3>1, <1>3, <1>7
  <2> QED BY <1>3, <2>1, <2>2, <2>3 DEF HInv, Fates
<1>16. NoOvertaking'
  BY <1>3 DEF HInv, NoOvertaking
<1> QED BY <1>11, <1>12, <1>13, <1>14, <1>15, <1>16 DEF HInv

\* nack() of a delivery: it returns to the heap or, after its last permitted
\* delivery, is given up.
LEMMA NackHolds == ASSUME HInv, NEW a \in Eval, HNack(a) PROVE HInv'
<1> DEFINE back == Retriable({a})
<1> DEFINE order == [i \in back |-> next_seq]
<1>1. /\ {a} \in SUBSET DOMAIN in_flight
      /\ in_flight' = Without({a}) /\ blocked' = blocked /\ Returned({a}, order)
      /\ next_seq \in Nat
  BY EntryTickets DEF HNack, Nack
<1>2. CASE in_flight[a].dequeues < MAX_DEQUEUE
  <2>1. back = {a}
    BY <1>2 DEF Retriable
  <2>2. order \in Bijection(back, next_seq .. (next_seq + 1 - 1))
    <3>1. next_seq .. (next_seq + 1 - 1) = {next_seq}
      BY <1>1
    <3> QED BY <2>1, <3>1 DEF Bijection, Injection, Surjection, IsInjective
  <2>3. /\ heap' = heap \cup {Requeued(in_flight[id], order[id]) : id \in back}
        /\ next_seq' = next_seq + 1
    BY <1>2, <2>1 DEF HNack, Nack
  <2> QED BY <1>1, <2>2, <2>3, ReturnHolds
<1>3. CASE ~(in_flight[a].dequeues < MAX_DEQUEUE)
  <2>1. back = {}
    BY <1>3 DEF Retriable
  <2>2. order \in Bijection(back, next_seq .. (next_seq + 0 - 1))
    <3>1. next_seq .. (next_seq + 0 - 1) = {}
      BY <1>1
    <3> QED BY <2>1, <3>1 DEF Bijection, Injection, Surjection, IsInjective
  <2>3. /\ heap' = heap \cup {Requeued(in_flight[id], order[id]) : id \in back}
        /\ next_seq' = next_seq + 0
    BY <1>1, <1>3, <2>1 DEF HNack, Nack
  <2> QED BY <1>1, <2>2, <2>3, ReturnHolds
<1> QED BY <1>2, <1>3

\* reap_expired(): the same for every delivery that is old enough, in the
\* order in which the HashMap yields them.
LEMMA ReapHolds == ASSUME HInv, HReapExpired PROVE HInv'
<1> DEFINE ids == Expired(VISIBILITY)
<1> DEFINE k == Cardinality(Retriable(ids))
<1>1. PICK order \in Orders(Retriable(ids)) :
        ReapExpired(VISIBILITY, order) /\ Returned(ids, order)
  BY DEF HReapExpired
<1>2. ids \in SUBSET DOMAIN in_flight /\ Retriable(ids) \in SUBSET DOMAIN in_flight
  BY DEF Expired, Retriable
<1>3. k \in Nat
  BY <1>2, FS_Subset, FS_CardinalityType DEF HInv, Filed
<1>4. /\ order \in Bijection(Retriable(ids), next_seq .. (next_seq + k - 1))
      /\ heap' = heap \cup {Requeued(in_flight[id], order[id]) : id \in Retriable(ids)}
      /\ next_seq' = next_seq + k
      /\ in_flight' = Without(ids)
      /\ blocked' = blocked
  BY <1>1 DEF ReapExpired, Orders
<1> QED BY <1>1, <1>2, <1>3, <1>4, ReturnHolds

----------------------------------------------------------------------------
\* Every step of the broker, and a stuttering one, preserves HInv.
LEMMA StepHolds == HInv /\ [HNext]_vars => HInv'
<1> SUFFICES ASSUME HInv, [HNext]_vars PROVE HInv'
  OBVIOUS
<1>1. blocked \in Seq(Eval) /\ next_seq \in Nat
  BY DEF HInv, HTypeOK, QueueTypeOK
<1>2. ASSUME NEW e \in Eval, HEnqueue(e) PROVE HInv'
  <2>1. <<e>> \in Seq(Eval) /\ Len(<<e>>) = 1
    OBVIOUS
  <2>2. /\ heap' = heap \cup {Fresh(next_seq + i - 1, <<e>>[i]) : i \in 1 .. Len(<<e>>)}
        /\ next_seq' = next_seq + Len(<<e>>)
    <3>1. {Fresh(next_seq + i - 1, <<e>>[i]) : i \in 1 .. Len(<<e>>)} = {Fresh(next_seq, e)}
      BY <1>1
    <3> QED BY <1>2, <2>1, <3>1 DEF HEnqueue, Enqueue
  <2>3. in_flight' = in_flight /\ blocked' \in Seq(Eval) /\ Admitted(<<e>>)
    BY <1>1, <1>2 DEF HEnqueue, Enqueue
  <2> QED BY <2>1, <2>2, <2>3, AdmitHolds
<1>3. ASSUME NEW e \in Eval, HAck(e) PROVE HInv'
  BY <1>3, AckHolds
<1>4. ASSUME NEW e \in Eval, HNack(e) PROVE HInv'
  BY <1>4, NackHolds
<1>5. ASSUME NEW e \in Eval, HBlock(e) PROVE HInv'
  BY <1>1, <1>5, ParkedOnlyHolds DEF HBlock, Block, historyVars
<1>6. ASSUME NEW pe \in heap, HDequeue(pe) PROVE HInv'
  BY <1>6, DequeueHolds
<1>7. CASE HReapExpired
  BY <1>7, ReapHolds
<1>8. CASE HUnblockAll
  <2>1. blocked' \in Seq(Eval)
    BY <1>8 DEF HUnblockAll, UnblockAll
  <2> QED BY <1>1, <1>8, <2>1, AdmitHolds DEF HUnblockAll, UnblockAll
<1>9. CASE HTick
  BY <1>9, TickHolds
<1>10. CASE UNCHANGED vars
  BY <1>1, <1>10, ParkedOnlyHolds DEF vars
<1> QED BY <1>2, <1>3, <1>4, <1>5, <1>6, <1>7, <1>8, <1>9, <1>10 DEF HNext

\* HInv is an invariant of the broker.
THEOREM InvariantHolds == HSpec => []HInv
  BY InitHolds, StepHolds, PTL DEF HSpec

\* The queue's fields and the history keep their types.
THEOREM TypesHold == HSpec => []HTypeOK
<1>1. HInv => HTypeOK
  BY DEF HInv
<1> QED BY <1>1, InvariantHolds, PTL

\* No admission is delivered more than MAX_DEQUEUE times, whatever order
\* dequeue, ack, nack, reap_expired and unblock_all are called in.
THEOREM DeliveryCapHolds == HSpec => []DeliveryCap
<1>1. HInv => DeliveryCap
  BY DEF HInv, Fates, DeliveryCap
<1> QED BY <1>1, InvariantHolds, PTL

\* No admission is lost or doubled, and none is given up before its last
\* permitted delivery.
THEOREM ConservationHolds == HSpec => []Conservation
<1>1. HInv => Conservation
  <2> SUFFICES ASSUME HInv, NEW t \in Tickets
               PROVE  /\ fate[t] = "live" <=> (OnHeap(t) # {} \/ Out(t) # {})
                      /\ OnHeap(t) = {} \/ Out(t) = {}
                      /\ \A p, q \in OnHeap(t) : p = q
                      /\ \A i, j \in Out(t) : i = j
                      /\ fate[t] = "dropped" => handed[t] = MAX_DEQUEUE
    BY DEF Conservation
  <2>1. Located(t) <=> (OnHeap(t) # {} \/ Out(t) # {})
    BY DEF Located, OnHeap, Out
  <2>2. Located(t) => fate[t] = "live"
    BY DEF HInv, Books, Located
  <2>3. OnHeap(t) = {} \/ Out(t) = {}
    BY DEF HInv, Distinct, OnHeap, Out
  <2>4. (\A p, q \in OnHeap(t) : p = q) /\ (\A i, j \in Out(t) : i = j)
    BY DEF HInv, Distinct, OnHeap, Out
  <2> QED BY <2>1, <2>2, <2>3, <2>4 DEF HInv, Fates
<1> QED BY <1>1, InvariantHolds, PTL

\* First deliveries respect priority and, within a priority, the order of
\* admission.
THEOREM NoOvertakingHolds == HSpec => []NoOvertaking
<1>1. HInv => NoOvertaking
  BY DEF HInv
<1> QED BY <1>1, InvariantHolds, PTL

----------------------------------------------------------------------------
(* The queue implements PriorityBroker.  A lane is the walk over the       *)
(* sequence numbers, so the facts about lanes go by induction on them.     *)

\* What a lane holds.
LaneEntry == [eval : Eval, tries : Nat]

\* A lane starts empty and grows by one sequence number after the other.
LEMMA LaneSteps ==
  ASSUME NEW S, S \subseteq PendingEval, NEW p, NEW limit \in Nat
  PROVE  /\ LaneUpTo(S, p, limit) \in [0 .. limit -> Seq(LaneEntry)]
         /\ LaneUpTo(S, p, limit)[0] = <<>>
         /\ \A n \in 1 .. limit :
              LaneUpTo(S, p, limit)[n] = Longer(S, p, n - 1, LaneUpTo(S, p, limit)[n - 1])
<1> DEFINE U == Seq(LaneEntry)
           none == <<>>
           F == [x \in U \X Nat |-> Longer(S, p, x[2] - 1, x[1])]
           IsLane(g) == g = [n \in 0 .. limit |-> IF n = 0 THEN <<>> ELSE Longer(S, p, n - 1, g[n - 1])]
<1>1. ASSUME NEW lane \in U, NEW n PROVE Longer(S, p, n, lane) \in U
  <2>1. CASE LaneAt(S, p, n) = {}
    BY <2>1 DEF Longer
  <2>2. CASE LaneAt(S, p, n) # {}
    <3> DEFINE pe == CHOOSE pe \in LaneAt(S, p, n) : TRUE
    <3>1. pe \in S
      BY <2>2 DEF LaneAt
    <3> HIDE DEF pe
    <3>2. Shown(pe) \in LaneEntry
      BY <3>1 DEF PendingEval, Shown, LaneEntry
    <3>3. Append(lane, Shown(pe)) \in U
      BY <3>2
    <3> QED BY <2>2, <3>3 DEF Longer, pe
  <2> QED BY <2>1, <2>2
<1>2. none \in U
  OBVIOUS
<1>3. IsStep(F, U)
  BY <1>1 DEF IsStep
<1>4. \A lane \in U, n \in Nat : F[<<lane, n>>] = Longer(S, p, n - 1, lane)
  OBVIOUS
<1> HIDE DEF F, U, none
<1>5. PICK g \in [0 .. limit -> U] : g[0] = none /\ \A n \in 1 .. limit : g[n] = F[<<g[n - 1], n>>]
  <2>1. \E g : Unfolds(g, U, none, F, limit)
    BY <1>2, <1>3, RecursionExists
  <2> QED BY <2>1 DEF Unfolds
<1>6. ASSUME NEW n \in 1 .. limit PROVE g[n] = Longer(S, p, n - 1, g[n - 1])
  <2>1. n \in Nat /\ n - 1 \in 0 .. limit
    OBVIOUS
  <2>2. g[n - 1] \in U
    BY <2>1
  <2> QED BY <1>4, <1>5, <2>1, <2>2
<1>7. IsLane(g)
  BY <1>5, <1>6 DEF none
<1>8. LaneUpTo(S, p, limit) = CHOOSE h : IsLane(h)
  BY DEF LaneUpTo
<1>9. IsLane(LaneUpTo(S, p, limit))
  BY <1>7, <1>8
<1> DEFINE f == LaneUpTo(S, p, limit)
<1> HIDE DEF f
<1>10. f = [n \in 0 .. limit |-> IF n = 0 THEN <<>> ELSE Longer(S, p, n - 1, f[n - 1])]
  BY <1>9 DEF f
<1>11. f[0] = <<>> /\ \A n \in 1 .. limit : f[n] = Longer(S, p, n - 1, f[n - 1])
  BY <1>10
<1>12. f \in [0 .. limit -> U]
  <2> DEFINE T == {n \in Nat : n <= limit => f[n] \in U}
  <2>1. 0 \in T
    BY <1>2, <1>11 DEF none
  <2>2. ASSUME NEW n \in Nat, n \in T PROVE n + 1 \in T
    <3> SUFFICES ASSUME n + 1 <= limit PROVE f[n + 1] \in U
      OBVIOUS
    <3>1. n + 1 \in 1 .. limit /\ (n + 1) - 1 = n /\ f[n] \in U
      BY <2>2
    <3>2. f[n + 1] = Longer(S, p, n, f[n])
      BY <1>11, <3>1
    <3> QED BY <1>1, <3>1, <3>2
  <2> HIDE DEF T
  <2>3. Nat \subseteq T
    BY <2>1, <2>2, SetInduction
  <2>4. \A n \in 0 .. limit : f[n] \in U
    BY <2>3 DEF T
  <2> QED BY <1>10, <2>4
<1> QED BY <1>11, <1>12 DEF f, U

\* Where two queues agree, so do their lanes.
LEMMA LanesAgree ==
  ASSUME NEW S, S \subseteq PendingEval, NEW T, T \subseteq PendingEval, NEW p,
         NEW limit \in Nat, NEW other \in Nat, limit <= other,
         \A n \in 0 .. (limit - 1) : LaneAt(S, p, n) = LaneAt(T, p, n)
  PROVE  LaneUpTo(S, p, limit)[limit] = LaneUpTo(T, p, other)[limit]
<1> DEFINE f == LaneUpTo(S, p, limit)
           g == LaneUpTo(T, p, other)
           A == {n \in Nat : n <= limit => f[n] = g[n]}
<1>1. /\ f[0] = <<>> /\ g[0] = <<>>
      /\ \A n \in 1 .. limit : f[n] = Longer(S, p, n - 1, f[n - 1])
      /\ \A n \in 1 .. other : g[n] = Longer(T, p, n - 1, g[n - 1])
  BY LaneSteps
<1> HIDE DEF f, g
<1>2. 0 \in A
  BY <1>1
<1>3. ASSUME NEW n \in Nat, n \in A PROVE n + 1 \in A
  <2> SUFFICES ASSUME n + 1 <= limit PROVE f[n + 1] = g[n + 1]
    OBVIOUS
  <2>1. /\ n + 1 \in 1 .. limit /\ n + 1 \in 1 .. other
        /\ (n + 1) - 1 = n /\ n \in 0 .. (limit - 1) /\ f[n] = g[n]
    BY <1>3
  <2>2. f[n + 1] = Longer(S, p, n, f[n]) /\ g[n + 1] = Longer(T, p, n, g[n])
    BY <1>1, <2>1
  <2> QED BY <2>1, <2>2 DEF Longer
<1> HIDE DEF A
<1>4. limit \in A
  BY <1>2, <1>3, SetInduction
<1> QED BY <1>4 DEF A, f, g

\* An entry with a new sequence number joins the tail of its lane.
LEMMA LaneAppends ==
  ASSUME NEW S, S \subseteq PendingEval, NEW p, NEW limit \in Nat, NEW pe \in PendingEval,
         \A x \in S : x.seq < limit, pe.seq = limit
  PROVE  LaneUpTo(S \cup {pe}, p, limit + 1)[limit + 1] =
           IF Priority[pe.eval] = p THEN Append(LaneUpTo(S, p, limit)[limit], Shown(pe))
           ELSE LaneUpTo(S, p, limit)[limit]
<1> DEFINE T == S \cup {pe}
<1>0. T \subseteq PendingEval /\ limit + 1 \in Nat /\ limit <= limit + 1
  OBVIOUS
<1>1. \A n \in 0 .. (limit - 1) : LaneAt(S, p, n) = LaneAt(T, p, n)
  BY DEF LaneAt
<1>2. LaneAt(T, p, limit) = IF Priority[pe.eval] = p THEN {pe} ELSE {}
  <2>1. \A x \in S : x.seq # limit
    BY DEF PendingEval
  <2> QED BY <2>1 DEF LaneAt
<1> HIDE DEF T
<1>3. LaneUpTo(S, p, limit)[limit] = LaneUpTo(T, p, limit + 1)[limit]
  BY <1>0, <1>1, LanesAgree
<1>4. LaneUpTo(T, p, limit + 1)[limit + 1] = Longer(T, p, limit, LaneUpTo(T, p, limit + 1)[limit])
  <2>1. limit + 1 \in 1 .. (limit + 1) /\ (limit + 1) - 1 = limit
    OBVIOUS
  <2>2. \A n \in 1 .. (limit + 1) :
          LaneUpTo(T, p, limit + 1)[n] = Longer(T, p, n - 1, LaneUpTo(T, p, limit + 1)[n - 1])
    BY <1>0, LaneSteps
  <2> QED BY <2>1, <2>2
<1>5. CASE Priority[pe.eval] = p
  <2>1. (CHOOSE x \in {pe} : TRUE) = pe
    OBVIOUS
  <2> QED BY <1>2, <1>3, <1>4, <1>5, <2>1 DEF Longer, T
<1>6. CASE Priority[pe.eval] # p
  BY <1>2, <1>3, <1>4, <1>6 DEF Longer, T
<1> QED BY <1>5, <1>6

\* A lane without entries is empty.
LEMMA LaneEmpty ==
  ASSUME NEW S, S \subseteq PendingEval, NEW p, NEW limit \in Nat,
         \A x \in S : Priority[x.eval] # p
  PROVE  LaneUpTo(S, p, limit)[limit] = <<>>
<1> DEFINE f == LaneUpTo(S, p, limit)
           A == {n \in Nat : n <= limit => f[n] = <<>>}
<1>1. f[0] = <<>> /\ \A n \in 1 .. limit : f[n] = Longer(S, p, n - 1, f[n - 1])
  BY LaneSteps
<1> HIDE DEF f
<1>2. ASSUME NEW n \in Nat, n \in A PROVE n + 1 \in A
  <2> SUFFICES ASSUME n + 1 <= limit PROVE f[n + 1] = <<>>
    OBVIOUS
  <2>1. n + 1 \in 1 .. limit /\ (n + 1) - 1 = n /\ f[n] = <<>>
    BY <1>2
  <2>2. f[n + 1] = Longer(S, p, n, f[n])
    BY <1>1, <2>1
  <2> QED BY <2>1, <2>2 DEF Longer, LaneAt
<1>3. 0 \in A
  BY <1>1
<1> HIDE DEF A
<1>4. limit \in A
  BY <1>2, <1>3, SetInduction
<1> QED BY <1>4 DEF A, f

\* The entry with the least sequence number is the head of its lane.
LEMMA LaneHead ==
  ASSUME NEW S, S \subseteq PendingEval, NEW limit \in Nat, NEW pe \in S, pe.seq < limit,
         \A x \in S \ {pe} : Priority[x.eval] = Priority[pe.eval] => pe.seq < x.seq
  PROVE  LaneUpTo(S, Priority[pe.eval], limit)[limit] =
           <<Shown(pe)>> \o LaneUpTo(S \ {pe}, Priority[pe.eval], limit)[limit]
<1> DEFINE p == Priority[pe.eval]
           T == S \ {pe}
           f == LaneUpTo(S, p, limit)
           g == LaneUpTo(T, p, limit)
           A == {n \in Nat : n <= limit =>
                   IF n <= pe.seq THEN f[n] = <<>> /\ g[n] = <<>> ELSE f[n] = <<Shown(pe)>> \o g[n]}
<1>0. T \subseteq PendingEval /\ pe \in PendingEval /\ pe.seq \in Nat
  BY DEF PendingEval
<1>1. /\ f[0] = <<>> /\ g[0] = <<>>
      /\ f \in [0 .. limit -> Seq(LaneEntry)] /\ g \in [0 .. limit -> Seq(LaneEntry)]
      /\ \A n \in 1 .. limit : f[n] = Longer(S, p, n - 1, f[n - 1])
      /\ \A n \in 1 .. limit : g[n] = Longer(T, p, n - 1, g[n - 1])
  BY <1>0, LaneSteps
<1>2. ASSUME NEW n \in Nat
      PROVE  /\ n < pe.seq => LaneAt(S, p, n) = {} /\ LaneAt(T, p, n) = {}
             /\ n = pe.seq => LaneAt(S, p, n) = {pe} /\ LaneAt(T, p, n) = {}
             /\ n > pe.seq => LaneAt(S, p, n) = LaneAt(T, p, n)
  <2>1. \A x \in T : x.seq \in Nat /\ (Priority[x.eval] = p => pe.seq < x.seq)
    BY <1>0 DEF PendingEval
  <2>2. S = T \cup {pe}
    OBVIOUS
  <2> HIDE DEF T
  <2> QED BY <1>0, <2>1, <2>2 DEF LaneAt
<1> HIDE DEF p, T, f, g
<1>3. 0 \in A
  BY <1>0, <1>1
<1>4. Shown(pe) \in LaneEntry
  BY <1>0 DEF PendingEval, Shown, LaneEntry
<1>5. ASSUME NEW n \in Nat, n \in A PROVE n + 1 \in A
  <2> SUFFICES ASSUME n + 1 <= limit
               PROVE  IF n + 1 <= pe.seq THEN f[n + 1] = <<>> /\ g[n + 1] = <<>>
                      ELSE f[n + 1] = <<Shown(pe)>> \o g[n + 1]
    OBVIOUS
  <2>1. /\ n + 1 \in 1 .. limit /\ (n + 1) - 1 = n /\ n \in 0 .. limit
        /\ IF n <= pe.seq THEN f[n] = <<>> /\ g[n] = <<>> ELSE f[n] = <<Shown(pe)>> \o g[n]
    BY <1>5
  <2>2. f[n + 1] = Longer(S, p, n, f[n]) /\ g[n + 1] = Longer(T, p, n, g[n])
    BY <1>1, <2>1
  <2>3. CASE n < pe.seq
    BY <1>0, <1>2, <2>1, <2>2, <2>3 DEF Longer
  <2>4. CASE n = pe.seq
    <3>1. (CHOOSE x \in {pe} : TRUE) = pe
      OBVIOUS
    <3>0. LaneAt(S, p, n) = {pe} /\ LaneAt(T, p, n) = {} /\ f[n] = <<>> /\ g[n] = <<>>
      BY <1>0, <1>2, <2>1, <2>4
    <3>2. f[n + 1] = Append(<<>>, Shown(pe)) /\ g[n + 1] = <<>>
      BY <2>2, <3>0, <3>1 DEF Longer
    <3>3. ~(n + 1 <= pe.seq)
      BY <1>0, <2>4
    <3> QED BY <1>4, <3>2, <3>3
  <2>5. CASE n > pe.seq
    <3>1. LaneAt(S, p, n) = LaneAt(T, p, n) /\ f[n] = <<Shown(pe)>> \o g[n] /\ ~(n + 1 <= pe.seq)
      BY <1>0, <1>2, <2>1, <2>5
    <3>2. g[n] \in Seq(LaneEntry)
      BY <1>1, <2>1
    <3>3. CASE LaneAt(T, p, n) = {}
      BY <2>2, <3>1, <3>3 DEF Longer
    <3>4. CASE LaneAt(T, p, n) # {}
      <4> DEFINE x == Shown(CHOOSE y \in LaneAt(T, p, n) : TRUE)
      <4>1. x \in LaneEntry
        BY <1>0, <3>4 DEF LaneAt, PendingEval, Shown, LaneEntry
      <4>2. f[n + 1] = Append(f[n], x) /\ g[n + 1] = Append(g[n], x)
        BY <2>2, <3>1, <3>4 DEF Longer
      <4> HIDE DEF x
      <4>3. Append(<<Shown(pe)>> \o g[n], x) = <<Shown(pe)>> \o Append(g[n], x)
        BY <1>4, <3>2, <4>1
      <4> QED BY <3>1, <4>2, <4>3
    <3> QED BY <3>3, <3>4
  <2> QED BY <1>0, <2>3, <2>4, <2>5
<1> HIDE DEF A
<1>6. limit \in A
  BY <1>3, <1>5, SetInduction
<1>7. f[limit] = <<Shown(pe)>> \o g[limit]
  BY <1>0, <1>6 DEF A
<1> QED BY <1>7 DEF p, T, f, g

\* The lanes of a heap that was given n sequence numbers.
LanesOf(S, n) == [p \in {Priority[e] : e \in Eval} |-> LaneUpTo(S, p, n)[n]]

\* An entry with a new sequence number joins the lanes.
LEMMA EntryJoins ==
  ASSUME NEW S, S \subseteq PendingEval, NEW limit \in Nat, NEW pe \in PendingEval,
         \A x \in S : x.seq < limit, pe.seq = limit
  PROVE  LanesOf(S \cup {pe}, limit + 1) = Broker!Join(LanesOf(S, limit), Shown(pe))
<1> DEFINE Level == {Priority[e] : e \in Eval}
<1>1. ASSUME NEW p \in Level
      PROVE  LaneUpTo(S \cup {pe}, p, limit + 1)[limit + 1] =
               IF Priority[pe.eval] = p THEN Append(LaneUpTo(S, p, limit)[limit], Shown(pe))
               ELSE LaneUpTo(S, p, limit)[limit]
  BY LaneAppends
<1>2. Priority[pe.eval] \in Level /\ Shown(pe).eval = pe.eval
  BY DEF PendingEval, Shown
<1> DEFINE q == Priority[pe.eval]
           old == LanesOf(S, limit)
           new == Append(old[q], Shown(pe))
<1> HIDE DEF Level
<1>3. old = [p \in Level |-> LaneUpTo(S, p, limit)[limit]]
  BY DEF LanesOf, Level
<1>4. LanesOf(S \cup {pe}, limit + 1) = [p \in Level |-> LaneUpTo(S \cup {pe}, p, limit + 1)[limit + 1]]
  BY DEF LanesOf, Level
<1> HIDE DEF old
<1>5. ASSUME NEW p \in Level
      PROVE  LaneUpTo(S \cup {pe}, p, limit + 1)[limit + 1] = IF p = q THEN new ELSE old[p]
  BY <1>1, <1>3
<1>6. Broker!Join(old, Shown(pe)) = [old EXCEPT ![q] = new]
  BY <1>2 DEF Broker!Join
<1> HIDE DEF q, new
<1>7. [old EXCEPT ![q] = new] = [p \in Level |-> IF p = q THEN new ELSE old[p]]
  BY <1>3
<1> QED BY <1>4, <1>5, <1>6, <1>7, ZenonT(60) DEF old

\* Entries that are put on the heap under new sequence numbers join the lanes
\* one after the other.
LEMMA EntriesJoin ==
  ASSUME HInv, NEW s \in Seq(PendingEval), NEW t,
         \A i \in 1 .. Len(s) : s[i].seq = next_seq + i - 1,
         t = [i \in 1 .. Len(s) |-> Shown(s[i])]
  PROVE  LanesOf(heap \cup {s[i] : i \in 1 .. Len(s)}, next_seq + Len(s)) = Broker!Joined(t)
<1> DEFINE k == Len(s)
           H(n) == heap \cup {s[i] : i \in 1 .. n}
           G(n) == LanesOf(H(n), next_seq + n)
           base == LanesOf(heap, next_seq)
           IsJoin(g) == g = [n \in 0 .. k |-> IF n = 0 THEN base ELSE Broker!Join(g[n - 1], t[n])]
           f == Broker!Joining(t)
<1>0. /\ next_seq \in Nat /\ k \in Nat
      /\ \A x \in heap : x \in PendingEval /\ x.seq \in Int /\ x.seq < next_seq
      /\ \A i \in 1 .. k : s[i] \in PendingEval /\ s[i].seq = next_seq + i - 1
  <2>1. next_seq \in Nat /\ k \in Nat /\ \A x \in heap : x \in PendingEval
    BY EntryTickets
  <2>2. \A x \in heap : x.seq \in 0 .. (next_seq - 1)
    BY DEF HInv, Books
  <2>3. \A i \in 1 .. k : s[i] \in PendingEval
    OBVIOUS
  <2> QED BY <2>1, <2>2, <2>3
<1>1. Len(t) = k /\ \A n \in 1 .. k : t[n] = Shown(s[n])
  BY <1>0
<1>2. f = CHOOSE g : IsJoin(g)
  <2>1. base = [p \in {Priority[e] : e \in Eval} |-> Lane(p)]
    BY DEF LanesOf, Lane
  <2> HIDE DEF base, k
  <2> QED BY <1>1, <2>1 DEF Broker!Joining
<1> HIDE DEF k, f
<1>3. G(0) = base
  <2>1. H(0) = heap /\ next_seq + 0 = next_seq
    BY <1>0
  <2> QED BY <2>1
<1>4. ASSUME NEW n \in 1 .. k PROVE G(n) = Broker!Join(G(n - 1), t[n])
  <2> DEFINE old == H(n - 1)
             at == next_seq + (n - 1)
             pe == s[n]
  <2>1. at \in Nat /\ at + 1 = next_seq + n /\ pe.seq = at /\ pe \in PendingEval /\ t[n] = Shown(pe)
    BY <1>0, <1>1
  <2>2. old \subseteq PendingEval /\ \A x \in old : x.seq < at
    <3>1. ASSUME NEW i \in 1 .. (n - 1) PROVE s[i] \in PendingEval /\ s[i].seq < at
      <4>1. i \in 1 .. k
        BY <1>0
      <4> QED BY <1>0, <4>1
    <3>2. \A x \in heap : x \in PendingEval /\ x.seq < at
      BY <1>0
    <3> QED BY <3>1, <3>2
  <2>3. H(n) = old \cup {pe}
    BY <1>0
  <2> HIDE DEF old, at, pe, H
  <2>4. LanesOf(old \cup {pe}, at + 1) = Broker!Join(LanesOf(old, at), Shown(pe))
    BY <2>1, <2>2, EntryJoins
  <2>5. G(n - 1) = LanesOf(old, at)
    BY DEF old, at
  <2> QED BY <2>1, <2>3, <2>4, <2>5
<1> DEFINE all == [n \in 0 .. k |-> G(n)]
<1> HIDE DEF G, base
<1>5. IsJoin(all)
  <2>1. ASSUME NEW n \in 0 .. k
        PROVE  all[n] = IF n = 0 THEN base ELSE Broker!Join(all[n - 1], t[n])
    <3>1. CASE n = 0
      BY <1>3, <3>1
    <3>2. CASE n # 0
      <4>1. n \in 1 .. k /\ n - 1 \in 0 .. k
        BY <1>0, <3>2
      <4>2. all[n] = G(n) /\ all[n - 1] = G(n - 1)
        BY <4>1
      <4> HIDE DEF all
      <4> QED BY <1>4, <3>2, <4>1, <4>2
    <3> QED BY <3>1, <3>2
  <2>2. all = [n \in 0 .. k |-> all[n]]
    OBVIOUS
  <2> HIDE DEF all
  <2> QED BY <2>1, <2>2
<1>6. IsJoin(f)
  <2> HIDE DEF IsJoin, all
  <2> QED BY <1>2, <1>5
<1>7. f[0] = base /\ \A n \in 1 .. k : f[n] = Broker!Join(f[n - 1], t[n])
  <2>1. \A n \in 0 .. k : f[n] = IF n = 0 THEN base ELSE Broker!Join(f[n - 1], t[n])
    BY <1>6
  <2>2. 0 \in 0 .. k /\ \A n \in 1 .. k : n \in 0 .. k /\ n # 0
    BY <1>0
  <2> HIDE DEF IsJoin
  <2> QED BY <2>1, <2>2
<1> DEFINE A == {n \in Nat : n <= k => f[n] = G(n)}
<1> HIDE DEF IsJoin, all
<1>8. 0 \in A
  BY <1>3, <1>7
<1>9. ASSUME NEW n \in Nat, n \in A PROVE n + 1 \in A
  <2> SUFFICES ASSUME n + 1 <= k PROVE f[n + 1] = G(n + 1)
    OBVIOUS
  <2>1. n + 1 \in 1 .. k /\ (n + 1) - 1 = n /\ f[n] = G(n)
    BY <1>0, <1>9
  <2>2. f[n + 1] = Broker!Join(f[n], t[n + 1]) /\ G(n + 1) = Broker!Join(G(n), t[n + 1])
    BY <1>4, <1>7, <2>1
  <2> QED BY <2>1, <2>2
<1> HIDE DEF A
<1>10. k \in A
  BY <1>0, <1>8, <1>9, SetInduction
<1>11. f[k] = G(k)
  BY <1>0, <1>10 DEF A
<1> QED BY <1>1, <1>11 DEF Broker!Joined, f, k, G

\* How often the delivery of each evaluation was tried.
Tries == [id \in DOMAIN in_flight |-> in_flight[id].dequeues]

\* The state of PriorityBroker that the queue stands for, and after a step.
LEMMA StandsFor ==
  /\ LanesOf(heap, next_seq) = [p \in {Priority[e] : e \in Eval} |-> Lane(p)]
  /\ LanesOf(heap', next_seq') = [p \in {Priority[e] : e \in Eval} |-> Lane(p)]'
  /\ Tries' = [id \in DOMAIN in_flight' |-> in_flight'[id].dequeues]
  BY DEF LanesOf, Lane, Tries

\* Steps that leave the heap alone leave the lanes alone.
LEMMA SameLanes ==
  ASSUME UNCHANGED <<heap, next_seq>>
  PROVE  [p \in {Priority[e] : e \in Eval} |-> Lane(p)]' = [p \in {Priority[e] : e \in Eval} |-> Lane(p)]
  BY StandsFor

\* enqueue() and unblock_all(): the evaluations evs join, not tried yet.
LEMMA AdmitJoins ==
  ASSUME HInv, NEW evs \in Seq(Eval),
         heap' = heap \cup {Fresh(next_seq + i - 1, evs[i]) : i \in 1 .. Len(evs)},
         next_seq' = next_seq + Len(evs)
  PROVE  LanesOf(heap', next_seq') = Broker!Joined([i \in 1 .. Len(evs) |-> Broker!Entry(evs[i], 0)])
<1> DEFINE s == [i \in 1 .. Len(evs) |-> Fresh(next_seq + i - 1, evs[i])]
           t == [i \in 1 .. Len(evs) |-> Broker!Entry(evs[i], 0)]
<1>0. next_seq \in Nat /\ Len(evs) \in Nat /\ \A i \in 1 .. Len(evs) : evs[i] \in Eval
  BY EntryTickets
<1>1. \A i \in 1 .. Len(evs) :
        /\ Fresh(next_seq + i - 1, evs[i]) \in PendingEval
        /\ Fresh(next_seq + i - 1, evs[i]).seq = next_seq + i - 1
        /\ Shown(Fresh(next_seq + i - 1, evs[i])) = Broker!Entry(evs[i], 0)
  BY <1>0 DEF Fresh, PendingEval, Shown, Broker!Entry
<1>2. s \in Seq(PendingEval) /\ Len(s) = Len(evs)
  BY <1>0, <1>1
<1>3. \A i \in 1 .. Len(evs) : s[i] = Fresh(next_seq + i - 1, evs[i])
  OBVIOUS
<1>4. t = [i \in 1 .. Len(evs) |-> Shown(s[i])]
  BY <1>1, <1>3
<1>5. heap' = heap \cup {s[i] : i \in 1 .. Len(evs)}
  BY <1>3
<1>6. \A i \in 1 .. Len(evs) : s[i].seq = next_seq + i - 1
  BY <1>1, <1>3
<1> HIDE DEF s, t
<1>7. LanesOf(heap \cup {s[i] : i \in 1 .. Len(s)}, next_seq + Len(s)) = Broker!Joined(t)
  BY <1>2, <1>4, <1>6, EntriesJoin
<1> QED BY <1>2, <1>5, <1>7 DEF t

\* enqueue() is Put.
LEMMA EnqueueRefines == ASSUME HInv, NEW e \in Eval, HEnqueue(e) PROVE Broker!Put(e)
<1> DEFINE evs == <<e>>
<1>1. /\ evs \in Seq(Eval) /\ Len(evs) = 1 /\ evs[1] = e
      /\ next_seq \in Nat
  BY EntryTickets
<1>2. /\ heap' = heap \cup {Fresh(next_seq, e)} /\ next_seq' = next_seq + 1
      /\ UNCHANGED <<in_flight, blocked>>
  BY DEF HEnqueue, Enqueue
<1>3. heap' = heap \cup {Fresh(next_seq + i - 1, evs[i]) : i \in 1 .. Len(evs)}
  <2>1. \A i \in 1 .. Len(evs) : i = 1 /\ next_seq + i - 1 = next_seq
    BY <1>1
  <2> QED BY <1>1, <1>2, <2>1
<1>4. [i \in 1 .. Len(evs) |-> Broker!Entry(evs[i], 0)] = <<Broker!Entry(e, 0)>>
  BY <1>1
<1>5. LanesOf(heap', next_seq') = Broker!Joined(<<Broker!Entry(e, 0)>>)
  BY <1>1, <1>2, <1>3, <1>4, AdmitJoins
<1>6. UNCHANGED <<[id \in DOMAIN in_flight |-> in_flight[id].dequeues], blocked>>
  BY <1>2
<1> QED BY <1>5, <1>6, StandsFor DEF Broker!Put

\* unblock_all() is Wake.
LEMMA UnblockRefines == ASSUME HInv, HUnblockAll PROVE Broker!Wake
<1>1. blocked \in Seq(Eval)
  BY DEF HInv, HTypeOK, QueueTypeOK
<1>2. /\ heap' = heap \cup {Fresh(next_seq + i - 1, blocked[i]) : i \in 1 .. Len(blocked)}
      /\ next_seq' = next_seq + Len(blocked) /\ blocked' = <<>> /\ UNCHANGED in_flight
  BY DEF HUnblockAll, UnblockAll
<1>3. LanesOf(heap', next_seq') = Broker!Joined([i \in 1 .. Len(blocked) |-> Broker!Entry(blocked[i], 0)])
  BY <1>1, <1>2, AdmitJoins
<1>4. UNCHANGED [id \in DOMAIN in_flight |-> in_flight[id].dequeues]
  BY <1>2
<1> QED BY <1>2, <1>3, <1>4, StandsFor DEF Broker!Wake

\* ack() is Settle, block() is Park, and the passing of time is nothing.
LEMMA AckRefines == ASSUME HInv, NEW e \in Eval, HAck(e) PROVE Broker!Settle(e)
<1>1. in_flight' = [id \in DOMAIN in_flight \ {e} |-> in_flight[id]] /\ UNCHANGED <<heap, next_seq, blocked>>
  BY DEF HAck, Ack, Without
<1>2. [id \in DOMAIN in_flight |-> in_flight[id].dequeues]' = Broker!HeldWithout({e})
  BY <1>1 DEF Broker!HeldWithout
<1> QED BY <1>1, <1>2, SameLanes DEF Broker!Settle

LEMMA BlockRefines == ASSUME HInv, NEW e \in Eval, HBlock(e) PROVE Broker!Park(e)
<1>1. blocked' = Append(blocked, e) /\ UNCHANGED <<heap, next_seq, in_flight>>
  BY DEF HBlock, Block
<1>2. UNCHANGED [id \in DOMAIN in_flight |-> in_flight[id].dequeues]
  BY <1>1
<1> QED BY <1>1, <1>2, SameLanes DEF Broker!Park

LEMMA TickRefines == ASSUME HInv, HTick PROVE UNCHANGED Broker!brokerVars
<1>1. UNCHANGED <<heap, next_seq, blocked>>
  BY DEF HTick, Tick
<1>2. /\ DOMAIN in_flight' = DOMAIN in_flight
      /\ \A id \in DOMAIN in_flight : in_flight'[id].dequeues = in_flight[id].dequeues
  <2>1. \A id \in DOMAIN in_flight : in_flight[id] \in Delivered
    BY DEF HInv, HTypeOK, QueueTypeOK
  <2> QED BY <2>1 DEF HTick, Tick, Delivered
<1>3. UNCHANGED [id \in DOMAIN in_flight |-> in_flight[id].dequeues]
  BY <1>2
<1> QED BY <1>1, <1>3, SameLanes DEF Broker!brokerVars

\* The head and the tail of a lane.
LEMMA HeadAndTail ==
  ASSUME NEW x \in LaneEntry, NEW rest \in Seq(LaneEntry), NEW lane, lane = <<x>> \o rest
  PROVE  lane # <<>> /\ Head(lane) = x /\ Tail(lane) = rest
<1>1. lane \in Seq(LaneEntry) /\ Len(lane) = Len(rest) + 1 /\ lane[1] = x
  OBVIOUS
<1>2. \A i \in 1 .. Len(rest) : lane[i + 1] = rest[i]
  OBVIOUS
<1>3. lane # <<>> /\ Head(lane) = x
  BY <1>1
<1>4. Tail(lane) \in Seq(LaneEntry) /\ Len(Tail(lane)) = Len(rest)
  BY <1>1, <1>3
<1>5. \A i \in 1 .. Len(rest) : Tail(lane)[i] = rest[i]
  BY <1>1, <1>2, <1>3
<1> QED BY <1>3, <1>4, <1>5

\* dequeue() is Take of the highest lane that is not empty.
LEMMA DequeueRefines == ASSUME HInv, NEW pe \in heap, HDequeue(pe) PROVE Broker!Take(Priority[pe.eval])
<1> DEFINE Level == {Priority[e] : e \in Eval}
           p == Priority[pe.eval]
           rest == heap \ {pe}
           old == LanesOf(heap, next_seq)
           new == LanesOf(rest, next_seq)
<1>0. /\ next_seq \in Nat /\ heap \subseteq PendingEval /\ rest \subseteq PendingEval
      /\ pe \in PendingEval /\ pe.seq < next_seq /\ pe.eval \in Eval
  BY EntryTickets DEF HInv, Books, PendingEval
<1>1. /\ \A other \in heap \ {pe} : Before(pe, other)
      /\ heap' = rest /\ UNCHANGED <<next_seq, blocked>>
      /\ in_flight' = [id \in DOMAIN in_flight \cup {pe.eval} |->
                         IF id = pe.eval
                           THEN [seq |-> pe.seq, eval |-> pe.eval,
                                 dequeues |-> pe.dequeues + 1, age |-> 0]
                           ELSE in_flight[id]]
  BY DEF HDequeue, Dequeue
<1>2. p \in Level /\ \A x \in heap : Priority[x.eval] \in Int
  <2>1. \A x \in heap : x.eval \in Eval
    BY <1>0 DEF PendingEval
  <2> QED BY <1>0, <2>1, QueueAssumption
<1>3. /\ \A x \in heap \ {pe} : Priority[x.eval] = p => pe.seq < x.seq
      /\ \A x \in heap : ~(Priority[x.eval] > p)
  BY <1>1, <1>2 DEF Before
<1>4. LaneUpTo(heap, p, next_seq)[next_seq] = <<Shown(pe)>> \o LaneUpTo(rest, p, next_seq)[next_seq]
  BY <1>0, <1>3, LaneHead
<1>5. ASSUME NEW q \in Level, q # p
      PROVE  LaneUpTo(heap, q, next_seq)[next_seq] = LaneUpTo(rest, q, next_seq)[next_seq]
  <2>1. \A n : LaneAt(heap, q, n) = LaneAt(rest, q, n)
    BY <1>5 DEF LaneAt
  <2> HIDE DEF rest
  <2> QED BY <1>0, <2>1, LanesAgree
<1>6. ASSUME NEW q \in Level, q > p PROVE old[q] = <<>>
  <2>1. \A x \in heap : Priority[x.eval] # q
    BY <1>3, <1>6
  <2>2. LaneUpTo(heap, q, next_seq)[next_seq] = <<>>
    BY <1>0, <2>1, LaneEmpty
  <2> QED BY <2>2 DEF LanesOf
<1>7. /\ old = [q \in Level |-> LaneUpTo(heap, q, next_seq)[next_seq]]
      /\ new = [q \in Level |-> LaneUpTo(rest, q, next_seq)[next_seq]]
  BY DEF LanesOf
<1> DEFINE r == LaneUpTo(rest, p, next_seq)[next_seq]
<1>8. r \in Seq(LaneEntry) /\ Shown(pe) \in LaneEntry
  <2>1. next_seq \in 0 .. next_seq
    BY <1>0
  <2>2. LaneUpTo(rest, p, next_seq) \in [0 .. next_seq -> Seq(LaneEntry)]
    BY <1>0, LaneSteps
  <2> QED BY <1>0, <2>1, <2>2 DEF Shown, LaneEntry, PendingEval
<1>9. old[p] = <<Shown(pe)>> \o r /\ new[p] = r
  BY <1>2, <1>4, <1>7
<1> HIDE DEF r, Level, p, old, new, rest
<1>10. old[p] # <<>> /\ Head(old[p]) = Shown(pe) /\ Tail(old[p]) = new[p]
  BY <1>8, <1>9, HeadAndTail
<1>11. new = [old EXCEPT ![p] = Tail(@)]
  <2>1. [old EXCEPT ![p] = Tail(@)] = [q \in Level |-> IF q = p THEN Tail(old[p]) ELSE old[q]]
    BY <1>7
  <2>2. \A q \in Level : new[q] = IF q = p THEN Tail(old[p]) ELSE old[q]
    BY <1>5, <1>7, <1>10
  <2>3. new = [q \in Level |-> new[q]]
    BY <1>7
  <2> QED BY <2>1, <2>2, <2>3
<1>12. Tries' = [e \in DOMAIN Tries \cup {Shown(pe).eval} |->
                   IF e = Shown(pe).eval THEN Shown(pe).tries + 1 ELSE Tries[e]]
  BY <1>1 DEF Tries, Shown
<1>13. /\ old = [q \in {Priority[e] : e \in Eval} |-> Lane(q)]
       /\ new = [q \in {Priority[e] : e \in Eval} |-> Lane(q)]'
  BY <1>1, StandsFor DEF old, new
<1>14. Broker!Take(p) <=>
        /\ old[p] # <<>>
        /\ \A q \in Level : q > p => old[q] = <<>>
        /\ Tries' = [e \in DOMAIN Tries \cup {Head(old[p]).eval} |->
                       IF e = Head(old[p]).eval THEN Head(old[p]).tries + 1 ELSE Tries[e]]
        /\ new = [old EXCEPT ![p] = Tail(@)]
        /\ UNCHANGED blocked
  BY <1>13 DEF Broker!Take, Broker!Level, Level, Tries
<1>15. Broker!Take(p)
  BY <1>1, <1>6, <1>10, <1>11, <1>12, <1>14
<1> QED BY <1>15 DEF p

\* nack() and reap_expired() are Return: deliveries that end without having
\* been settled wait again, or not, with the tries they had.
LEMMA ReturnRefines ==
  ASSUME HInv, NEW ids \in SUBSET DOMAIN in_flight, NEW k, k = Cardinality(Retriable(ids)),
         NEW order \in Bijection(Retriable(ids), next_seq .. (next_seq + k - 1)),
         heap' = heap \cup {Requeued(in_flight[id], order[id]) : id \in Retriable(ids)},
         next_seq' = next_seq + k,
         in_flight' = Without(ids),
         blocked' = blocked
  PROVE  Broker!Return(ids)
<1> DEFINE back == Retriable(ids)
           who == [i \in 1 .. k |-> CHOOSE id \in back : order[id] = next_seq + i - 1]
           s == [i \in 1 .. k |-> Requeued(in_flight[who[i]], next_seq + i - 1)]
           t == [i \in 1 .. k |-> Broker!Entry(who[i], Tries[who[i]])]
<1>0. /\ next_seq \in Nat /\ k \in Nat
      /\ \A id \in back : id \in DOMAIN in_flight /\ in_flight[id] \in Delivered /\ in_flight[id].eval = id
  <2>1. back \subseteq DOMAIN in_flight
    BY DEF Retriable
  <2>2. k \in Nat
    BY <2>1, FS_Subset, FS_CardinalityType DEF HInv, Filed
  <2> QED BY <2>1, <2>2, EntryTickets DEF HInv, Filed
<1>1. /\ order \in [back -> next_seq .. (next_seq + k - 1)]
      /\ \A i, j \in back : order[i] = order[j] => i = j
      /\ \A n \in next_seq .. (next_seq + k - 1) : \E id \in back : order[id] = n
  BY DEF Bijection, Injection, Surjection, IsInjective
<1>2. ASSUME NEW i \in 1 .. k PROVE who[i] \in back /\ order[who[i]] = next_seq + i - 1
  <2>1. next_seq + i - 1 \in next_seq .. (next_seq + k - 1)
    BY <1>0
  <2>2. \E id \in back : order[id] = next_seq + i - 1
    BY <1>1, <2>1
  <2> QED BY <2>2
<1>3. \A id \in back : \E i \in 1 .. k : who[i] = id
  <2> SUFFICES ASSUME NEW id \in back PROVE \E i \in 1 .. k : who[i] = id
    OBVIOUS
  <2> DEFINE i == order[id] - next_seq + 1
  <2>1. i \in 1 .. k /\ next_seq + i - 1 = order[id]
    BY <1>0, <1>1
  <2> HIDE DEF i, who
  <2>2. who[i] \in back /\ order[who[i]] = order[id]
    BY <1>2, <2>1
  <2> QED BY <1>1, <2>1, <2>2
<1>4. who \in Bijection(1 .. k, back)
  <2>1. who \in [1 .. k -> back]
    BY <1>2
  <2>2. ASSUME NEW i \in 1 .. k, NEW j \in 1 .. k, who[i] = who[j] PROVE i = j
    <3> HIDE DEF who
    <3>1. next_seq + i - 1 = next_seq + j - 1
      BY <1>2, <2>2
    <3> QED BY <1>0, <3>1
  <2> HIDE DEF who
  <2> QED BY <1>3, <2>1, <2>2 DEF Bijection, Injection, Surjection, IsInjective
<1> HIDE DEF who
<1>5. ASSUME NEW i \in 1 .. k
      PROVE  /\ s[i] = Requeued(in_flight[who[i]], order[who[i]])
             /\ s[i] \in PendingEval /\ s[i].seq = next_seq + i - 1
             /\ Shown(s[i]) = t[i]
  <2>1. who[i] \in back /\ order[who[i]] = next_seq + i - 1 /\ next_seq + i - 1 \in Nat
    BY <1>0, <1>2
  <2>2. Tries[who[i]] = in_flight[who[i]].dequeues
    BY <1>0, <2>1 DEF Tries
  <2> QED BY <1>0, <2>1, <2>2 DEF Requeued, PendingEval, Delivered, Shown, Broker!Entry
<1>6. s \in Seq(PendingEval) /\ Len(s) = k
  <2>1. s \in [1 .. k -> PendingEval]
    BY <1>5
  <2> HIDE DEF s
  <2> QED BY <1>0, <2>1
<1>7. t = [i \in 1 .. Len(s) |-> Shown(s[i])]
  BY <1>5, <1>6
<1> HIDE DEF s, t
<1>8. heap' = heap \cup {s[i] : i \in 1 .. Len(s)}
  <2>1. {Requeued(in_flight[id], order[id]) : id \in back} = {s[i] : i \in 1 .. k}
    BY <1>2, <1>3, <1>5
  <2> QED BY <1>6, <2>1
<1>9. LanesOf(heap', next_seq') = Broker!Joined(t)
  <2>1. LanesOf(heap \cup {s[i] : i \in 1 .. Len(s)}, next_seq + Len(s)) = Broker!Joined(t)
    BY <1>5, <1>6, <1>7, EntriesJoin
  <2> QED BY <1>6, <1>8, <2>1
<1>10. back = {e \in ids : Tries[e] < MAX_DEQUEUE}
  BY DEF Retriable, Tries
<1>11. Tries' = [e \in DOMAIN Tries \ ids |-> Tries[e]]
  BY DEF Without, Tries
<1>12. [p \in {Priority[e] : e \in Eval} |-> Lane(p)]' = Broker!Joined(t)
  BY <1>9, StandsFor
<1>13. Tries = [id \in DOMAIN in_flight |-> in_flight[id].dequeues]
  BY DEF Tries
<1>14. Broker!Cardinality(back) = k /\ Broker!Bijection(1 .. k, back) = Bijection(1 .. k, back)
  <2>1. Broker!Cardinality(back) = Cardinality(back)
    BY DEF Broker!Cardinality, Cardinality
  <2> HIDE DEF back
  <2>2. Broker!Bijection(1 .. k, back) = Bijection(1 .. k, back)
    BY DEF Broker!Bijection, Broker!Injection, Broker!Surjection, Broker!IsInjective,
           Bijection, Injection, Surjection, IsInjective
  <2> QED BY <2>1, <2>2 DEF back
<1> DEFINE again == {e \in ids : Tries[e] < MAX_DEQUEUE}
<1> HIDE DEF back
<1>15. Broker!Return(ids) <=>
        /\ Tries' = [e \in DOMAIN Tries \ ids |-> Tries[e]]
        /\ \E o \in Broker!Bijection(1 .. Broker!Cardinality(again), again) :
             [p \in {Priority[e] : e \in Eval} |-> Lane(p)]' =
               Broker!Joined([i \in 1 .. Broker!Cardinality(again) |-> Broker!Entry(o[i], Tries[o[i]])])
        /\ UNCHANGED blocked
  BY DEF Broker!Return, Broker!HeldWithout, Tries
<1>16. again = back
  BY <1>10
<1> HIDE DEF again
<1>17. \E o \in Broker!Bijection(1 .. Broker!Cardinality(again), again) :
         [p \in {Priority[e] : e \in Eval} |-> Lane(p)]' =
           Broker!Joined([i \in 1 .. Broker!Cardinality(again) |-> Broker!Entry(o[i], Tries[o[i]])])
  BY <1>4, <1>12, <1>14, <1>16, ZenonT(60) DEF t
<1> QED BY <1>11, <1>15, <1>17

LEMMA NackRefines == ASSUME HInv, NEW a \in Eval, HNack(a) PROVE Broker!Return({a})
<1> DEFINE back == Retriable({a})
<1> DEFINE order == [i \in back |-> next_seq]
<1>1. /\ {a} \in SUBSET DOMAIN in_flight
      /\ in_flight' = Without({a}) /\ blocked' = blocked
      /\ next_seq \in Nat
  BY EntryTickets DEF HNack, Nack
<1>2. CASE in_flight[a].dequeues < MAX_DEQUEUE
  <2>1. back = {a} /\ 1 = Cardinality(back)
    BY <1>2, FS_Singleton DEF Retriable
  <2>2. order \in Bijection(back, next_seq .. (next_seq + 1 - 1))
    <3>1. next_seq .. (next_seq + 1 - 1) = {next_seq}
      BY <1>1
    <3> QED BY <2>1, <3>1 DEF Bijection, Injection, Surjection, IsInjective
  <2>3. /\ heap' = heap \cup {Requeued(in_flight[id], order[id]) : id \in back}
        /\ next_seq' = next_seq + 1
    BY <1>2, <2>1 DEF HNack, Nack
  <2> QED BY <1>1, <2>1, <2>2, <2>3, ReturnRefines
<1>3. CASE ~(in_flight[a].dequeues < MAX_DEQUEUE)
  <2>1. back = {} /\ 0 = Cardinality(back)
    BY <1>3, FS_EmptySet DEF Retriable
  <2>2. order \in Bijection(back, next_seq .. (next_seq + 0 - 1))
    <3>1. next_seq .. (next_seq + 0 - 1) = {}
      BY <1>1
    <3> QED BY <2>1, <3>1 DEF Bijection, Injection, Surjection, IsInjective
  <2>3. /\ heap' = heap \cup {Requeued(in_flight[id], order[id]) : id \in back}
        /\ next_seq' = next_seq + 0
    BY <1>1, <1>3, <2>1 DEF HNack, Nack
  <2> QED BY <1>1, <2>1, <2>2, <2>3, ReturnRefines
<1> QED BY <1>2, <1>3

LEMMA ReapRefines ==
  ASSUME HInv, HReapExpired PROVE \E S \in SUBSET DOMAIN in_flight : Broker!Return(S)
<1>1. PICK ids \in SUBSET DOMAIN in_flight : ids = Expired(VISIBILITY)
  BY DEF Expired
<1>2. PICK k : k = Cardinality(Retriable(ids))
  OBVIOUS
<1>3. PICK order \in Orders(Retriable(ids)) : ReapExpired(VISIBILITY, order)
  BY <1>1 DEF HReapExpired
<1>4. /\ order \in Bijection(Retriable(ids), next_seq .. (next_seq + k - 1))
      /\ heap' = heap \cup {Requeued(in_flight[id], order[id]) : id \in Retriable(ids)}
      /\ next_seq' = next_seq + k
      /\ in_flight' = Without(ids)
      /\ blocked' = blocked
  BY <1>1, <1>2, <1>3 DEF ReapExpired, Orders
<1>5. Broker!Return(ids)
  BY <1>2, <1>4, ReturnRefines
<1> QED BY <1>5

\* EvalQueue::new() is the broker with nothing in it.
LEMMA InitRefines == HInit => Broker!Init
<1> SUFFICES ASSUME HInit PROVE Broker!Init
  OBVIOUS
<1>1. heap = {} /\ next_seq = 0 /\ in_flight = [id \in {} |-> {}] /\ blocked = <<>>
  BY DEF HInit, QueueInit
<1>2. ASSUME NEW p PROVE Lane(p) = <<>>
  <2>1. {} \subseteq PendingEval /\ \A x \in {} : Priority[x.eval] # p
    OBVIOUS
  <2>2. LaneUpTo({}, p, 0)[0] = <<>>
    BY <2>1, LaneEmpty
  <2> QED BY <1>1, <2>2 DEF Lane
<1>3. [id \in DOMAIN in_flight |-> in_flight[id].dequeues] = [e \in {} |-> 0]
  BY <1>1
<1> QED BY <1>1, <1>2, <1>3 DEF Broker!Init, Broker!Level

\* Every step of the queue is one of the broker's, or leaves the broker alone.
LEMMA StepRefines == HInv /\ [HNext]_vars => [Broker!Next]_(Broker!brokerVars)
<1> SUFFICES ASSUME HInv, [HNext]_vars PROVE Broker!Next \/ UNCHANGED Broker!brokerVars
  OBVIOUS
<1>1. ASSUME NEW e \in Eval, HEnqueue(e) PROVE Broker!Next
  BY <1>1, EnqueueRefines DEF Broker!Next
<1>2. ASSUME NEW e \in Eval, HAck(e) PROVE Broker!Next
  BY <1>2, AckRefines DEF Broker!Next
<1>3. ASSUME NEW e \in Eval, HBlock(e) PROVE Broker!Next
  BY <1>3, BlockRefines DEF Broker!Next
<1>4. ASSUME NEW S \in SUBSET DOMAIN in_flight, Broker!Return(S) PROVE Broker!Next
  <2>1. DOMAIN [id \in DOMAIN in_flight |-> in_flight[id].dequeues] = DOMAIN in_flight
    OBVIOUS
  <2> QED BY <1>4, <2>1 DEF Broker!Next
<1>5. ASSUME NEW e \in Eval, HNack(e) PROVE Broker!Next
  <2>1. {e} \in SUBSET DOMAIN in_flight
    BY <1>5 DEF HNack, Nack
  <2> QED BY <1>4, <1>5, <2>1, NackRefines
<1>6. CASE HReapExpired
  <2>1. PICK S \in SUBSET DOMAIN in_flight : Broker!Return(S)
    BY <1>6, ReapRefines
  <2> QED BY <1>4, <2>1
<1>7. ASSUME NEW pe \in heap, HDequeue(pe) PROVE Broker!Next
  <2>1. Priority[pe.eval] \in Broker!Level
    BY DEF HInv, HTypeOK, QueueTypeOK, PendingEval, Broker!Level
  <2>2. Broker!Take(Priority[pe.eval])
    BY <1>7, DequeueRefines
  <2> QED BY <2>1, <2>2 DEF Broker!Next
<1>8. CASE HUnblockAll
  BY <1>8, UnblockRefines DEF Broker!Next
<1>9. CASE HTick
  BY <1>9, TickRefines
<1>10. CASE UNCHANGED vars
  <2>1. UNCHANGED <<heap, next_seq, in_flight, blocked>>
    BY <1>10 DEF vars
  <2>2. UNCHANGED [id \in DOMAIN in_flight |-> in_flight[id].dequeues]
    BY <2>1
  <2> QED BY <2>1, <2>2, SameLanes DEF Broker!brokerVars
<1> QED BY <1>1, <1>2, <1>3, <1>5, <1>6, <1>7, <1>8, <1>9, <1>10 DEF HNext

\* The queue of eval_queue.rs keeps PriorityBroker's promise: whatever order
\* its methods are called in, what the heap, its sequence numbers and the map
\* of deliveries do is one first-in-first-out lane per priority.
THEOREM ImplementsBrokerHolds == HSpec => ImplementsBroker
  BY InitRefines, StepRefines, InvariantHolds, PTL DEF HSpec, ImplementsBroker, Broker!Spec

============================================================================
