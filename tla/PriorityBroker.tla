-------------------------- MODULE PriorityBroker ---------------------------
(***************************************************************************)
(* What the evaluation broker promises, with neither sequence numbers, nor *)
(* a heap, nor clocks: one first-in-first-out lane per priority level,     *)
(* deliveries that are settled, handed back or reclaimed, a limit on how   *)
(* often one entry is delivered, and a parking lot.  EvalQueue is checked  *)
(* and proved to implement it.                                             *)
(*                                                                         *)
(* An entry that comes back, whatever the reason, joins the tail of its    *)
(* lane and keeps its count of tries; one that comes out of the parking    *)
(* lot joins the tail and starts at no tries.                              *)
(***************************************************************************)
EXTENDS Integers, Sequences, FiniteSets, Functions

CONSTANTS Eval, Priority, Limit

VARIABLES
  lanes,   \* lanes[p]: the entries waiting at level p, head first
  held,    \* held[e]: how often the delivery of e now held was tried
  parked   \* evaluations set aside

brokerVars == <<lanes, held, parked>>

Level == {Priority[e] : e \in Eval}

Entry(e, tries) == [eval |-> e, tries |-> tries]

\* An entry joins the tail of its lane.
Join(ls, x) == [ls EXCEPT ![Priority[x.eval]] = Append(@, x)]

\* The lanes after the first n entries of s have joined them, one after the
\* other.
Joining(s) ==
  LET after[n \in 0 .. Len(s)] == IF n = 0 THEN lanes ELSE Join(after[n - 1], s[n])
  IN  after

Joined(s) == Joining(s)[Len(s)]

HeldWithout(S) == [e \in DOMAIN held \ S |-> held[e]]

----------------------------------------------------------------------------
Init ==
  /\ lanes = [p \in Level |-> <<>>]
  /\ held = [e \in {} |-> 0]
  /\ parked = <<>>

Put(e) ==
  /\ lanes' = Joined(<<Entry(e, 0)>>)
  /\ UNCHANGED <<held, parked>>

\* The head of the highest lane that is not empty is delivered.
Take(p) ==
  /\ lanes[p] # <<>>
  /\ \A q \in Level : q > p => lanes[q] = <<>>
  /\ LET x == Head(lanes[p]) IN
       held' = [e \in DOMAIN held \cup {x.eval} |->
                  IF e = x.eval THEN x.tries + 1 ELSE held[e]]
  /\ lanes' = [lanes EXCEPT ![p] = Tail(@)]
  /\ UNCHANGED parked

Settle(e) ==
  /\ held' = HeldWithout({e})
  /\ UNCHANGED <<lanes, parked>>

\* Some deliveries end without having been settled; those that have tries
\* left wait again, in any order among themselves.
Return(S) ==
  LET again == {e \in S : held[e] < Limit} IN
  /\ held' = HeldWithout(S)
  /\ \E order \in Bijection(1 .. Cardinality(again), again) :
       lanes' = Joined([i \in 1 .. Cardinality(again) |->
                          Entry(order[i], held[order[i]])])
  /\ UNCHANGED parked

Park(e) ==
  /\ parked' = Append(parked, e)
  /\ UNCHANGED <<lanes, held>>

Wake ==
  /\ lanes' = Joined([i \in 1 .. Len(parked) |-> Entry(parked[i], 0)])
  /\ parked' = <<>>
  /\ UNCHANGED held

Next ==
  \/ \E e \in Eval : Put(e) \/ Settle(e) \/ Park(e)
  \/ \E p \in Level : Take(p)
  \/ \E S \in SUBSET DOMAIN held : Return(S)
  \/ Wake

Spec == Init /\ [][Next]_brokerVars

============================================================================
