---------------------------- MODULE ServerProofs ----------------------------
(***************************************************************************)
(* Proofs about the server, for every set of jobs, nodes and connections:  *)
(* any number of handlers interleave with the scheduler worker at every    *)
(* lock.  The first part is about a server that is started once            *)
(* (SteadySpec), whatever process_eval plans; the second about one that is *)
(* stopped and started at will (Spec), with any number of workers.         *)
(***************************************************************************)
EXTENDS Server, SchedulerProofs, FiniteSetTheorems, TLAPS

Working == {"plan", "commit", "check", "block"}

Types ==
  /\ issued \subseteq Eval
  /\ requests \in Nat
  /\ cpc \in [Caller -> {"idle", "enqueue", "unblock"}]
  /\ ceval \in [Caller -> issued \cup {NoEval}]
  /\ wpc \in [Worker -> {"unborn", "sleep", "top", "reap", "dequeue", "ack", "done"} \cup Working]
  /\ weval \in [Worker -> issued \cup {NoEval}]
  /\ DOMAIN wplan = Worker
  /\ blocked \in Seq(issued)
  /\ \A pe \in heap : pe.eval \in issued
  /\ \A id \in DOMAIN in_flight : id \in issued /\ in_flight[id].eval = id
  /\ \A id \in DOMAIN allocs : id[1] \in issued
  /\ \A e \in issued : e.n <= requests

\* run() on a running server does nothing, so there is one worker.
OneWorker ==
  /\ \A w \in Worker : wpc[w] # "unborn" => status = "Running"
  /\ \A v, w \in Worker : wpc[v] # "unborn" /\ wpc[w] # "unborn" => v = w

OnHeap(e) == \E pe \in heap : pe.eval = e

Parked(e) == \E i \in DOMAIN blocked : blocked[i] = e

Waiting(e) == OnHeap(e) \/ Parked(e)

Carried(e) == \E c \in Caller : ceval[c] = e

\* A worker is about to acknowledge e.
Acking(e) == \E w \in Worker : wpc[w] = "ack" /\ weval[w] = e

\* An evaluation is in one place only: with its handler, on the heap, parked,
\* or delivered; a delivered one may wait already only while its worker is
\* about to acknowledge it.  What has placements waits nowhere.
OnePlace ==
  /\ \A pe, qe \in heap : pe.eval = qe.eval => pe = qe
  /\ \A i, j \in DOMAIN blocked : blocked[i] = blocked[j] => i = j
  /\ \A e \in issued : ~(OnHeap(e) /\ Parked(e))
  /\ \A c \in Caller : cpc[c] = "enqueue" <=> ceval[c] # NoEval
  /\ \A c, d \in Caller : ceval[c] = ceval[d] /\ ceval[c] # NoEval => c = d
  /\ \A e \in issued : Carried(e) => ~Waiting(e) /\ e \notin DOMAIN in_flight /\ PlacedFor(e) = {}
  /\ \A e \in DOMAIN in_flight : Waiting(e) => Acking(e)
  /\ \A id \in DOMAIN allocs :
       ~Waiting(id[1]) /\ (id[1] \in DOMAIN in_flight => Acking(id[1]))
  /\ \A w \in Worker :
       /\ wpc[w] \in Working \cup {"ack"} => weval[w] \in issued
       /\ wpc[w] \in Working => weval[w] \in DOMAIN in_flight

\* An evaluation is safe without its delivery, or the worker is still at it.
Safe(e) ==
  \/ Carried(e) \/ Waiting(e) \/ PlacedFor(e) # {} \/ e \in moot
  \/ e \in DOMAIN holder /\ holder[e] \in Caller

Remembered ==
  \A e \in issued : Safe(e) \/ \E w \in Worker : wpc[w] \in Working /\ weval[w] = e

ServerInv == Types /\ OneWorker /\ OnePlace /\ Remembered

USE DEF Working

----------------------------------------------------------------------------
\* A server that was not started satisfies the invariant.
LEMMA ServerInitHolds == Init => ServerInv
<1> SUFFICES ASSUME Init PROVE ServerInv
  OBVIOUS
<1>1. Types
  BY DEF Init, QueueInit, Types
<1>2. OneWorker
  BY DEF Init, OneWorker
<1>3. OnePlace
  BY DEF Init, QueueInit, OnePlace, Carried
<1>4. Remembered
  BY DEF Init, Remembered
<1> QED BY <1>1, <1>2, <1>3, <1>4 DEF ServerInv

----------------------------------------------------------------------------
(* The handlers.                                                           *)

\* Ids are numbers, so one more request leaves them below the count.
LEMMA CountGrows ==
  ASSUME Types
  PROVE  requests + 1 \in Nat /\ \A e \in issued : e.n <= requests + 1
<1>1. \A e \in issued : e.n \in Nat /\ e.n <= requests
  BY ServerAssumption DEF Types
<1> QED BY <1>1 DEF Types

\* An evaluation's id is drawn from the count of requests, so it is new.
LEMMA NewEvalFacts ==
  ASSUME ServerInv, NEW c \in Caller, Accept(c), NEW j \in Job, NEW trigger \in Trigger
  PROVE  /\ NewEval(j, trigger) \in Eval
         /\ NewEval(j, trigger) \notin issued
         /\ NewEval(j, trigger).n = requests + 1
  BY ServerAssumption DEF ServerInv, Types, Accept, NewEval

\* The first half of JobRegister and JobDeregister: a new evaluation is with
\* its handler.
LEMMA IssueHolds ==
  ASSUME ServerInv, NEW c \in Caller, cpc[c] = "idle",
         NEW e \in Eval, e \notin issued, e.n = requests + 1,
         ceval' = [ceval EXCEPT ![c] = e],
         cpc' = [cpc EXCEPT ![c] = "enqueue"],
         issued' = issued \cup {e},
         requests' = requests + 1,
         UNCHANGED <<queueVars, allocs, status, wpc, weval, wplan, moot, holder>>
  PROVE  ServerInv'
<1> USE DEF queueVars
<1>0. Types /\ OneWorker /\ OnePlace /\ Remembered /\ NoEval \notin Eval
  BY ServerAssumption DEF ServerInv
<1>1. Types'
  <2>1. requests' \in Nat /\ \A x \in issued' : x.n <= requests'
    BY <1>0, CountGrows
  <2>2. /\ ceval' \in [Caller -> issued' \cup {NoEval}]
        /\ weval' \in [Worker -> issued' \cup {NoEval}]
        /\ cpc' \in [Caller -> {"idle", "enqueue", "unblock"}]
    BY <1>0 DEF Types
  <2>3. blocked' \in Seq(issued')
    BY <1>0 DEF Types
  <2> QED BY <1>0, <2>1, <2>2, <2>3 DEF Types
<1>2. OneWorker'
  BY <1>0 DEF OneWorker
<1>3. /\ ceval[c] = NoEval /\ ceval'[c] = e /\ cpc'[c] = "enqueue"
      /\ \A d \in Caller : d # c => ceval'[d] = ceval[d] /\ cpc'[d] = cpc[d]
      /\ \A d \in Caller : ceval[d] # e
  BY <1>0 DEF Types, OnePlace
<1>4. /\ \A x : Waiting(x)' <=> Waiting(x)
      /\ \A x : Acking(x)' <=> Acking(x)
      /\ \A x : PlacedFor(x)' = PlacedFor(x)
      /\ \A x : OnHeap(x)' <=> OnHeap(x)
      /\ \A x : Parked(x)' <=> Parked(x)
  BY DEF Waiting, OnHeap, Parked, Acking, PlacedFor
<1>5. ~Waiting(e) /\ e \notin DOMAIN in_flight /\ PlacedFor(e) = {}
  BY <1>0 DEF Types, Waiting, OnHeap, Parked, PlacedFor
<1>6. OnePlace'
  <2>1. \A x \in issued : Carried(x)' => Carried(x)
    BY <1>3 DEF Carried
  <2>2. \A x \in issued' : Carried(x)' =>
          ~Waiting(x)' /\ x \notin DOMAIN in_flight' /\ PlacedFor(x)' = {}
    BY <1>0, <1>4, <1>5, <2>1 DEF OnePlace
  <2>3. \A x, d \in Caller : ceval'[x] = ceval'[d] /\ ceval'[x] # NoEval => x = d
    BY <1>0, <1>3 DEF OnePlace
  <2>4. \A d \in Caller : cpc'[d] = "enqueue" <=> ceval'[d] # NoEval
    BY <1>0, <1>3 DEF OnePlace
  <2>5. \A x \in issued' : ~(OnHeap(x)' /\ Parked(x)')
    BY <1>0, <1>4, <1>5 DEF OnePlace, Waiting
  <2> QED BY <1>0, <1>4, <2>2, <2>3, <2>4, <2>5 DEF OnePlace
<1>7. Remembered'
  <2>1. Carried(e)' /\ \A x \in issued : Carried(x) => Carried(x)'
    BY <1>0, <1>3 DEF Carried, Types
  <2> QED BY <1>0, <1>4, <2>1 DEF Remembered, Safe
<1> QED BY <1>1, <1>2, <1>6, <1>7 DEF ServerInv

LEMMA RegisterJobHolds ==
  ASSUME ServerInv, NEW c \in Caller, NEW j \in Job, NEW groups, RegisterJob(c, j, groups)
  PROVE  ServerInv'
<1>1. "JobRegister" \in Trigger /\ Accept(c)
  BY DEF Trigger, RegisterJob
<1> QED BY <1>1, NewEvalFacts, IssueHolds
        DEF RegisterJob, Accept, lifeVars, workerVars, traceVars

LEMMA DeregisterJobHolds ==
  ASSUME ServerInv, NEW c \in Caller, NEW j \in Job, DeregisterJob(c, j)
  PROVE  ServerInv'
<1>1. "JobDeregister" \in Trigger /\ Accept(c)
  BY DEF Trigger, DeregisterJob
<1> QED BY <1>1, NewEvalFacts, IssueHolds
        DEF DeregisterJob, Accept, lifeVars, workerVars, traceVars

\* The second half: the evaluation passes from its handler to the heap.
LEMMA EnqueueEvalHolds ==
  ASSUME ServerInv, NEW c \in Caller, EnqueueEval(c)
  PROVE  ServerInv'
<1> DEFINE e == ceval[c]
           new == Fresh(next_seq, e)
<1>0. Types /\ OneWorker /\ OnePlace /\ Remembered /\ NoEval \notin Eval
  BY ServerAssumption DEF ServerInv
<1>1. /\ cpc[c] = "enqueue" /\ heap' = heap \cup {new} /\ new.eval = e
      /\ UNCHANGED <<in_flight, blocked, allocs, issued, requests, status, wpc, weval, wplan,
                     moot, holder>>
      /\ cpc' = [cpc EXCEPT ![c] = "idle"]
      /\ ceval' = [ceval EXCEPT ![c] = NoEval]
  BY DEF EnqueueEval, Enqueue, Fresh, storeVars, lifeVars, workerVars, traceVars
<1>2. e \in issued /\ e # NoEval /\ Carried(e)
  BY <1>0, <1>1 DEF OnePlace, Types, Carried
<1>3. ~Waiting(e) /\ e \notin DOMAIN in_flight /\ PlacedFor(e) = {}
  BY <1>0, <1>2 DEF OnePlace
<1> HIDE DEF new
<1>4. /\ \A x : OnHeap(x)' <=> OnHeap(x) \/ x = e
      /\ \A x : Parked(x)' <=> Parked(x)
      /\ \A x : Acking(x)' <=> Acking(x)
      /\ \A x : PlacedFor(x)' = PlacedFor(x)
  BY <1>1 DEF OnHeap, Parked, Acking, PlacedFor
<1>5. \A x \in issued : Carried(x)' <=> Carried(x) /\ x # e
  BY <1>0, <1>1, <1>2 DEF Carried, Types, OnePlace
<1> HIDE DEF e
<1>6. Types'
  BY <1>0, <1>1, <1>2 DEF Types
<1>7. OneWorker'
  BY <1>0, <1>1 DEF OneWorker
<1>8. OnePlace'
  <2>1. \A pe, qe \in heap' : pe.eval = qe.eval => pe = qe
    BY <1>0, <1>1, <1>3 DEF OnePlace, Waiting, OnHeap
  <2>2. /\ \A d \in Caller : cpc'[d] = "enqueue" <=> ceval'[d] # NoEval
        /\ \A x, d \in Caller : ceval'[x] = ceval'[d] /\ ceval'[x] # NoEval => x = d
    BY <1>0, <1>1 DEF OnePlace, Types
  <2>3. \A x \in issued : ~(OnHeap(x)' /\ Parked(x)')
    BY <1>0, <1>3, <1>4 DEF OnePlace, Waiting
  <2>4. \A x \in issued : Carried(x)' =>
          ~Waiting(x)' /\ x \notin DOMAIN in_flight /\ PlacedFor(x)' = {}
    BY <1>0, <1>4, <1>5 DEF OnePlace, Waiting
  <2>5. \A x \in DOMAIN in_flight : Waiting(x)' => Acking(x)'
    BY <1>0, <1>3, <1>4 DEF OnePlace, Waiting
  <2>6. \A id \in DOMAIN allocs :
          ~Waiting(id[1])' /\ (id[1] \in DOMAIN in_flight => Acking(id[1])')
    BY <1>0, <1>3, <1>4 DEF OnePlace, Waiting, PlacedFor
  <2> QED BY <1>0, <1>1, <2>1, <2>2, <2>3, <2>4, <2>5, <2>6 DEF OnePlace
<1>9. Remembered'
  BY <1>0, <1>1, <1>4, <1>5 DEF Remembered, Safe, Waiting
<1> QED BY <1>6, <1>7, <1>8, <1>9 DEF ServerInv

\* NodeRegister, its first half.
LEMMA RegisterNodeHolds ==
  ASSUME ServerInv, NEW c \in Caller, NEW n, NEW spec, RegisterNode(c, n, spec)
  PROVE  ServerInv'
<1>0. Types /\ OneWorker /\ OnePlace /\ Remembered
  BY DEF ServerInv
<1>1. /\ cpc[c] = "idle" /\ cpc' = [cpc EXCEPT ![c] = "unblock"] /\ requests' = requests + 1
      /\ UNCHANGED <<heap, in_flight, blocked, allocs, issued, ceval, status, wpc, weval, wplan,
                     moot, holder>>
  BY DEF RegisterNode, Accept, queueVars, lifeVars, workerVars, traceVars
<1>2. Types'
  BY <1>0, <1>1, CountGrows DEF Types
<1>3. OneWorker'
  BY <1>0, <1>1 DEF OneWorker
<1>4. OnePlace'
  <2>1. \A d \in Caller : cpc'[d] = "enqueue" <=> ceval'[d] # NoEval
    BY <1>0, <1>1 DEF OnePlace, Types
  <2> QED BY <1>0, <1>1, <2>1
          DEF OnePlace, Waiting, OnHeap, Parked, Carried, Acking, PlacedFor
<1>5. Remembered'
  BY <1>0, <1>1 DEF Remembered, Safe, Waiting, OnHeap, Parked, Carried, PlacedFor
<1> QED BY <1>2, <1>3, <1>4, <1>5 DEF ServerInv

\* NodeRegister, its second half: what was parked is on the heap.
LEMMA UnblockHolds ==
  ASSUME ServerInv, NEW c \in Caller, Unblock(c)
  PROVE  ServerInv'
<1> DEFINE new == {Fresh(next_seq + i - 1, blocked[i]) : i \in 1 .. Len(blocked)}
<1>0. Types /\ OneWorker /\ OnePlace /\ Remembered
  BY DEF ServerInv
<1>1. /\ cpc[c] = "unblock" /\ cpc' = [cpc EXCEPT ![c] = "idle"]
      /\ heap' = heap \cup new /\ blocked' = <<>>
      /\ UNCHANGED <<in_flight, allocs, issued, requests, ceval, status, wpc, weval, wplan,
                     moot, holder>>
  BY DEF Unblock, UnblockAll, storeVars, lifeVars, workerVars, traceVars
<1>2. DOMAIN blocked = 1 .. Len(blocked) /\ Len(blocked) \in Nat
  BY <1>0 DEF Types
<1>3. /\ \A pe \in new : Parked(pe.eval)
      /\ \A x : Parked(x) => \E pe \in new : pe.eval = x
      /\ \A pe, qe \in new : pe.eval = qe.eval => pe = qe
  <2>1. \A i \in DOMAIN blocked : Fresh(next_seq + i - 1, blocked[i]).eval = blocked[i]
    BY DEF Fresh
  <2>2. \A pe \in new : \E i \in DOMAIN blocked :
          pe = Fresh(next_seq + i - 1, blocked[i]) /\ pe.eval = blocked[i]
    BY <1>2, <2>1
  <2>3. \A i \in DOMAIN blocked : \E pe \in new : pe.eval = blocked[i]
    BY <1>2, <2>1
  <2> HIDE DEF new
  <2>4. \A pe, qe \in new : pe.eval = qe.eval => pe = qe
    BY <1>0, <2>2 DEF OnePlace
  <2> QED BY <2>2, <2>3, <2>4 DEF Parked
<1> HIDE DEF new
<1>4. /\ \A x : OnHeap(x)' <=> Waiting(x)
      /\ \A x : ~Parked(x)'
      /\ \A x : Acking(x)' <=> Acking(x)
      /\ \A x : Carried(x)' <=> Carried(x)
      /\ \A x : PlacedFor(x)' = PlacedFor(x)
  BY <1>1, <1>3 DEF OnHeap, Waiting, Parked, Acking, Carried, PlacedFor
<1>5. Types'
  <2>1. \A pe \in heap' : pe.eval \in issued
    BY <1>0, <1>1, <1>3 DEF Types, Parked
  <2>2. blocked' \in Seq(issued)
    BY <1>1
  <2> QED BY <1>0, <1>1, <2>1, <2>2 DEF Types
<1>6. OneWorker'
  BY <1>0, <1>1 DEF OneWorker
<1>7. OnePlace'
  <2>1. \A pe, qe \in heap' : pe.eval = qe.eval => pe = qe
    <3> SUFFICES ASSUME NEW pe \in heap', NEW qe \in heap', pe.eval = qe.eval PROVE pe = qe
      OBVIOUS
    <3>1. ASSUME NEW x \in heap PROVE x.eval \in issued /\ OnHeap(x.eval) /\ ~Parked(x.eval)
      BY <1>0 DEF OnePlace, OnHeap, Types
    <3>2. CASE pe \in heap /\ qe \in heap
      BY <1>0, <3>2 DEF OnePlace
    <3>3. CASE pe \in new /\ qe \in new
      BY <1>3, <3>3
    <3> QED BY <1>1, <1>3, <3>1, <3>2, <3>3
  <2>2. /\ \A d \in Caller : cpc'[d] = "enqueue" <=> ceval'[d] # NoEval
        /\ DOMAIN blocked' = {}
    BY <1>0, <1>1 DEF OnePlace, Types
  <2> QED BY <1>0, <1>1, <1>4, <2>1, <2>2 DEF OnePlace, Waiting
<1>8. Remembered'
  BY <1>0, <1>1, <1>4 DEF Remembered, Safe, Waiting
<1> QED BY <1>5, <1>6, <1>7, <1>8 DEF ServerInv

\* What a delivery does to the places evaluations are in.
LEMMA DequeueFacts ==
  ASSUME ServerInv, NEW pe \in heap, Dequeue(pe), UNCHANGED <<allocs, ceval>>
  PROVE  /\ pe.eval \in issued /\ heap' \subseteq heap /\ blocked' = blocked
         /\ DOMAIN in_flight' = DOMAIN in_flight \cup {pe.eval}
         /\ \A id \in DOMAIN in_flight' : in_flight'[id].eval = id
         /\ \A x : OnHeap(x)' <=> OnHeap(x) /\ x # pe.eval
         /\ \A x : Parked(x)' <=> Parked(x)
         /\ \A x : Carried(x)' <=> Carried(x)
         /\ \A x : PlacedFor(x)' = PlacedFor(x)
         /\ ~Parked(pe.eval) /\ OnHeap(pe.eval)
<1>0. Types /\ OnePlace
  BY DEF ServerInv
<1>1. /\ pe.eval \in issued /\ heap' = heap \ {pe} /\ blocked' = blocked
      /\ DOMAIN in_flight' = DOMAIN in_flight \cup {pe.eval}
  BY <1>0 DEF Dequeue, Types
<1>2. \A id \in DOMAIN in_flight' : in_flight'[id].eval = id
  BY <1>0 DEF Dequeue, Types
<1>3. OnHeap(pe.eval) /\ ~Parked(pe.eval)
  BY <1>0, <1>1 DEF OnePlace, OnHeap
<1>4. \A x : OnHeap(x)' <=> OnHeap(x) /\ x # pe.eval
  BY <1>0, <1>1 DEF OnePlace, OnHeap
<1>5. \A x : (Parked(x)' <=> Parked(x)) /\ (Carried(x)' <=> Carried(x)) /\ PlacedFor(x)' = PlacedFor(x)
  BY <1>1 DEF Parked, Carried, PlacedFor
<1> QED BY <1>1, <1>2, <1>3, <1>4, <1>5

\* EvalDequeue: the evaluation goes to a remote caller.
LEMMA EvalDequeueHolds ==
  ASSUME ServerInv, NEW c \in Caller, EvalDequeue(c)
  PROVE  ServerInv'
<1>0. Types /\ OneWorker /\ OnePlace /\ Remembered
  BY DEF ServerInv
<1>1. PICK pe \in heap : Dequeue(pe) /\ holder' = With(holder, pe.eval, c)
  BY DEF EvalDequeue
<1>2. UNCHANGED <<allocs, issued, requests, cpc, ceval, status, wpc, weval, wplan, moot>>
  BY DEF EvalDequeue, storeVars, lifeVars, workerVars
<1>3. /\ pe.eval \in issued /\ heap' \subseteq heap /\ blocked' = blocked
      /\ DOMAIN in_flight' = DOMAIN in_flight \cup {pe.eval}
      /\ \A id \in DOMAIN in_flight' : in_flight'[id].eval = id
      /\ \A x : OnHeap(x)' <=> OnHeap(x) /\ x # pe.eval
      /\ \A x : Parked(x)' <=> Parked(x)
      /\ \A x : Carried(x)' <=> Carried(x)
      /\ \A x : PlacedFor(x)' = PlacedFor(x)
      /\ ~Parked(pe.eval) /\ OnHeap(pe.eval)
  BY <1>1, <1>2, DequeueFacts
<1>4. /\ \A x : Waiting(x)' <=> Waiting(x) /\ x # pe.eval
      /\ \A x : Acking(x)' <=> Acking(x)
      /\ Waiting(pe.eval)
  BY <1>2, <1>3 DEF Waiting, Acking
<1>5. Types'
  BY <1>0, <1>2, <1>3 DEF Types
<1>6. OneWorker'
  BY <1>0, <1>2 DEF OneWorker
<1>7. OnePlace'
  <2>1. \A x \in issued : Carried(x) => x # pe.eval
    BY <1>0, <1>4 DEF OnePlace
  <2>2. \A x \in DOMAIN in_flight' : Waiting(x)' => Acking(x)'
    BY <1>0, <1>3, <1>4 DEF OnePlace
  <2>3. \A id \in DOMAIN allocs : id[1] # pe.eval
    BY <1>0, <1>4 DEF OnePlace
  <2> QED BY <1>0, <1>2, <1>3, <1>4, <2>1, <2>2, <2>3 DEF OnePlace
<1>8. Remembered'
  <2>1. pe.eval \in DOMAIN holder' /\ holder'[pe.eval] \in Caller
    BY <1>1 DEF With
  <2>2. \A x \in DOMAIN holder : x # pe.eval => x \in DOMAIN holder' /\ holder'[x] = holder[x]
    BY <1>1 DEF With
  <2> QED BY <1>0, <1>2, <1>3, <1>4, <2>1, <2>2 DEF Remembered, Safe
<1> QED BY <1>5, <1>6, <1>7, <1>8 DEF ServerInv

----------------------------------------------------------------------------
(* The worker.                                                             *)

\* The steps that only move a worker that holds nothing.
LEMMA IdleStepHolds ==
  ASSUME ServerInv, NEW w \in Worker, Poll(w) \/ Top(w) \/ GoToSleep(w)
  PROVE  ServerInv'
<1>0. Types /\ OneWorker /\ OnePlace /\ Remembered
  BY DEF ServerInv
<1>1. /\ wpc[w] \in {"sleep", "top", "dequeue"}
      /\ \E l \in {"done", "top", "reap", "sleep"} : wpc' = [wpc EXCEPT ![w] = l]
      /\ UNCHANGED <<heap, in_flight, blocked, allocs, issued, requests, cpc, ceval, status,
                     weval, wplan, moot, holder>>
  BY DEF Poll, Top, GoToSleep, Goto, queueVars, storeVars, callerVars, lifeVars, traceVars
<1>2. /\ wpc'[w] \in {"done", "top", "reap", "sleep"}
      /\ \A v \in Worker : v # w => wpc'[v] = wpc[v]
  BY <1>0, <1>1 DEF Types
<1>3. /\ \A x : Acking(x)' <=> Acking(x)
      /\ \A x : Waiting(x)' <=> Waiting(x)
      /\ \A x : OnHeap(x)' <=> OnHeap(x)
      /\ \A x : Parked(x)' <=> Parked(x)
      /\ \A x : Carried(x)' <=> Carried(x)
      /\ \A x : PlacedFor(x)' = PlacedFor(x)
  BY <1>1, <1>2 DEF Waiting, OnHeap, Parked, Acking, Carried, PlacedFor
<1>4. Types'
  BY <1>0, <1>1 DEF Types
<1>5. OneWorker'
  BY <1>0, <1>1, <1>2 DEF OneWorker
<1>6. OnePlace'
  <2>1. \A v \in Worker :
          /\ wpc'[v] \in Working \cup {"ack"} => weval'[v] \in issued'
          /\ wpc'[v] \in Working => weval'[v] \in DOMAIN in_flight'
    BY <1>0, <1>1, <1>2 DEF OnePlace
  <2> QED BY <1>0, <1>1, <1>3, <2>1 DEF OnePlace
<1>7. Remembered'
  BY <1>0, <1>1, <1>2, <1>3 DEF Remembered, Safe
<1> QED BY <1>4, <1>5, <1>6, <1>7 DEF ServerInv

\* reap_expired: what the worker puts back was with a remote caller, since the
\* worker itself holds nothing.
LEMMA ReapHolds ==
  ASSUME ServerInv, NEW w \in Worker, Reap(w)
  PROVE  ServerInv'
<1>0. Types /\ OneWorker /\ OnePlace /\ Remembered
  BY DEF ServerInv
<1>1. /\ wpc[w] = "reap" /\ wpc' = [wpc EXCEPT ![w] = "dequeue"]
      /\ UNCHANGED <<blocked, allocs, issued, requests, cpc, ceval, status,
                     weval, wplan, moot, holder>>
  BY DEF Reap, ReapExpired, Goto, queueVars, storeVars, callerVars, lifeVars, traceVars
<1>2. \A v \in Worker : wpc[v] \notin Working \cup {"ack"} /\ wpc'[v] \notin Working \cup {"ack"}
  BY <1>0, <1>1 DEF OneWorker, Types
<1> DEFINE new == heap' \ heap
<1>3. /\ heap' = heap \cup new
      /\ \A pe \in new : pe.eval \in DOMAIN in_flight /\ pe.eval \notin DOMAIN in_flight'
      /\ \A pe, qe \in new : pe.eval = qe.eval => pe = qe
      /\ DOMAIN in_flight' \subseteq DOMAIN in_flight
      /\ \A id \in DOMAIN in_flight' : in_flight'[id] = in_flight[id]
  <2>1. CASE UNCHANGED queueVars
    BY <2>1 DEF queueVars
  <2>2. CASE \E order \in Orders(Retriable(Expired(VISIBILITY))) : ReapExpired(VISIBILITY, order)
    <3> DEFINE back == Retriable(Expired(VISIBILITY))
    <3>0. PICK order : ReapExpired(VISIBILITY, order)
      BY <2>2
    <3> DEFINE put == {Requeued(in_flight[id], order[id]) : id \in back}
    <3>1. back \subseteq Expired(VISIBILITY) /\ Expired(VISIBILITY) \subseteq DOMAIN in_flight
      BY DEF Retriable, Expired
    <3>2. \A id \in back : Requeued(in_flight[id], order[id]).eval = id
      BY <1>0, <3>1 DEF Requeued, Types
    <3>3. heap' = heap \cup put /\ in_flight' = Without(Expired(VISIBILITY))
      BY <3>0 DEF ReapExpired
    <3>4. \A pe \in put : \E id \in back : pe.eval = id /\ pe = Requeued(in_flight[id], order[id])
      BY <3>2
    <3> HIDE DEF back, put
    <3>5. \A pe \in put : pe.eval \in back
      BY <3>4
    <3>6. \A pe, qe \in put : pe.eval = qe.eval => pe = qe
      BY <3>4
    <3>7. /\ DOMAIN in_flight' = DOMAIN in_flight \ Expired(VISIBILITY)
          /\ \A id \in DOMAIN in_flight' : in_flight'[id] = in_flight[id]
      BY <3>3 DEF Without
    <3>8. heap' = heap \cup new /\ new \subseteq put
      BY <3>3
    <3> QED BY <3>1, <3>5, <3>6, <3>7, <3>8
  <2> QED BY <2>1, <2>2 DEF Reap
<1> HIDE DEF new
<1>4. /\ \A x : ~Acking(x) /\ ~Acking(x)'
      /\ \A x : OnHeap(x)' <=> OnHeap(x) \/ \E pe \in new : pe.eval = x
      /\ \A x : Parked(x)' <=> Parked(x)
      /\ \A x : Carried(x)' <=> Carried(x)
      /\ \A x : PlacedFor(x)' = PlacedFor(x)
  BY <1>1, <1>2, <1>3 DEF OnHeap, Parked, Acking, Carried, PlacedFor
<1>5. \A x \in DOMAIN in_flight : ~Waiting(x) /\ PlacedFor(x) = {} /\ x \in issued /\ ~Carried(x)
  BY <1>0, <1>4 DEF OnePlace, Types, PlacedFor
<1>6. Types'
  <2>1. \A pe \in heap' : pe.eval \in issued
    BY <1>0, <1>3, <1>5 DEF Types
  <2> QED BY <1>0, <1>1, <1>3, <2>1 DEF Types
<1>7. OneWorker'
  BY <1>0, <1>1 DEF OneWorker, Types
<1>8. OnePlace'
  <2>1. \A pe, qe \in heap' : pe.eval = qe.eval => pe = qe
    BY <1>0, <1>3, <1>5 DEF OnePlace, Waiting, OnHeap
  <2>2. \A x \in issued : ~(OnHeap(x)' /\ Parked(x)')
    BY <1>0, <1>3, <1>4, <1>5 DEF OnePlace, Waiting
  <2>3. \A x \in issued : Carried(x)' =>
          ~Waiting(x)' /\ x \notin DOMAIN in_flight' /\ PlacedFor(x)' = {}
    BY <1>0, <1>3, <1>4, <1>5 DEF OnePlace, Waiting
  <2>4. \A x \in DOMAIN in_flight' : ~Waiting(x)'
    BY <1>3, <1>4, <1>5 DEF Waiting
  <2>5. \A id \in DOMAIN allocs : ~Waiting(id[1])' /\ id[1] \notin DOMAIN in_flight'
    BY <1>0, <1>3, <1>4, <1>5 DEF OnePlace, Waiting, PlacedFor
  <2> QED BY <1>0, <1>1, <1>2, <2>1, <2>2, <2>3, <2>4, <2>5 DEF OnePlace
<1>9. Remembered'
  BY <1>0, <1>1, <1>2, <1>4 DEF Remembered, Safe, Waiting
<1> QED BY <1>6, <1>7, <1>8, <1>9 DEF ServerInv

LEMMA TakeEvalHolds ==
  ASSUME ServerInv, NEW w \in Worker, TakeEval(w)
  PROVE  ServerInv'
<1>0. Types /\ OneWorker /\ OnePlace /\ Remembered
  BY DEF ServerInv
<1>1. PICK pe \in heap :
        /\ Dequeue(pe)
        /\ weval' = [weval EXCEPT ![w] = pe.eval]
        /\ holder' = With(holder, pe.eval, w)
  BY DEF TakeEval
<1>2. /\ wpc[w] = "dequeue" /\ wpc' = [wpc EXCEPT ![w] = "plan"]
      /\ UNCHANGED <<allocs, issued, requests, cpc, ceval, status, wplan, moot>>
  BY DEF TakeEval, Goto, storeVars, callerVars, lifeVars
<1>3. /\ pe.eval \in issued /\ heap' \subseteq heap /\ blocked' = blocked
      /\ DOMAIN in_flight' = DOMAIN in_flight \cup {pe.eval}
      /\ \A id \in DOMAIN in_flight' : in_flight'[id].eval = id
      /\ \A x : OnHeap(x)' <=> OnHeap(x) /\ x # pe.eval
      /\ \A x : Parked(x)' <=> Parked(x)
      /\ \A x : Carried(x)' <=> Carried(x)
      /\ \A x : PlacedFor(x)' = PlacedFor(x)
      /\ ~Parked(pe.eval) /\ OnHeap(pe.eval)
  BY <1>1, <1>2, DequeueFacts
<1>4. /\ wpc'[w] = "plan" /\ weval'[w] = pe.eval
      /\ \A v \in Worker : v # w => wpc'[v] = wpc[v] /\ weval'[v] = weval[v]
  BY <1>0, <1>1, <1>2 DEF Types
<1>5. /\ \A x : Waiting(x)' <=> Waiting(x) /\ x # pe.eval
      /\ \A x : Acking(x)' <=> Acking(x)
      /\ Waiting(pe.eval)
  BY <1>2, <1>3, <1>4 DEF Waiting, Acking
<1>6. Types'
  BY <1>0, <1>1, <1>2, <1>3 DEF Types
<1>7. OneWorker'
  BY <1>0, <1>2, <1>4 DEF OneWorker
<1>8. OnePlace'
  <2>1. \A x \in issued : Carried(x) => x # pe.eval
    BY <1>0, <1>5 DEF OnePlace
  <2>2. \A x \in DOMAIN in_flight' : Waiting(x)' => Acking(x)'
    BY <1>0, <1>3, <1>5 DEF OnePlace
  <2>3. \A id \in DOMAIN allocs : id[1] # pe.eval
    BY <1>0, <1>5 DEF OnePlace
  <2>4. \A v \in Worker :
          /\ wpc'[v] \in Working \cup {"ack"} => weval'[v] \in issued'
          /\ wpc'[v] \in Working => weval'[v] \in DOMAIN in_flight'
    BY <1>0, <1>2, <1>3, <1>4 DEF OnePlace
  <2> QED BY <1>0, <1>2, <1>3, <1>5, <2>1, <2>2, <2>3, <2>4 DEF OnePlace
<1>9. Remembered'
  <2>1. \A x \in DOMAIN holder : x # pe.eval => x \in DOMAIN holder' /\ holder'[x] = holder[x]
    BY <1>1 DEF With
  <2>2. \A x \in issued : x # pe.eval /\ Safe(x) => Safe(x)'
    BY <1>2, <1>3, <1>5, <2>1 DEF Safe
  <2> QED BY <1>0, <1>2, <1>4, <2>2 DEF Remembered
<1> QED BY <1>6, <1>7, <1>8, <1>9 DEF ServerInv

\* process_eval only fills in the worker's plan.
LEMMA PlanHolds ==
  ASSUME ServerInv, NEW w \in Worker, Plan(w)
  PROVE  ServerInv'
<1>0. Types /\ OneWorker /\ OnePlace /\ Remembered
  BY DEF ServerInv
<1>1. /\ wpc[w] = "plan" /\ wpc' = [wpc EXCEPT ![w] = "commit"]
      /\ DOMAIN wplan' = DOMAIN wplan
      /\ UNCHANGED <<heap, in_flight, blocked, allocs, issued, requests, cpc, ceval, status,
                     weval, moot, holder>>
  BY DEF Plan, Goto, queueVars, storeVars, callerVars, lifeVars, traceVars
<1>2. /\ wpc'[w] = "commit"
      /\ \A v \in Worker : v # w => wpc'[v] = wpc[v]
  BY <1>0, <1>1 DEF Types
<1>3. /\ \A x : Acking(x)' <=> Acking(x)
      /\ \A x : Waiting(x)' <=> Waiting(x)
      /\ \A x : OnHeap(x)' <=> OnHeap(x)
      /\ \A x : Parked(x)' <=> Parked(x)
      /\ \A x : Carried(x)' <=> Carried(x)
      /\ \A x : PlacedFor(x)' = PlacedFor(x)
  BY <1>1, <1>2 DEF Waiting, OnHeap, Parked, Acking, Carried, PlacedFor
<1>4. Types'
  BY <1>0, <1>1 DEF Types
<1>5. OneWorker'
  BY <1>0, <1>1, <1>2 DEF OneWorker
<1>6. OnePlace'
  <2>1. \A v \in Worker :
          /\ wpc'[v] \in Working \cup {"ack"} => weval'[v] \in issued'
          /\ wpc'[v] \in Working => weval'[v] \in DOMAIN in_flight'
    BY <1>0, <1>1, <1>2 DEF OnePlace
  <2> QED BY <1>0, <1>1, <1>3, <2>1 DEF OnePlace
<1>7. Remembered'
  BY <1>0, <1>1, <1>2, <1>3 DEF Remembered, Safe
<1> QED BY <1>4, <1>5, <1>6, <1>7 DEF ServerInv

\* While the worker works on an evaluation, the evaluation is nowhere else
\* and has no placements: nobody else plans it, and it is planned once.
LEMMA WorkedOnAlone ==
  ASSUME ServerInv, NEW w \in Worker, wpc[w] \in Working
  PROVE  /\ weval[w] \in issued /\ weval[w] \in DOMAIN in_flight
         /\ \A x : ~Acking(x)
         /\ PlacedFor(weval[w]) = {} /\ ~Waiting(weval[w]) /\ ~Carried(weval[w])
         /\ \A v \in Worker : v # w => wpc[v] = "unborn"
<1>0. OneWorker /\ OnePlace
  BY DEF ServerInv
<1>1. weval[w] \in issued /\ weval[w] \in DOMAIN in_flight
  BY <1>0 DEF OnePlace
<1>2. (\A x : ~Acking(x)) /\ \A v \in Worker : v # w => wpc[v] = "unborn"
  BY <1>0 DEF OneWorker, Acking
<1>3. PlacedFor(weval[w]) = {}
  BY <1>0, <1>1, <1>2 DEF OnePlace, PlacedFor
<1> QED BY <1>0, <1>1, <1>2, <1>3 DEF OnePlace

\* What a commit adds, all of it for the evaluation the worker holds.
LEMMA CommitFacts ==
  ASSUME ServerInv, NEW w \in Worker, Commit(w)
  PROVE  /\ wpc[w] = "commit" /\ PlacedFor(weval[w]) = {}
         /\ \A id \in DOMAIN allocs : id \in DOMAIN allocs' /\ allocs'[id] = allocs[id]
         /\ \A id \in DOMAIN allocs' : id \in DOMAIN allocs \/ id[1] = weval[w]
         /\ DOMAIN wplan[w] = {} => DOMAIN allocs' = DOMAIN allocs
         /\ DOMAIN wplan[w] # {} => PlacedFor(weval[w])' # {}
<1>1. wpc[w] = "commit" /\ PlacedFor(weval[w]) = {}
  BY WorkedOnAlone DEF Commit
<1>2. /\ DOMAIN allocs' = DOMAIN allocs \cup AllocIds(w)
      /\ \A id \in DOMAIN allocs : id \notin AllocIds(w) => allocs'[id] = allocs[id]
      /\ weval' = weval
  BY DEF Commit
<1>3. \A id \in AllocIds(w) : id[1] = weval[w]
  BY DEF AllocIds
<1>4. \A id \in DOMAIN allocs : id \notin AllocIds(w)
  BY <1>1, <1>3 DEF PlacedFor
<1>5. DOMAIN wplan[w] = {} => AllocIds(w) = {}
  BY DEF AllocIds
<1>6. ASSUME NEW i \in DOMAIN wplan[w] PROVE PlacedFor(weval[w])' # {}
  <2>1. <<weval[w], i>> \in AllocIds(w)
    BY DEF AllocIds
  <2> QED BY <1>2, <1>3, <2>1 DEF PlacedFor
<1> QED BY <1>1, <1>2, <1>3, <1>4, <1>5, <1>6

LEMMA CommitHolds ==
  ASSUME ServerInv, NEW w \in Worker, Commit(w)
  PROVE  ServerInv'
<1> DEFINE e == weval[w]
<1>0. Types /\ OneWorker /\ OnePlace /\ Remembered
  BY DEF ServerInv
<1>1. /\ wpc[w] = "commit" /\ PlacedFor(e) = {}
      /\ \A id \in DOMAIN allocs : id \in DOMAIN allocs'
      /\ \A id \in DOMAIN allocs' : id \in DOMAIN allocs \/ id[1] = e
      /\ DOMAIN wplan[w] = {} => DOMAIN allocs' = DOMAIN allocs
      /\ DOMAIN wplan[w] # {} => PlacedFor(e)' # {}
  BY CommitFacts, WorkedOnAlone DEF Commit
<1>2. /\ wpc' = [wpc EXCEPT ![w] = IF DOMAIN wplan[w] = {} THEN "check" ELSE "ack"]
      /\ UNCHANGED <<heap, in_flight, blocked, issued, requests, cpc, ceval, status,
                     weval, wplan, moot, holder>>
  BY DEF Commit, Goto, queueVars, callerVars, lifeVars, traceVars
<1>3. /\ wpc'[w] = (IF DOMAIN wplan[w] = {} THEN "check" ELSE "ack")
      /\ \A v \in Worker : v # w => wpc'[v] = wpc[v]
  BY <1>0, <1>2 DEF Types
<1>4. /\ e \in issued /\ e \in DOMAIN in_flight /\ \A x : ~Acking(x)
      /\ ~Waiting(e) /\ ~Carried(e)
      /\ \A v \in Worker : v # w => wpc[v] = "unborn"
  BY <1>1, WorkedOnAlone
<1>5. /\ \A x : Acking(x)' <=> x = e /\ DOMAIN wplan[w] # {}
      /\ \A x : Waiting(x)' <=> Waiting(x)
      /\ \A x : OnHeap(x)' <=> OnHeap(x)
      /\ \A x : Parked(x)' <=> Parked(x)
      /\ \A x : Carried(x)' <=> Carried(x)
  BY <1>2, <1>3, <1>4 DEF Waiting, OnHeap, Parked, Acking, Carried
<1>6. /\ \A x : x # e => PlacedFor(x)' = PlacedFor(x)
      /\ \A x : PlacedFor(x) # {} => PlacedFor(x)' # {}
  BY <1>1 DEF PlacedFor
<1> HIDE DEF e
<1>7. Types'
  <2>1. \A id \in DOMAIN allocs' : id[1] \in issued
    BY <1>0, <1>1, <1>4 DEF Types
  <2> QED BY <1>0, <1>2, <2>1 DEF Types
<1>8. OneWorker'
  BY <1>0, <1>1, <1>2, <1>3 DEF OneWorker
<1>9. OnePlace'
  <2>1. \A x \in issued : Carried(x)' =>
          ~Waiting(x)' /\ x \notin DOMAIN in_flight' /\ PlacedFor(x)' = {}
    BY <1>0, <1>2, <1>4, <1>5, <1>6 DEF OnePlace
  <2>2. \A x \in DOMAIN in_flight' : ~Waiting(x)'
    BY <1>0, <1>2, <1>4, <1>5 DEF OnePlace
  <2>3. \A id \in DOMAIN allocs' :
          ~Waiting(id[1])' /\ (id[1] \in DOMAIN in_flight' => Acking(id[1])')
    <3> TAKE id \in DOMAIN allocs'
    <3>1. CASE id \in DOMAIN allocs
      BY <1>0, <1>2, <1>4, <1>5, <3>1 DEF OnePlace
    <3>2. CASE id \notin DOMAIN allocs
      BY <1>1, <1>4, <1>5, <3>2
    <3> QED BY <3>1, <3>2
  <2>4. \A v \in Worker :
          /\ wpc'[v] \in Working \cup {"ack"} => weval'[v] \in issued'
          /\ wpc'[v] \in Working => weval'[v] \in DOMAIN in_flight'
    BY <1>2, <1>3, <1>4 DEF e
  <2> QED BY <1>0, <1>2, <1>5, <2>1, <2>2, <2>3, <2>4 DEF OnePlace
<1>10. Remembered'
  <2>1. \A x \in issued : Safe(x) => Safe(x)'
    BY <1>2, <1>5, <1>6 DEF Safe
  <2>2. CASE DOMAIN wplan[w] = {}
    BY <1>0, <1>1, <1>2, <1>3, <1>4, <2>1, <2>2 DEF Remembered
  <2>3. CASE DOMAIN wplan[w] # {}
    <3>1. Safe(e)'
      BY <1>1, <2>3 DEF Safe
    <3> QED BY <1>0, <1>2, <1>4, <2>1, <3>1 DEF Remembered, e
  <2> QED BY <2>2, <2>3
<1> QED BY <1>7, <1>8, <1>9, <1>10 DEF ServerInv

\* desired_count: what is not parked now was found moot.
LEMMA CheckHolds ==
  ASSUME ServerInv, NEW w \in Worker, Check(w)
  PROVE  ServerInv'
<1> DEFINE e == weval[w]
<1>0. Types /\ OneWorker /\ OnePlace /\ Remembered
  BY DEF ServerInv
<1>1. /\ wpc[w] = "check" /\ moot \subseteq moot'
      /\ \/ wpc' = [wpc EXCEPT ![w] = "block"]
         \/ wpc' = [wpc EXCEPT ![w] = "ack"] /\ e \in moot'
      /\ UNCHANGED <<heap, in_flight, blocked, allocs, issued, requests, cpc, ceval, status,
                     weval, wplan, holder>>
  BY DEF Check, Goto, queueVars, storeVars, callerVars, lifeVars
<1>2. /\ \/ wpc'[w] = "block"
         \/ wpc'[w] = "ack" /\ e \in moot'
      /\ \A v \in Worker : v # w => wpc'[v] = wpc[v]
  BY <1>0, <1>1 DEF Types
<1>3. /\ e \in issued /\ e \in DOMAIN in_flight /\ \A x : ~Acking(x)
      /\ \A v \in Worker : v # w => wpc[v] = "unborn"
  BY <1>1, WorkedOnAlone
<1>4. /\ \A x : Waiting(x)' <=> Waiting(x)
      /\ \A x : OnHeap(x)' <=> OnHeap(x)
      /\ \A x : Parked(x)' <=> Parked(x)
      /\ \A x : Carried(x)' <=> Carried(x)
      /\ \A x : PlacedFor(x)' = PlacedFor(x)
  BY <1>1 DEF Waiting, OnHeap, Parked, Carried, PlacedFor
<1>5. Types'
  BY <1>0, <1>1 DEF Types
<1>6. OneWorker'
  BY <1>0, <1>1, <1>2 DEF OneWorker
<1>7. OnePlace'
  <2>1. \A v \in Worker :
          /\ wpc'[v] \in Working \cup {"ack"} => weval'[v] \in issued'
          /\ wpc'[v] \in Working => weval'[v] \in DOMAIN in_flight'
    BY <1>0, <1>1, <1>2, <1>3 DEF OnePlace
  <2> QED BY <1>0, <1>1, <1>3, <1>4, <2>1 DEF OnePlace
<1>8. Remembered'
  <2>1. \A x \in issued : Safe(x) => Safe(x)'
    BY <1>1, <1>4 DEF Safe
  <2>2. CASE wpc'[w] = "block"
    BY <1>0, <1>1, <1>2, <2>1, <2>2 DEF Remembered
  <2>3. CASE e \in moot'
    <3>1. Safe(e)'
      BY <1>1, <2>3 DEF Safe
    <3> QED BY <1>0, <1>1, <1>3, <2>1, <3>1 DEF Remembered
  <2> QED BY <1>2, <2>2, <2>3
<1> QED BY <1>5, <1>6, <1>7, <1>8 DEF ServerInv

\* block() comes before the ack: the evaluation is parked while it is still
\* counted as delivered, and nobody reaps in between.
LEMMA BlockEvalHolds ==
  ASSUME ServerInv, NEW w \in Worker, BlockEval(w)
  PROVE  ServerInv'
<1> DEFINE e == weval[w]
<1>0. Types /\ OneWorker /\ OnePlace /\ Remembered
  BY DEF ServerInv
<1>1. /\ wpc[w] = "block" /\ wpc' = [wpc EXCEPT ![w] = "ack"]
      /\ blocked' = Append(blocked, e)
      /\ UNCHANGED <<heap, in_flight, allocs, issued, requests, cpc, ceval, status,
                     weval, wplan, moot, holder>>
  BY DEF BlockEval, Block, Goto, storeVars, callerVars, lifeVars, traceVars
<1>2. wpc'[w] = "ack" /\ \A v \in Worker : v # w => wpc'[v] = wpc[v]
  BY <1>0, <1>1 DEF Types
<1>3. /\ e \in issued /\ e \in DOMAIN in_flight /\ \A x : ~Acking(x)
      /\ PlacedFor(e) = {} /\ ~Waiting(e) /\ ~Carried(e)
      /\ \A v \in Worker : v # w => wpc[v] = "unborn"
  BY <1>1, WorkedOnAlone
<1>4. /\ blocked' \in Seq(issued)
      /\ DOMAIN blocked' = DOMAIN blocked \cup {Len(blocked) + 1}
      /\ Len(blocked) + 1 \notin DOMAIN blocked
      /\ blocked'[Len(blocked) + 1] = e
      /\ \A i \in DOMAIN blocked : blocked'[i] = blocked[i]
  BY <1>0, <1>1, <1>3 DEF Types
<1>5. /\ \A x : Acking(x)' <=> x = e
      /\ \A x : OnHeap(x)' <=> OnHeap(x)
      /\ \A x : Carried(x)' <=> Carried(x)
      /\ \A x : PlacedFor(x)' = PlacedFor(x)
  BY <1>1, <1>2, <1>3 DEF OnHeap, Acking, Carried, PlacedFor
<1>6. \A x : Parked(x)' <=> Parked(x) \/ x = e
  BY <1>4 DEF Parked
<1> HIDE DEF e
<1>7. Types'
  BY <1>0, <1>1, <1>4 DEF Types
<1>8. OneWorker'
  BY <1>0, <1>1, <1>2 DEF OneWorker
<1>9. OnePlace'
  <2>1. \A i, j \in DOMAIN blocked' : blocked'[i] = blocked'[j] => i = j
    BY <1>0, <1>3, <1>4 DEF OnePlace, Waiting, Parked
  <2>2. \A x \in issued : ~(OnHeap(x)' /\ Parked(x)')
    BY <1>0, <1>3, <1>5, <1>6 DEF OnePlace, Waiting
  <2>3. \A x \in issued : Carried(x)' =>
          ~Waiting(x)' /\ x \notin DOMAIN in_flight' /\ PlacedFor(x)' = {}
    BY <1>0, <1>1, <1>3, <1>5, <1>6 DEF OnePlace, Waiting
  <2>4. \A x \in DOMAIN in_flight' : Waiting(x)' => Acking(x)'
    BY <1>0, <1>1, <1>3, <1>5, <1>6 DEF OnePlace, Waiting
  <2>5. \A id \in DOMAIN allocs' :
          ~Waiting(id[1])' /\ (id[1] \in DOMAIN in_flight' => Acking(id[1])')
    BY <1>0, <1>1, <1>3, <1>5, <1>6 DEF OnePlace, Waiting, PlacedFor
  <2>6. \A v \in Worker :
          /\ wpc'[v] \in Working \cup {"ack"} => weval'[v] \in issued'
          /\ wpc'[v] \in Working => weval'[v] \in DOMAIN in_flight'
    BY <1>1, <1>2, <1>3 DEF e
  <2> QED BY <1>0, <1>1, <2>1, <2>2, <2>3, <2>4, <2>5, <2>6 DEF OnePlace
<1>10. Remembered'
  <2>1. \A x \in issued : Safe(x) => Safe(x)'
    BY <1>1, <1>5, <1>6 DEF Safe, Waiting
  <2>2. Safe(e)'
    BY <1>1, <1>6 DEF Safe, Waiting, e
  <2> QED BY <1>0, <1>1, <1>3, <2>1, <2>2 DEF Remembered, e
<1> QED BY <1>7, <1>8, <1>9, <1>10 DEF ServerInv

LEMMA AckEvalHolds ==
  ASSUME ServerInv, NEW w \in Worker, AckEval(w)
  PROVE  ServerInv'
<1>0. Types /\ OneWorker /\ OnePlace /\ Remembered
  BY DEF ServerInv
<1>1. /\ wpc[w] = "ack" /\ wpc' = [wpc EXCEPT ![w] = "top"]
      /\ in_flight' = Without({weval[w]})
      /\ weval' = [weval EXCEPT ![w] = NoEval]
      /\ DOMAIN wplan' = DOMAIN wplan
      /\ UNCHANGED <<heap, blocked, allocs, issued, requests, cpc, ceval, status, moot, holder>>
  BY DEF AckEval, Ack, Goto, storeVars, callerVars, lifeVars, traceVars
<1>2. wpc'[w] = "top" /\ \A v \in Worker : v # w => wpc'[v] = wpc[v]
  BY <1>0, <1>1 DEF Types
<1>3. \A v \in Worker : v # w => wpc[v] = "unborn"
  BY <1>0, <1>1 DEF OneWorker
<1>4. /\ DOMAIN in_flight' = DOMAIN in_flight \ {weval[w]}
      /\ \A id \in DOMAIN in_flight' : in_flight'[id] = in_flight[id]
  BY <1>1 DEF Without
<1>5. /\ \A x : Acking(x) => x = weval[w]
      /\ \A x : ~Acking(x)'
      /\ \A x : Waiting(x)' <=> Waiting(x)
      /\ \A x : OnHeap(x)' <=> OnHeap(x)
      /\ \A x : Parked(x)' <=> Parked(x)
      /\ \A x : Carried(x)' <=> Carried(x)
      /\ \A x : PlacedFor(x)' = PlacedFor(x)
  BY <1>1, <1>2, <1>3 DEF Waiting, OnHeap, Parked, Acking, Carried, PlacedFor
<1>6. Types'
  <2>1. weval' \in [Worker -> issued' \cup {NoEval}] /\ DOMAIN wplan' = Worker
    BY <1>0, <1>1 DEF Types
  <2> QED BY <1>0, <1>1, <1>4, <2>1 DEF Types
<1>7. OneWorker'
  BY <1>0, <1>1, <1>2 DEF OneWorker
<1>8. OnePlace'
  <2>1. \A x \in DOMAIN in_flight' : ~Waiting(x)'
    BY <1>0, <1>4, <1>5 DEF OnePlace
  <2>2. \A id \in DOMAIN allocs' : ~Waiting(id[1])' /\ id[1] \notin DOMAIN in_flight'
    BY <1>0, <1>1, <1>4, <1>5 DEF OnePlace
  <2>3. \A v \in Worker : wpc'[v] \notin Working \cup {"ack"}
    BY <1>2, <1>3
  <2> QED BY <1>0, <1>1, <1>4, <1>5, <2>1, <2>2, <2>3, ZenonT(40) DEF OnePlace
<1>9. Remembered'
  <2>1. \A x \in issued : Safe(x) => Safe(x)'
    BY <1>1, <1>5 DEF Safe
  <2> QED BY <1>0, <1>1, <1>3, <2>1 DEF Remembered
<1> QED BY <1>6, <1>7, <1>8, <1>9 DEF ServerInv

----------------------------------------------------------------------------
(* Lifecycle.                                                              *)

\* run() on a server that is not running: there was no worker.
LEMMA RunHolds ==
  ASSUME ServerInv, NEW w \in Worker, Run(w)
  PROVE  ServerInv'
<1>0. Types /\ OneWorker /\ OnePlace /\ Remembered
  BY DEF ServerInv
<1>1. /\ status # "Running" /\ status' = "Running"
      /\ wpc[w] = "unborn" /\ wpc' = [wpc EXCEPT ![w] = "sleep"]
      /\ UNCHANGED <<heap, in_flight, blocked, allocs, issued, requests, cpc, ceval,
                     weval, wplan, moot, holder>>
  BY DEF Run, Goto, queueVars, storeVars, callerVars, traceVars
<1>2. /\ wpc'[w] = "sleep"
      /\ \A v \in Worker : wpc[v] = "unborn" /\ (v # w => wpc'[v] = wpc[v])
  BY <1>0, <1>1 DEF Types, OneWorker
<1>3. /\ \A x : Acking(x)' <=> Acking(x)
      /\ \A x : Waiting(x)' <=> Waiting(x)
      /\ \A x : OnHeap(x)' <=> OnHeap(x)
      /\ \A x : Parked(x)' <=> Parked(x)
      /\ \A x : Carried(x)' <=> Carried(x)
      /\ \A x : PlacedFor(x)' = PlacedFor(x)
  BY <1>1, <1>2 DEF Waiting, OnHeap, Parked, Acking, Carried, PlacedFor
<1>4. Types'
  BY <1>0, <1>1 DEF Types
<1>5. OneWorker'
  BY <1>1, <1>2 DEF OneWorker
<1>6. OnePlace'
  <2>1. \A v \in Worker : wpc'[v] \notin Working \cup {"ack"}
    BY <1>2
  <2> QED BY <1>0, <1>1, <1>3, <2>1 DEF OnePlace
<1>7. Remembered'
  BY <1>0, <1>1, <1>2, <1>3 DEF Remembered, Safe
<1> QED BY <1>4, <1>5, <1>6, <1>7 DEF ServerInv

\* The passage of time only ages deliveries.
LEMMA ElapseHolds ==
  ASSUME ServerInv, Elapse
  PROVE  ServerInv'
<1>0. Types /\ OneWorker /\ OnePlace /\ Remembered
  BY DEF ServerInv
<1>1. UNCHANGED <<heap, blocked, allocs, issued, requests, cpc, ceval, status, wpc,
                  weval, wplan, moot, holder>>
  BY DEF Elapse, Tick, storeVars, callerVars, lifeVars, workerVars, traceVars
<1>2. DOMAIN in_flight' = DOMAIN in_flight
  BY DEF Elapse, Tick
<1>3. \A id \in DOMAIN in_flight : in_flight'[id].eval = in_flight[id].eval
  BY DEF Elapse, Tick
<1>4. Types'
  BY <1>0, <1>1, <1>2, <1>3 DEF Types
<1>5. OneWorker'
  BY <1>0, <1>1 DEF OneWorker
<1>6. OnePlace'
  BY <1>0, <1>1, <1>2 DEF OnePlace, Waiting, OnHeap, Parked, Acking, Carried, PlacedFor
<1>7. Remembered'
  BY <1>0, <1>1, <1>2 DEF Remembered, Safe, Waiting, OnHeap, Parked, Carried, PlacedFor
<1> QED BY <1>4, <1>5, <1>6, <1>7 DEF ServerInv

----------------------------------------------------------------------------
\* Every step of a server that is never stopped keeps the invariant.
LEMMA ServerStepHolds == ServerInv /\ [SteadyNext]_vars => ServerInv'
<1> SUFFICES ASSUME ServerInv, [SteadyNext]_vars PROVE ServerInv'
  OBVIOUS
<1>1. ASSUME NEW c \in Caller, CallerStep(c) PROVE ServerInv'
  BY <1>1, RegisterJobHolds, DeregisterJobHolds, RegisterNodeHolds, EnqueueEvalHolds,
     UnblockHolds, EvalDequeueHolds DEF CallerStep
<1>2. ASSUME NEW w \in Worker, WorkerStep(w) PROVE ServerInv'
  BY <1>2, IdleStepHolds, ReapHolds, TakeEvalHolds, PlanHolds, CommitHolds, CheckHolds,
     BlockEvalHolds, AckEvalHolds DEF WorkerStep
<1>3. ASSUME NEW w \in Worker, Run(w) PROVE ServerInv'
  BY <1>3, RunHolds
<1>4. CASE Elapse
  BY <1>4, ElapseHolds
<1>5. CASE UNCHANGED vars
  BY <1>5 DEF vars, ServerInv, Types, OneWorker, OnePlace, Remembered, Safe, Waiting,
              OnHeap, Parked, Acking, Carried, PlacedFor
<1> QED BY <1>1, <1>2, <1>3, <1>4, <1>5 DEF SteadyNext

\* server.rs and rpc.rs, between the locks: at every moment every evaluation
\* is in one place, what has placements waits nowhere, and there is one
\* worker.
THEOREM ServerInvariantHolds == SteadySpec => []ServerInv
  BY ServerInitHolds, ServerStepHolds, PTL DEF SteadySpec

\* No evaluation the endpoint of rpc.rs issued is lost between the handlers,
\* the queue and the worker, however they interleave.
THEOREM NothingForgottenHolds == SteadySpec => []NothingForgotten
<1>1. ServerInv => NothingForgotten
  <2> SUFFICES ASSUME ServerInv, NEW e \in issued
               PROVE  \/ Carried(e) \/ InQueue(e) \/ PlacedFor(e) # {} \/ e \in moot
                      \/ e \in DOMAIN holder /\ holder[e] \in Caller
    BY DEF NothingForgotten, Carried
  <2>1. CASE Safe(e)
    BY <2>1 DEF Safe, Waiting, OnHeap, Parked, InQueue
  <2>2. ASSUME NEW w \in Worker, wpc[w] \in Working, weval[w] = e PROVE InQueue(e)
    BY <2>2 DEF ServerInv, OnePlace, InQueue
  <2> QED BY <2>1, <2>2 DEF ServerInv, Remembered
<1> QED BY <1>1, ServerInvariantHolds, PTL

\* The worker's second hold of the Raft lock (server.rs) never overwrites an
\* allocation, though ids repeat when an evaluation is planned again.
THEOREM AllocsNeverMoveHolds == SteadySpec => AllocsNeverMove
<1> DEFINE Kept == \A id \in DOMAIN allocs : id \in DOMAIN allocs' /\ allocs'[id] = allocs[id]
<1>1. ServerInv /\ [SteadyNext]_vars => [Kept]_vars
  <2> SUFFICES ASSUME ServerInv, SteadyNext PROVE Kept
    OBVIOUS
  <2>1. ASSUME NEW w \in Worker, Commit(w) PROVE Kept
    BY <2>1, CommitFacts
  <2>2. ASSUME NEW c \in Caller, CallerStep(c) PROVE allocs' = allocs
    BY <2>2 DEF CallerStep, RegisterJob, DeregisterJob, RegisterNode, EnqueueEval, Unblock,
                EvalDequeue, storeVars
  <2>3. ASSUME NEW w \in Worker,
               Poll(w) \/ Top(w) \/ Reap(w) \/ TakeEval(w) \/ GoToSleep(w) \/ Plan(w)
               \/ Check(w) \/ BlockEval(w) \/ AckEval(w) \/ Run(w)
        PROVE  allocs' = allocs
    BY <2>3 DEF Poll, Top, Reap, TakeEval, GoToSleep, Plan, Check, BlockEval, AckEval, Run,
                storeVars
  <2>4. CASE Elapse
    BY <2>4 DEF Elapse, storeVars
  <2> QED BY <2>1, <2>2, <2>3, <2>4 DEF SteadyNext, WorkerStep
<1>2. SteadySpec => []ServerInv /\ [][SteadyNext]_vars
  BY ServerInvariantHolds, PTL DEF SteadySpec
<1> QED BY <1>1, <1>2, PTL DEF AllocsNeverMove

----------------------------------------------------------------------------
(* How many placements an evaluation leaves, with any number of workers    *)
(* and any stops and starts between them.                                  *)

\* What is registered is what JobSpecs and Node allow, and every position is
\* one of the code's.
Registered ==
  /\ DOMAIN nodes \subseteq Node
  /\ DOMAIN jobs \subseteq Job /\ \A j \in DOMAIN jobs : jobs[j] \in JobSpecs[j]
  /\ cpc \in [Caller -> {"idle", "enqueue", "unblock"}] /\ DOMAIN ceval = Caller
  /\ wpc \in [Worker -> {"unborn", "sleep", "top", "reap", "dequeue", "ack", "done"} \cup Working]
  /\ DOMAIN weval = Worker /\ DOMAIN wplan = Worker

\* What is queued, and what handlers and workers carry, was issued.
Known ==
  /\ \A c \in Caller : cpc[c] = "enqueue" => ceval[c] \in issued
  /\ \A w \in Worker : wpc[w] \in Working \cup {"ack"} => weval[w] \in issued
  /\ \A pe \in heap : pe.eval \in issued
  /\ \A id \in DOMAIN in_flight : in_flight[id].eval \in issued
  /\ blocked \in Seq(issued)
  /\ \A id \in DOMAIN allocs : id[1] \in issued

\* The job of e was once registered with k instances or more.
Asks(e, k) == e.job \in Job /\ \E groups \in JobSpecs[e.job] : k <= TotalCount(groups)

\* The placements of e have the first k positions of a plan.
Fills(e, k) == PlacedFor(e) \subseteq {<<e, i>> : i \in 1 .. k}

\* Plans, and what was committed of them, are no longer than the job asked.
Bounded ==
  /\ \A e \in issued : \E k \in Nat : Asks(e, k) /\ Fills(e, k)
  /\ \A w \in Worker : wpc[w] = "commit" =>
       \E k \in Nat : DOMAIN wplan[w] = 1 .. k /\ Asks(weval[w], k)

BoundInv == Registered /\ Known /\ Bounded

LEMMA BoundInit == Init => BoundInv
<1> SUFFICES ASSUME Init PROVE BoundInv
  OBVIOUS
<1>1. Registered
  BY DEF Init, Registered
<1>2. Known
  <2>1. heap = {} /\ DOMAIN in_flight = {} /\ DOMAIN allocs = {} /\ blocked = <<>>
    BY DEF Init, QueueInit
  <2>2. blocked \in Seq(issued)
    BY <2>1
  <2>3. /\ \A c \in Caller : cpc[c] = "idle"
        /\ \A w \in Worker : wpc[w] = "unborn"
    BY DEF Init
  <2> QED BY <2>1, <2>2, <2>3 DEF Known, Working
<1>3. Bounded
  BY DEF Init, Bounded
<1> QED BY <1>1, <1>2, <1>3 DEF BoundInv

\* A job that is registered asks for no less than nothing.
LEMMA TotalIsNat ==
  ASSUME NEW j \in Job, NEW groups \in JobSpecs[j] PROVE TotalCount(groups) \in Nat
<1>1. groups \in Seq(Range(groups)) /\ \A i \in DOMAIN groups : groups[i].count \in Nat
  BY ServerAssumption
<1>2. PICK sum \in [0 .. Len(groups) -> Nat] : TotalCount(groups) = sum[Len(groups)]
  BY <1>1, TotalSteps
<1>3. Len(groups) \in 0 .. Len(groups)
  BY <1>1
<1> QED BY <1>2, <1>3

\* A step that commits nothing and plans nothing.
LEMMA BoundedFrame ==
  ASSUME Bounded, UNCHANGED <<allocs, issued>>,
         \A w \in Worker : wpc'[w] = "commit" =>
           wpc[w] = "commit" /\ wplan'[w] = wplan[w] /\ weval'[w] = weval[w]
  PROVE  Bounded'
<1>1. \A e \in issued' : \E k \in Nat : Asks(e, k)' /\ Fills(e, k)'
  BY DEF Bounded, Asks, Fills, PlacedFor
<1>2. \A w \in Worker : wpc'[w] = "commit" =>
        \E k \in Nat : DOMAIN wplan'[w] = 1 .. k /\ Asks(weval'[w], k)
  BY DEF Bounded
<1> QED BY <1>1, <1>2 DEF Bounded, Asks

\* The first half of JobRegister and JobDeregister.
LEMMA IssueBounded ==
  ASSUME BoundInv, NEW c \in Caller, NEW j \in Job, NEW trigger, NEW e, e = NewEval(j, trigger),
         JobSpecs[j] # {},
         DOMAIN jobs' \subseteq Job, \A x \in DOMAIN jobs' : jobs'[x] \in JobSpecs[x],
         ceval' = [ceval EXCEPT ![c] = e], cpc' = [cpc EXCEPT ![c] = "enqueue"],
         issued' = issued \cup {e},
         UNCHANGED <<queueVars, nodes, allocs, workerVars>>
  PROVE  BoundInv'
<1> USE DEF queueVars, workerVars
<1>0. Registered /\ Known /\ Bounded
  BY DEF BoundInv
<1>1. Registered'
  BY <1>0 DEF Registered
<1>2. Known'
  <2>1. \A d \in Caller : cpc'[d] = "enqueue" => ceval'[d] \in issued'
    BY <1>0 DEF Known, Registered
  <2>2. blocked' \in Seq(issued')
    BY <1>0 DEF Known
  <2> QED BY <1>0, <2>1, <2>2 DEF Known
<1>3. ASSUME NEW x \in issued' PROVE \E k \in Nat : Asks(x, k) /\ Fills(x, k)'
  <2>0. Fills(x, 0)' <=> Fills(x, 0)
    BY DEF Fills, PlacedFor
  <2>1. CASE x \in issued
    BY <1>0, <2>1 DEF Bounded, Fills, PlacedFor
  <2>2. CASE x \notin issued
    <3>1. x = e /\ x.job = j
      BY <2>2 DEF NewEval
    <3>2. PICK groups \in JobSpecs[j] : TRUE
      OBVIOUS
    <3>3. Asks(x, 0)
      BY <3>1, TotalIsNat DEF Asks
    <3>4. PlacedFor(x) = {}
      BY <1>0, <2>2 DEF Known, PlacedFor
    <3>5. Fills(x, 0)'
      BY <2>0, <3>4 DEF Fills
    <3> QED BY <3>3, <3>5
  <2> QED BY <2>1, <2>2
<1>4. Bounded'
  BY <1>0, <1>3 DEF Bounded, Asks
<1> QED BY <1>1, <1>2, <1>4 DEF BoundInv

LEMMA RegisterJobBounded ==
  ASSUME BoundInv, NEW c \in Caller, NEW j \in Job, NEW groups \in JobSpecs[j], RegisterJob(c, j, groups)
  PROVE  BoundInv'
<1>1. /\ jobs' = With(jobs, j, groups)
      /\ ceval' = [ceval EXCEPT ![c] = NewEval(j, "JobRegister")]
      /\ cpc' = [cpc EXCEPT ![c] = "enqueue"] /\ issued' = issued \cup {NewEval(j, "JobRegister")}
      /\ UNCHANGED <<queueVars, nodes, allocs, workerVars>>
  BY DEF RegisterJob
<1>2. DOMAIN jobs' \subseteq Job /\ \A x \in DOMAIN jobs' : jobs'[x] \in JobSpecs[x]
  BY <1>1 DEF BoundInv, Registered, With
<1>3. PICK e : e = NewEval(j, "JobRegister")
  OBVIOUS
<1> QED BY <1>1, <1>2, <1>3, IssueBounded

LEMMA DeregisterJobBounded ==
  ASSUME BoundInv, NEW c \in Caller, NEW j \in Job, DeregisterJob(c, j)
  PROVE  BoundInv'
<1>1. /\ j \in DOMAIN jobs /\ jobs' = [x \in DOMAIN jobs \ {j} |-> jobs[x]]
      /\ ceval' = [ceval EXCEPT ![c] = NewEval(j, "JobDeregister")]
      /\ cpc' = [cpc EXCEPT ![c] = "enqueue"] /\ issued' = issued \cup {NewEval(j, "JobDeregister")}
      /\ UNCHANGED <<queueVars, nodes, allocs, workerVars>>
  BY DEF DeregisterJob
<1>2. /\ DOMAIN jobs' \subseteq Job /\ \A x \in DOMAIN jobs' : jobs'[x] \in JobSpecs[x]
      /\ JobSpecs[j] # {}
  BY <1>1 DEF BoundInv, Registered
<1>3. PICK e : e = NewEval(j, "JobDeregister")
  OBVIOUS
<1> QED BY <1>1, <1>2, <1>3, IssueBounded

\* The handlers' steps at the queue, and the commit of a node.
LEMMA HandlerBounded ==
  ASSUME BoundInv, NEW c \in Caller,
         \/ EnqueueEval(c) \/ Unblock(c) \/ EvalDequeue(c)
         \/ \E n \in Node : \E spec \in NodeSpecs[n] : RegisterNode(c, n, spec)
  PROVE  BoundInv'
<1>0. Registered /\ Known /\ Bounded
  BY DEF BoundInv
<1>1. UNCHANGED <<allocs, issued, jobs, wpc, weval, wplan>>
  BY DEF EnqueueEval, Unblock, EvalDequeue, RegisterNode, storeVars, workerVars
<1>2. DOMAIN nodes' \subseteq Node
  <2>1. CASE EnqueueEval(c) \/ Unblock(c) \/ EvalDequeue(c)
    BY <1>0, <2>1 DEF EnqueueEval, Unblock, EvalDequeue, storeVars, Registered
  <2>2. ASSUME NEW n \in Node, NEW spec, RegisterNode(c, n, spec)
        PROVE  DOMAIN nodes' \subseteq Node
    <3>1. DOMAIN nodes' = DOMAIN nodes \cup {n}
      BY <2>2 DEF RegisterNode, With
    <3> QED BY <1>0, <3>1 DEF Registered
  <2> QED BY <2>1, <2>2
<1>3. /\ cpc' \in [Caller -> {"idle", "enqueue", "unblock"}] /\ DOMAIN ceval' = Caller
      /\ \A d \in Caller : cpc'[d] = "enqueue" => cpc[d] = "enqueue" /\ ceval'[d] = ceval[d]
  BY <1>0 DEF EnqueueEval, Unblock, EvalDequeue, RegisterNode, Registered
<1>4. Registered'
  BY <1>0, <1>1, <1>2, <1>3 DEF Registered
<1>5. /\ \A pe \in heap' : pe.eval \in issued
      /\ \A id \in DOMAIN in_flight' : in_flight'[id].eval \in issued
      /\ blocked' \in Seq(issued)
  <2>1. CASE EnqueueEval(c)
    <3>1. ceval[c] \in issued
      BY <1>0, <2>1 DEF EnqueueEval, Known
    <3> QED BY <1>0, <2>1, <3>1 DEF EnqueueEval, Enqueue, Fresh, Known
  <2>2. CASE Unblock(c)
    <3>1. \A i \in 1 .. Len(blocked) : Fresh(next_seq + i - 1, blocked[i]).eval \in issued
      BY <1>0 DEF Known, Fresh
    <3>2. heap' = heap \cup {Fresh(next_seq + i - 1, blocked[i]) : i \in 1 .. Len(blocked)}
      BY <2>2 DEF Unblock, UnblockAll
    <3>3. in_flight' = in_flight /\ blocked' = <<>>
      BY <2>2 DEF Unblock, UnblockAll
    <3> QED BY <1>0, <3>1, <3>2, <3>3 DEF Known
  <2>3. CASE EvalDequeue(c)
    BY <1>0, <2>3 DEF EvalDequeue, Dequeue, Known
  <2>4. CASE \E n \in Node : \E spec \in NodeSpecs[n] : RegisterNode(c, n, spec)
    BY <1>0, <2>4 DEF RegisterNode, queueVars, Known
  <2> QED BY <2>1, <2>2, <2>3, <2>4
<1>6. Known'
  BY <1>0, <1>1, <1>3, <1>5 DEF Known
<1>7. Bounded'
  BY <1>0, <1>1, BoundedFrame
<1> QED BY <1>4, <1>6, <1>7 DEF BoundInv

\* The worker's steps other than planning and committing.
LEMMA WorkerBounded ==
  ASSUME BoundInv, NEW w \in Worker,
         \/ Poll(w) \/ Top(w) \/ Reap(w) \/ TakeEval(w) \/ GoToSleep(w)
         \/ Check(w) \/ BlockEval(w) \/ AckEval(w) \/ Run(w)
  PROVE  BoundInv'
<1>0. Registered /\ Known /\ Bounded
  BY DEF BoundInv
<1>1. UNCHANGED <<allocs, issued, jobs, nodes, cpc, ceval>>
  BY DEF Poll, Top, Reap, TakeEval, GoToSleep, Check, BlockEval, AckEval, Run, storeVars, callerVars
<1>2. \E l \in {"sleep", "top", "reap", "dequeue", "ack", "done", "plan", "block"} :
        /\ wpc' = [wpc EXCEPT ![w] = l]
        /\ l \in {"ack", "plan", "block"} => weval'[w] \in issued
  <2>1. CASE TakeEval(w)
    BY <1>0, <2>1 DEF TakeEval, Goto, Known, Registered
  <2>2. CASE Check(w) \/ BlockEval(w)
    <3>1. weval[w] \in issued /\ weval' = weval
      BY <1>0, <2>2 DEF Check, BlockEval, Known, Working
    <3> QED BY <2>2, <3>1 DEF Check, BlockEval, Goto
  <2>3. CASE Poll(w) \/ Top(w) \/ Reap(w) \/ GoToSleep(w) \/ AckEval(w) \/ Run(w)
    BY <2>3 DEF Poll, Top, Reap, GoToSleep, AckEval, Run, Goto
  <2> QED BY <2>1, <2>2, <2>3
<1>3. /\ DOMAIN weval' = Worker /\ DOMAIN wplan' = Worker
      /\ \A v \in Worker : v # w => weval'[v] = weval[v] /\ wplan'[v] = wplan[v]
  BY <1>0 DEF Registered, Poll, Top, Reap, TakeEval, GoToSleep, Check, BlockEval, AckEval, Run
<1>4. Registered'
  BY <1>0, <1>1, <1>2, <1>3 DEF Registered, Working
<1>5. /\ \A pe \in heap' : pe.eval \in issued
      /\ \A id \in DOMAIN in_flight' : in_flight'[id].eval \in issued
      /\ blocked' \in Seq(issued)
  <2>1. CASE UNCHANGED queueVars
    BY <1>0, <2>1 DEF queueVars, Known
  <2>2. CASE TakeEval(w)
    BY <1>0, <2>2 DEF TakeEval, Dequeue, Known
  <2>3. CASE AckEval(w)
    BY <1>0, <2>3 DEF AckEval, Ack, Without, Known
  <2>4. CASE BlockEval(w)
    <3>1. weval[w] \in issued
      BY <1>0, <2>4 DEF BlockEval, Known, Working
    <3> QED BY <1>0, <2>4, <3>1 DEF BlockEval, Block, Known
  <2>5. ASSUME NEW order, ReapExpired(VISIBILITY, order)
        PROVE  /\ \A pe \in heap' : pe.eval \in issued
               /\ \A id \in DOMAIN in_flight' : in_flight'[id].eval \in issued
               /\ blocked' \in Seq(issued)
    <3> DEFINE back == Retriable(Expired(VISIBILITY))
    <3>1. back \subseteq DOMAIN in_flight
      BY DEF Retriable, Expired
    <3>2. /\ heap' = heap \cup {Requeued(in_flight[id], order[id]) : id \in back}
          /\ in_flight' = Without(Expired(VISIBILITY)) /\ blocked' = blocked
      BY <2>5 DEF ReapExpired
    <3>3. \A id \in back : Requeued(in_flight[id], order[id]).eval \in issued
      BY <1>0, <3>1 DEF Requeued, Known
    <3> HIDE DEF back
    <3> QED BY <1>0, <3>2, <3>3 DEF Without, Known
  <2> QED BY <2>1, <2>2, <2>3, <2>4, <2>5 DEF Poll, Top, Reap, GoToSleep, Check, Run
<1>6. Known'
  <2>1. \A v \in Worker : wpc'[v] \in Working \cup {"ack"} => weval'[v] \in issued
    BY <1>0, <1>2, <1>3 DEF Known, Registered, Working
  <2> QED BY <1>0, <1>1, <1>5, <2>1 DEF Known
<1>7. \A v \in Worker : wpc'[v] = "commit" =>
        wpc[v] = "commit" /\ wplan'[v] = wplan[v] /\ weval'[v] = weval[v]
  BY <1>0, <1>2, <1>3 DEF Registered
<1>8. Bounded'
  BY <1>0, <1>1, <1>7, BoundedFrame
<1> QED BY <1>4, <1>6, <1>8 DEF BoundInv

\* list_nodes() returns every node that is registered.
LEMMA NodesListed ==
  ASSUME Registered, NEW order \in NodeOrders
  PROVE  order \in Seq(Node) /\ DOMAIN nodes \subseteq {order[i] : i \in DOMAIN order}
<1>1. Cardinality(Node) \in Nat
  BY ServerAssumption, FS_CardinalityType
<1>2. /\ order \in [1 .. Cardinality(Node) -> Node]
      /\ \A n \in Node : \E i \in 1 .. Cardinality(Node) : order[i] = n
  BY DEF NodeOrders, Bijection, Injection, Surjection
<1>3. order \in Seq(Node) /\ DOMAIN order = 1 .. Cardinality(Node)
  BY <1>1, <1>2
<1> QED BY <1>2, <1>3 DEF Registered

\* process_eval plans for no more instances than the job, as it is registered
\* now, has.
LEMMA PlanBounded ==
  ASSUME BoundInv, NEW w \in Worker, Plan(w)
  PROVE  BoundInv'
<1>0. Registered /\ Known /\ Bounded
  BY DEF BoundInv
<1>1. /\ wpc[w] = "plan" /\ wpc' = [wpc EXCEPT ![w] = "commit"]
      /\ UNCHANGED <<queueVars, jobs, nodes, allocs, issued, cpc, ceval, weval>>
  BY DEF Plan, Goto, storeVars, callerVars
<1>2. weval[w] \in issued
  BY <1>0, <1>1 DEF Known, Working
<1>3. /\ DOMAIN wplan' = Worker /\ \A v \in Worker : v # w => wplan'[v] = wplan[v]
  BY <1>0 DEF Plan, Registered
<1>4. \E k \in Nat : DOMAIN wplan'[w] = 1 .. k /\ Asks(weval[w], k)
  <2> DEFINE j == weval[w].job
  <2>1. CASE j \in DOMAIN jobs
    <3>1. PICK order \in NodeOrders :
            wplan' = [wplan EXCEPT ![w] = ProcessEval(jobs[j], nodes, allocs, order)]
      BY <2>1 DEF Plan
    <3> DEFINE plan == ProcessEval(jobs[j], nodes, allocs, order)
               groups == jobs[j]
    <3>2. j \in Job /\ groups \in JobSpecs[j]
      BY <1>0, <2>1 DEF Registered
    <3>3. groups \in Seq(Range(groups)) /\ \A i \in DOMAIN groups : groups[i].count \in Nat
      BY <3>2, ServerAssumption
    <3> HIDE DEF groups
    <3>4. plan \in Seq(Placements(groups, nodes)) /\ Len(plan) <= TotalCount(groups)
      <4>1. plan = ProcessEval(groups, nodes, allocs, order)
        BY DEF groups
      <4> QED BY <1>0, <3>3, <4>1, NodesListed, PlanFacts
    <3>5. wplan'[w] = plan
      BY <1>0, <3>1 DEF Registered
    <3> HIDE DEF plan
    <3>6. Len(plan) \in Nat /\ DOMAIN plan = 1 .. Len(plan)
      BY <3>4
    <3>7. Asks(weval[w], Len(plan))
      BY <3>2, <3>4 DEF Asks
    <3> QED BY <3>5, <3>6, <3>7
  <2>2. CASE j \notin DOMAIN jobs
    <3>1. wplan'[w] = <<>>
      BY <1>0, <2>2 DEF Plan, Registered
    <3>2. DOMAIN wplan'[w] = 1 .. 0
      BY <3>1
    <3>3. PICK k \in Nat : Asks(weval[w], k)
      BY <1>0, <1>2 DEF Bounded
    <3>4. Asks(weval[w], 0)
      BY <3>3, TotalIsNat DEF Asks
    <3> QED BY <3>2, <3>4
  <2> QED BY <2>1, <2>2
<1>5. Registered'
  BY <1>0, <1>1, <1>3 DEF Registered, Working
<1>6. Known'
  BY <1>0, <1>1, <1>2 DEF Known, queueVars, Registered
<1>7. Bounded'
  <2>1. \A e \in issued' : \E k \in Nat : Asks(e, k) /\ Fills(e, k)'
    BY <1>0, <1>1 DEF Bounded, Fills, PlacedFor
  <2>2. \A v \in Worker : wpc'[v] = "commit" =>
          \E k \in Nat : DOMAIN wplan'[v] = 1 .. k /\ Asks(weval'[v], k)
    BY <1>0, <1>1, <1>3, <1>4 DEF Bounded, Registered
  <2> QED BY <2>1, <2>2 DEF Bounded, Asks
<1> QED BY <1>5, <1>6, <1>7 DEF BoundInv

\* apply: the placements have the positions of the plan, so that another plan
\* for the same evaluation overwrites.
LEMMA CommitBounded ==
  ASSUME BoundInv, NEW w \in Worker, Commit(w)
  PROVE  BoundInv'
<1>0. Registered /\ Known /\ Bounded
  BY DEF BoundInv
<1>1. /\ wpc[w] = "commit" /\ \E l \in {"check", "ack"} : wpc' = [wpc EXCEPT ![w] = l]
      /\ DOMAIN allocs' = DOMAIN allocs \cup AllocIds(w)
      /\ UNCHANGED <<queueVars, jobs, nodes, issued, cpc, ceval, weval, wplan>>
  BY DEF Commit, Goto, callerVars
<1>2. weval[w] \in issued
  BY <1>0, <1>1 DEF Known, Working
<1>3. PICK k \in Nat : DOMAIN wplan[w] = 1 .. k /\ Asks(weval[w], k)
  BY <1>0, <1>1 DEF Bounded
<1>4. AllocIds(w) = {<<weval[w], i>> : i \in 1 .. k}
  BY <1>3 DEF AllocIds
<1>5. Registered'
  BY <1>0, <1>1 DEF Registered, Working
<1>6. Known'
  <2>1. \A id \in DOMAIN allocs' : id[1] \in issued
    BY <1>0, <1>1, <1>2, <1>4 DEF Known
  <2>2. \A v \in Worker : wpc'[v] \in Working \cup {"ack"} => weval'[v] \in issued
    BY <1>0, <1>1, <1>2 DEF Known, Registered
  <2> QED BY <1>0, <1>1, <2>1, <2>2 DEF Known, queueVars
<1>7. ASSUME NEW e \in issued PROVE \E m \in Nat : Asks(e, m) /\ Fills(e, m)'
  <2>1. PICK m \in Nat : Asks(e, m) /\ Fills(e, m)
    BY <1>0 DEF Bounded
  <2>2. CASE e # weval[w]
    <3>1. PlacedFor(e)' = PlacedFor(e)
      BY <1>1, <1>4, <2>2 DEF PlacedFor
    <3> QED BY <2>1, <3>1 DEF Fills
  <2>3. CASE e = weval[w]
    <3>1. PlacedFor(e)' = PlacedFor(e) \cup {<<e, i>> : i \in 1 .. k}
      BY <1>1, <1>4, <2>3 DEF PlacedFor
    <3>2. CASE m <= k
      <4>1. Fills(e, k)'
        BY <2>1, <3>1, <3>2 DEF Fills
      <4> QED BY <1>3, <2>3, <4>1
    <3>3. CASE k <= m
      <4>1. Fills(e, m)'
        BY <2>1, <3>1, <3>3 DEF Fills
      <4> QED BY <2>1, <4>1
    <3> QED BY <3>2, <3>3
  <2> QED BY <2>2, <2>3
<1>8. \A v \in Worker : wpc'[v] = "commit" => wpc[v] = "commit"
  BY <1>0, <1>1 DEF Registered
<1>9. Bounded'
  BY <1>0, <1>1, <1>7, <1>8 DEF Bounded, Asks
<1> QED BY <1>5, <1>6, <1>9 DEF BoundInv

LEMMA BoundStep == BoundInv /\ [Next]_vars => BoundInv'
<1> SUFFICES ASSUME BoundInv, [Next]_vars PROVE BoundInv'
  OBVIOUS
<1>0. Registered /\ Known /\ Bounded
  BY DEF BoundInv
<1>1. ASSUME NEW c \in Caller, CallerStep(c) PROVE BoundInv'
  BY <1>1, RegisterJobBounded, DeregisterJobBounded, HandlerBounded DEF CallerStep
<1>2. ASSUME NEW w \in Worker, WorkerStep(w) \/ Run(w) PROVE BoundInv'
  BY <1>2, WorkerBounded, PlanBounded, CommitBounded DEF WorkerStep
<1>3. CASE Stop \/ UNCHANGED vars
  <2>1. UNCHANGED <<heap, in_flight, blocked, jobs, nodes, allocs, issued, cpc, ceval, wpc, weval, wplan>>
    BY <1>3 DEF Stop, vars, queueVars, storeVars, callerVars, workerVars
  <2>2. Registered' /\ Known'
    BY <1>0, <2>1 DEF Registered, Known
  <2>3. Bounded'
    BY <1>0, <2>1, BoundedFrame
  <2> QED BY <2>2, <2>3 DEF BoundInv
<1>4. CASE Elapse
  <2>1. UNCHANGED <<heap, blocked, jobs, nodes, allocs, issued, cpc, ceval, wpc, weval, wplan>>
    BY <1>4 DEF Elapse, Tick, storeVars, callerVars, workerVars
  <2>2. \A id \in DOMAIN in_flight' : id \in DOMAIN in_flight /\ in_flight'[id].eval = in_flight[id].eval
    BY <1>4 DEF Elapse, Tick
  <2>3. Registered' /\ Known'
    BY <1>0, <2>1, <2>2 DEF Registered, Known
  <2>4. Bounded'
    BY <1>0, <2>1, BoundedFrame
  <2> QED BY <2>3, <2>4 DEF BoundInv
<1> QED BY <1>1, <1>2, <1>3, <1>4 DEF Next

\* Every plan that is under way or was committed is within what its job asked
\* for.
THEOREM BoundInvariantHolds == Spec => []BoundInv
  BY BoundInit, BoundStep, PTL DEF Spec

\* However often an evaluation is delivered and planned, whatever run() and
\* stop() leave behind and however many workers are at it at once, it leaves
\* no more allocations than its job ever asked for.
THEOREM PlacedOnceHolds == Spec => []PlacedOnce
<1>1. BoundInv => PlacedOnce
  <2> SUFFICES ASSUME BoundInv, NEW e \in issued
               PROVE  \E groups \in JobSpecs[e.job] : Cardinality(PlacedFor(e)) <= TotalCount(groups)
    BY DEF PlacedOnce
  <2>1. PICK k \in Nat : Asks(e, k) /\ Fills(e, k)
    BY DEF BoundInv, Bounded
  <2>2. PICK groups \in JobSpecs[e.job] : k <= TotalCount(groups) /\ TotalCount(groups) \in Nat
    BY <2>1, TotalIsNat DEF Asks
  <2> DEFINE T == {<<e, i>> : i \in 1 .. k}
  <2>3. IsFiniteSet(1 .. k) /\ Cardinality(1 .. k) = k
    BY FS_Interval
  <2> DEFINE f == [i \in 1 .. k |-> <<e, i>>]
  <2>4. IsFiniteSet(T) /\ Cardinality(T) <= k
    <3>1. f \in Surjection(1 .. k, T)
      BY DEF Surjection
    <3> QED BY <2>3, <3>1, FS_Surjection
  <2>5. PlacedFor(e) \subseteq T
    BY <2>1 DEF Fills
  <2>6. /\ IsFiniteSet(PlacedFor(e)) /\ Cardinality(PlacedFor(e)) <= Cardinality(T)
        /\ Cardinality(PlacedFor(e)) \in Nat /\ Cardinality(T) \in Nat
    BY <2>4, <2>5, FS_Subset, FS_CardinalityType
  <2> QED BY <2>2, <2>4, <2>6
<1> QED BY <1>1, BoundInvariantHolds, PTL

----------------------------------------------------------------------------
(* What the nodes are given, on a server that is started once: its worker  *)
(* plans under one hold of the Raft lock and commits under another, while  *)
(* nodes register again in between, to drain or to come back.              *)

\* What is in the store is made of what was registered.
Stocked ==
  /\ \A n \in DOMAIN nodes : nodes[n] \in NodeSpecs[n]
  /\ IsFiniteSet(DOMAIN allocs)
  /\ \A id \in DOMAIN allocs :
       /\ allocs[id].node \in DOMAIN nodes
       /\ IsLive(allocs[id].client_status)
       /\ \A d \in Dimension : allocs[id].resources[d] \in Nat

\* The nodes of the plan have room for the whole of it, beside what they hold.
Affordable(plan) ==
  /\ plan \in Seq(Range(plan))
  /\ \A p \in Range(plan) :
       /\ p.node \in DOMAIN nodes
       /\ IsLive(p.client_status)
       /\ \A d \in Dimension :
            /\ p.resources[d] \in Nat
            /\ Hold(p.node, d, allocs) + Hold(p.node, d, plan) <= nodes[p.node].resources[d]

\* A plan that is computed and not committed stays affordable.
LoadInv ==
  /\ Stocked
  /\ NoOversubscription
  /\ \A w \in Worker : wpc[w] = "commit" => Affordable(wplan[w])

LEMMA LoadInit == Init => LoadInv
<1> SUFFICES ASSUME Init PROVE LoadInv
  OBVIOUS
<1>1. DOMAIN nodes = {} /\ DOMAIN allocs = {} /\ \A w \in Worker : wpc[w] = "unborn"
  BY DEF Init
<1> QED BY <1>1, FS_EmptySet DEF LoadInv, Stocked, NoOversubscription

\* The demands of a registered job are what they are.
LEMMA SpecFacts ==
  ASSUME SteadySizes, NEW j \in Job, NEW groups \in JobSpecs[j]
  PROVE  groups \in Seq(Range(groups)) /\ Measured(groups)
<1>1. /\ groups \in Seq(Range(groups))
      /\ \A i \in DOMAIN groups :
           /\ groups[i].count \in Nat
           /\ groups[i].tasks \in Seq(Range(groups[i].tasks))
           /\ \A t \in Range(groups[i].tasks) : t.resources \in [Dimension -> 0 .. (Half - 1)]
  BY ServerAssumption
<1>2. \A g \in Range(groups) : \A d \in Dimension : Demand(g, d) < Half
  BY DEF SteadySizes
<1>3. ASSUME NEW i \in DOMAIN groups
      PROVE  groups[i].count \in Nat /\ \A d \in Dimension : GroupDemand(groups[i])[d] \in Nat
  <2> DEFINE g == groups[i]
  <2>1. g \in Range(groups)
    BY DEF Range
  <2>2. g.count \in Nat /\ g.tasks \in Seq(Range(g.tasks))
    BY <1>1
  <2>3. \A t \in Range(g.tasks) : t.resources \in [Dimension -> 0 .. (Half - 1)]
    BY <1>1
  <2> HIDE DEF g
  <2>4. ASSUME NEW d \in Dimension PROVE GroupDemand(g)[d] \in Nat
    <3>1. ASSUME NEW k \in DOMAIN g.tasks, NEW c \in Dimension PROVE g.tasks[k].resources[c] \in Nat
      <4> DEFINE t == g.tasks[k]
      <4>1. t \in Range(g.tasks)
        BY DEF Range
      <4> HIDE DEF t
      <4>2. t.resources[c] \in 0 .. (Half - 1)
        BY <2>3, <4>1
      <4>3. t.resources[c] \in Nat
        BY <4>2, SchedulerAssumption
      <4> QED BY <4>3 DEF t
    <3>2. Demand(g, d) < Half
      BY <1>2, <2>1
    <3> QED BY <2>2, <3>1, <3>2, DemandExact
  <2> QED BY <2>2, <2>4 DEF g
<1>4. Measured(groups)
  BY <1>3 DEF Measured
<1> QED BY <1>1, <1>4

\* What a node holds is a number, and is nothing without allocations on it.
LEMMA HoldFacts ==
  ASSUME Stocked, NEW n, NEW d \in Dimension
  PROVE  /\ IsFiniteSet(LiveOn(n, allocs))
         /\ \A id \in LiveOn(n, allocs) : id \in DOMAIN allocs /\ allocs[id].node = n /\ allocs[id].resources[d] \in Nat
         /\ Hold(n, d, allocs) \in Nat
         /\ LiveOn(n, allocs) = {} => Hold(n, d, allocs) = 0
<1> DEFINE f == [id \in DOMAIN allocs |-> allocs[id].resources[d]]
           S == LiveOn(n, allocs)
<1>1. S \subseteq DOMAIN allocs /\ \A id \in S : allocs[id].node = n
  BY DEF LiveOn
<1>2. IsFiniteSet(S)
  BY <1>1, FS_Subset DEF Stocked
<1>3. \A id \in S : f[id] \in Nat /\ f[id] = allocs[id].resources[d]
  BY <1>1 DEF Stocked
<1>4. Hold(n, d, allocs) = SumFunctionOnSet(f, S)
  BY DEF Hold, Holding
<1> HIDE DEF f, S
<1>5. SumFunctionOnSet(f, S) \in Nat /\ (S = {} => SumFunctionOnSet(f, S) = 0)
  BY <1>2, <1>3, SumIsNat, SumEmpty
<1> QED BY <1>1, <1>2, <1>3, <1>4, <1>5 DEF S

LEMMA BooksKept ==
  ASSUME Registered, Stocked, NoOversubscription
  PROVE  Books(nodes, allocs)
<1> SUFFICES ASSUME NEW n \in Usable(nodes)
             PROVE  /\ nodes[n].resources \in [Dimension -> I32]
                    /\ IsFiniteSet(LiveOn(n, allocs))
                    /\ \A id \in LiveOn(n, allocs) : \A d \in Dimension : allocs[id].resources[d] \in Int
                    /\ \A d \in Dimension : nodes[n].resources[d] - Hold(n, d, allocs) \in I32
  BY DEF Books
<1>1. n \in DOMAIN nodes /\ n \in Node /\ nodes[n] \in NodeSpecs[n]
  BY DEF Usable, Registered, Stocked
<1>2. nodes[n].resources \in [Dimension -> I32]
  BY <1>1, ServerAssumption
<1>3. IsFiniteSet(LiveOn(n, allocs))
  <2>1. LiveOn(n, allocs) \subseteq DOMAIN allocs
    BY DEF LiveOn
  <2> QED BY <2>1, FS_Subset DEF Stocked
<1>4. \A id \in LiveOn(n, allocs) : \A d \in Dimension : allocs[id].resources[d] \in Int
  BY DEF Stocked, LiveOn
<1>5. ASSUME NEW d \in Dimension PROVE nodes[n].resources[d] - Hold(n, d, allocs) \in I32
  <2>1. nodes[n].resources[d] \in I32
    BY <1>2
  <2>2. Hold(n, d, allocs) \in Nat /\ (LiveOn(n, allocs) = {} => Hold(n, d, allocs) = 0)
    BY HoldFacts
  <2>3. CASE LiveOn(n, allocs) = {}
    BY <2>1, <2>2, <2>3, SchedulerAssumption DEF I32
  <2>4. CASE LiveOn(n, allocs) # {}
    <3>1. PICK id \in DOMAIN allocs : allocs[id].node = n
      BY <2>4 DEF LiveOn
    <3>2. Hold(n, d, allocs) <= nodes[n].resources[d]
      BY <3>1 DEF NoOversubscription, Load, Hold
    <3> QED BY <2>1, <2>2, <3>2, SchedulerAssumption DEF I32
  <2> QED BY <2>3, <2>4
<1> QED BY <1>2, <1>3, <1>4, <1>5

\* A plan that process_eval computes is affordable when it does.
LEMMA PlanAffordable ==
  ASSUME SteadySizes, Registered, Stocked, NoOversubscription, NEW j \in DOMAIN jobs, NEW order \in NodeOrders
  PROVE  Affordable(ProcessEval(jobs[j], nodes, allocs, order))
<1>1. PICK groups : groups = jobs[j]
  OBVIOUS
<1>2. groups \in Seq(Range(groups)) /\ Measured(groups)
  BY <1>1, SpecFacts DEF Registered
<1>3. Books(nodes, allocs)
  BY BooksKept
<1>4. order \in Seq(Node) /\ DOMAIN nodes \subseteq {order[i] : i \in DOMAIN order}
  BY NodesListed
<1>5. PICK acc : /\ ProcessEval(groups, nodes, allocs, order) = acc.plan
                 /\ Achieves(acc, groups, nodes, allocs)
  BY <1>2, <1>3, <1>4, PlanAchieves
<1> DEFINE E == Usable(nodes)
           P == Placements(groups, nodes)
<1>6. Tight(acc, E, P, nodes, allocs)
  BY <1>5 DEF Achieves
<1>7. PICK plan : plan = acc.plan
  OBVIOUS
<1>8. plan \in Seq(P) /\ \A i \in DOMAIN plan : plan[i] \in P
  BY <1>6, <1>7 DEF Tight
<1>9. plan \in Seq(Range(plan))
  BY <1>8 DEF Range
<1>10. \A p \in P : p.node \in E /\ IsLive(p.client_status) /\ \A d \in Dimension : p.resources[d] \in Nat
  <2> SUFFICES ASSUME NEW p \in P
               PROVE  p.node \in E /\ IsLive(p.client_status) /\ \A d \in Dimension : p.resources[d] \in Nat
    OBVIOUS
  <2>1. PICK i \in DOMAIN groups, n \in E : p = MakeAlloc(groups[i], GroupDemand(groups[i]), n)
    BY PlacementOf
  <2>2. p.node = n /\ p.resources = GroupDemand(groups[i]) /\ IsLive(p.client_status)
    BY <2>1 DEF MakeAlloc, IsLive
  <2> QED BY <1>2, <2>2 DEF Measured
<1>11. ASSUME NEW i \in DOMAIN plan, NEW d \in Dimension
       PROVE  Hold(plan[i].node, d, allocs) + Hold(plan[i].node, d, plan) <= nodes[plan[i].node].resources[d]
  <2>1. PICK n : n = plan[i].node
    OBVIOUS
  <2>2. n \in E
    BY <1>8, <1>10, <2>1
  <2>3. /\ acc.free[n][d] = (nodes[n].resources[d] - Hold(n, d, allocs)) - Hold(n, d, plan)
        /\ acc.free[n][d] >= 0
    BY <1>6, <1>7, <2>1, <2>2 DEF Tight
  <2>4. Hold(n, d, allocs) \in Nat
    BY HoldFacts
  <2>5. nodes[n].resources[d] \in Int
    <3>1. nodes[n].resources \in [Dimension -> I32]
      BY <1>3, <2>2 DEF Books
    <3> QED BY <3>1, SchedulerAssumption DEF I32
  <2>6. Hold(n, d, plan) \in Int
    <3> DEFINE h == [k \in DOMAIN plan |-> plan[k].resources[d]]
               I == LiveOn(n, plan)
    <3>1. IsFiniteSet(DOMAIN plan)
      BY <1>8, FS_Interval
    <3>2. IsFiniteSet(I) /\ I \subseteq DOMAIN plan
      BY <3>1, FS_Subset DEF LiveOn
    <3>3. \A k \in I : h[k] \in Int
      BY <1>8, <1>10, <3>2
    <3>4. Hold(n, d, plan) = SumFunctionOnSet(h, I)
      BY DEF Hold, Holding
    <3> HIDE DEF h, I
    <3> QED BY <3>2, <3>3, <3>4, SumIsInt
  <2>7. Hold(n, d, allocs) + Hold(n, d, plan) <= nodes[n].resources[d]
    BY <2>3, <2>4, <2>5, <2>6
  <2> QED BY <2>1, <2>7
<1>12. ASSUME NEW p \in Range(plan)
       PROVE  /\ p.node \in DOMAIN nodes
              /\ IsLive(p.client_status)
              /\ \A d \in Dimension :
                   /\ p.resources[d] \in Nat
                   /\ Hold(p.node, d, allocs) + Hold(p.node, d, plan) <= nodes[p.node].resources[d]
  <2>1. PICK i \in DOMAIN plan : p = plan[i]
    BY DEF Range
  <2>2. p \in P
    BY <1>8, <2>1
  <2>3. p.node \in DOMAIN nodes /\ IsLive(p.client_status) /\ \A d \in Dimension : p.resources[d] \in Nat
    BY <1>10, <2>2 DEF Usable
  <2> QED BY <1>11, <2>1, <2>3
<1>13. Affordable(plan)
  BY <1>9, <1>12 DEF Affordable
<1> QED BY <1>1, <1>5, <1>7, <1>13

\* The step that a worker's plan is computed in.
LEMMA PlanLoad ==
  ASSUME SteadySizes, ServerInv, BoundInv, LoadInv, NEW w \in Worker, Plan(w)
  PROVE  LoadInv'
<1>1. UNCHANGED <<nodes, allocs>> /\ wpc' = [wpc EXCEPT ![w] = "commit"]
  BY DEF Plan, Goto, storeVars
<1>2. /\ wpc \in [Worker -> {"unborn", "sleep", "top", "reap", "dequeue", "ack", "done"} \cup Working]
      /\ DOMAIN wplan = Worker /\ Registered
  BY DEF BoundInv, Registered
<1>3. PICK plan : plan = wplan'[w]
  OBVIOUS
<1>4. Affordable(plan)
  <2>1. CASE weval[w].job \in DOMAIN jobs
    <3>1. PICK order \in NodeOrders : plan = ProcessEval(jobs[weval[w].job], nodes, allocs, order)
      BY <1>2, <1>3, <2>1 DEF Plan
    <3> QED BY <1>2, <2>1, <3>1, PlanAffordable DEF LoadInv
  <2>2. CASE weval[w].job \notin DOMAIN jobs
    <3>1. plan = <<>>
      BY <1>2, <1>3, <2>2 DEF Plan
    <3>2. Range(plan) = {} /\ plan \in Seq(Range(plan))
      BY <3>1 DEF Range
    <3> QED BY <3>2 DEF Affordable
  <2> QED BY <2>1, <2>2
<1>5. Stocked' /\ NoOversubscription'
  BY <1>1 DEF LoadInv, Stocked, NoOversubscription, Load
<1>6. \A v \in Worker : v # w => wpc'[v] = wpc[v] /\ wpc[v] = "unborn"
  <2>1. wpc[w] \in Working
    BY DEF Plan
  <2> QED BY <1>1, <1>2, <2>1, WorkedOnAlone
<1>7. Affordable(wplan[w])'
  BY <1>1, <1>3, <1>4 DEF Affordable
<1>8. \A v \in Worker : wpc'[v] = "commit" => Affordable(wplan[v])'
  BY <1>6, <1>7
<1> QED BY <1>5, <1>8 DEF LoadInv

\* The commit of a plan that is affordable.
LEMMA CommitLoad ==
  ASSUME ServerInv, BoundInv, LoadInv, NEW w \in Worker, Commit(w)
  PROVE  LoadInv'
<1>1. PICK after, plan, e : after = allocs' /\ plan = wplan[w] /\ e = weval[w]
  OBVIOUS
<1>2. /\ wpc[w] = "commit" /\ Affordable(plan) /\ Stocked /\ NoOversubscription
  BY <1>1 DEF Commit, LoadInv
<1>3. /\ nodes' = nodes
      /\ after = [id \in DOMAIN allocs \cup {<<e, i>> : i \in DOMAIN plan} |->
                    IF id \in {<<e, i>> : i \in DOMAIN plan} THEN plan[id[2]] ELSE allocs[id]]
      /\ \E l \in {"check", "ack"} : wpc' = [wpc EXCEPT ![w] = l]
  BY <1>1 DEF Commit, AllocIds, Goto
<1>4. /\ \A id \in DOMAIN allocs : id[1] # e
      /\ \A v \in Worker : v # w => wpc[v] = "unborn"
  <2>1. wpc[w] \in Working
    BY <1>2
  <2> QED BY <1>1, <2>1, WorkedOnAlone DEF PlacedFor
<1>5. /\ \A id \in DOMAIN allocs : after[id] = allocs[id]
      /\ \A i \in DOMAIN plan : <<e, i>> \notin DOMAIN allocs /\ after[<<e, i>>] = plan[i]
      /\ DOMAIN after = DOMAIN allocs \cup {<<e, i>> : i \in DOMAIN plan}
  BY <1>3, <1>4
<1>6. Joined(after, allocs, e, plan)
  BY <1>5 DEF Joined
<1>7. plan \in Seq(Range(plan)) /\ \A i \in DOMAIN plan : plan[i] \in Range(plan)
  BY <1>2 DEF Affordable, Range
<1>8. \A p \in Range(plan) :
        p.node \in DOMAIN nodes /\ IsLive(p.client_status) /\ \A d \in Dimension : p.resources[d] \in Nat
  BY <1>2 DEF Affordable
<1>9. Stocked'
  <2>1. IsFiniteSet(DOMAIN after)
    <3> DEFINE new == {<<e, i>> : i \in DOMAIN plan}
               f == [i \in DOMAIN plan |-> <<e, i>>]
    <3>1. IsFiniteSet(DOMAIN plan)
      BY <1>7, FS_Interval
    <3>2. f \in Surjection(DOMAIN plan, new)
      BY DEF Surjection
    <3>3. IsFiniteSet(new)
      BY <3>1, <3>2, FS_Surjection
    <3>4. IsFiniteSet(DOMAIN allocs)
      BY <1>2 DEF Stocked
    <3> QED BY <1>5, <3>3, <3>4, FS_Union
  <2>2. ASSUME NEW id \in DOMAIN after
        PROVE  /\ after[id].node \in DOMAIN nodes
               /\ IsLive(after[id].client_status)
               /\ \A d \in Dimension : after[id].resources[d] \in Nat
    <3>1. CASE id \in DOMAIN allocs
      BY <1>2, <1>5, <3>1 DEF Stocked
    <3>2. CASE id \notin DOMAIN allocs
      <4>1. PICK i \in DOMAIN plan : id = <<e, i>>
        BY <1>5, <3>2
      <4>2. after[id] = plan[i]
        BY <1>5, <4>1
      <4> QED BY <1>7, <1>8, <4>2
    <3> QED BY <3>1, <3>2
  <2> QED BY <1>1, <1>2, <1>3, <2>1, <2>2 DEF Stocked
<1>10. ASSUME NEW id \in DOMAIN after, NEW d \in Dimension, NEW n, n = after[id].node
       PROVE  n \in DOMAIN nodes /\ Hold(n, d, after) <= nodes[n].resources[d]
  <2>1. n \in DOMAIN nodes
    BY <1>1, <1>3, <1>9, <1>10 DEF Stocked
  <2>2. Hold(n, d, after) = Hold(n, d, allocs) + Hold(n, d, plan)
    <3>0. IsFiniteSet(LiveOn(n, allocs)) /\ \A k \in LiveOn(n, allocs) : allocs[k].resources[d] \in Nat
      BY <1>2, HoldFacts
    <3>1. IsFiniteSet(LiveOn(n, allocs)) /\ \A k \in LiveOn(n, allocs) : allocs[k].resources[d] \in Int
      BY ONLY <3>0
    <3>2. \A p \in Range(plan) : p.resources[d] \in Int
      BY <1>8
    <3> QED BY <1>6, <1>7, <3>1, <3>2, HoldJoined
  <2>3. CASE \E i \in DOMAIN plan : plan[i].node = n
    <3>1. PICK i \in DOMAIN plan : plan[i].node = n
      BY <2>3
    <3>2. Hold(n, d, allocs) + Hold(n, d, plan) <= nodes[n].resources[d]
      BY <1>2, <1>7, <3>1 DEF Affordable
    <3> QED BY <2>1, <2>2, <3>2
  <2>4. CASE \A i \in DOMAIN plan : plan[i].node # n
    <3>1. LiveOn(n, plan) = {}
      BY <2>4 DEF LiveOn
    <3>2. Hold(n, d, plan) = 0
      BY <3>1, SumEmpty DEF Hold, Holding
    <3>3. id \in DOMAIN allocs /\ allocs[id].node = n
      BY <1>5, <1>10, <2>4
    <3>4. Hold(n, d, allocs) <= nodes[n].resources[d]
      BY <1>2, <3>3 DEF NoOversubscription, Load, Hold
    <3>5. Hold(n, d, allocs) \in Nat
      BY <1>2, HoldFacts
    <3> QED BY <2>1, <2>2, <3>2, <3>4, <3>5
  <2> QED BY <2>3, <2>4
<1>11. NoOversubscription'
  <2>1. ASSUME NEW id \in DOMAIN after
        PROVE  /\ after[id].node \in DOMAIN nodes
               /\ \A d \in Dimension : Hold(after[id].node, d, after) <= nodes[after[id].node].resources[d]
    <3>1. after[id].node \in DOMAIN nodes
      BY <1>1, <1>3, <1>9 DEF Stocked
    <3> QED BY <1>10, <3>1
  <2> QED BY <1>1, <1>3, <2>1 DEF NoOversubscription, Load, Hold
<1>12. \A v \in Worker : wpc'[v] # "commit"
  <2>1. wpc \in [Worker -> {"unborn", "sleep", "top", "reap", "dequeue", "ack", "done"} \cup Working]
    BY DEF BoundInv, Registered
  <2> QED BY <1>3, <1>4, <2>1
<1> QED BY <1>9, <1>11, <1>12 DEF LoadInv

\* A node that registers again keeps what it has.
LEMMA NodeLoad ==
  ASSUME SteadySizes, BoundInv, LoadInv, NEW c \in Caller, NEW n \in Node, NEW spec \in NodeSpecs[n], RegisterNode(c, n, spec)
  PROVE  LoadInv'
<1>1. /\ nodes' = [m \in DOMAIN nodes \cup {n} |-> IF m = n THEN spec ELSE nodes[m]]
      /\ UNCHANGED <<allocs, wpc, wplan>>
  BY DEF RegisterNode, With, workerVars
<1>2. /\ DOMAIN nodes' = DOMAIN nodes \cup {n} /\ nodes'[n] = spec
      /\ \A m \in DOMAIN nodes : m # n => nodes'[m] = nodes[m]
  BY <1>1
<1>3. \A m \in DOMAIN nodes' : nodes'[m] \in NodeSpecs[m]
  BY <1>2 DEF LoadInv, Stocked
<1>4. ASSUME NEW m \in DOMAIN nodes PROVE m \in DOMAIN nodes' /\ nodes'[m].resources = nodes[m].resources
  <2>1. CASE m = n
    <3>1. nodes[n] \in NodeSpecs[n]
      BY <2>1 DEF LoadInv, Stocked
    <3> QED BY <1>2, <2>1, <3>1 DEF SteadySizes
  <2>2. CASE m # n
    BY <1>2, <2>2
  <2> QED BY <2>1, <2>2
<1>5. Stocked'
  BY <1>1, <1>2, <1>3 DEF LoadInv, Stocked
<1>6. NoOversubscription'
  BY <1>1, <1>4 DEF LoadInv, NoOversubscription, Load
<1>7. ASSUME NEW w \in Worker, wpc'[w] = "commit" PROVE Affordable(wplan[w])'
  <2>1. PICK plan : plan = wplan[w]
    OBVIOUS
  <2>2. Affordable(plan)
    BY <1>1, <1>7, <2>1 DEF LoadInv
  <2>3. plan \in Seq(Range(plan)) /\ \A p \in Range(plan) :
            /\ p.node \in DOMAIN nodes'
            /\ IsLive(p.client_status)
            /\ \A d \in Dimension :
                 /\ p.resources[d] \in Nat
                 /\ Hold(p.node, d, allocs) + Hold(p.node, d, plan) <= nodes'[p.node].resources[d]
    BY <1>4, <2>2 DEF Affordable
  <2> QED BY <1>1, <2>1, <2>3 DEF Affordable
<1> QED BY <1>5, <1>6, <1>7 DEF LoadInv

\* No other step changes a node or an allocation, or a plan under way.
LEMMA OtherLoad ==
  ASSUME LoadInv, UNCHANGED <<nodes, allocs>>,
         \A w \in Worker : wpc'[w] = "commit" => wpc[w] = "commit" /\ wplan'[w] = wplan[w]
  PROVE  LoadInv'
<1>1. Stocked' /\ NoOversubscription'
  BY DEF LoadInv, Stocked, NoOversubscription, Load
<1>2. ASSUME NEW w \in Worker, wpc'[w] = "commit" PROVE Affordable(wplan[w])'
  <2>1. Affordable(wplan[w]) /\ wplan'[w] = wplan[w]
    BY <1>2 DEF LoadInv
  <2> QED BY <2>1 DEF Affordable
<1> QED BY <1>1, <1>2 DEF LoadInv

LEMMA LoadStep ==
  ASSUME SteadySizes
  PROVE  ServerInv /\ BoundInv /\ LoadInv /\ [SteadyNext]_vars => LoadInv'
<1> SUFFICES ASSUME ServerInv, BoundInv, LoadInv, [SteadyNext]_vars PROVE LoadInv'
  OBVIOUS
<1>0. /\ wpc \in [Worker -> {"unborn", "sleep", "top", "reap", "dequeue", "ack", "done"} \cup Working]
      /\ DOMAIN wplan = Worker
  BY DEF BoundInv, Registered
<1>1. ASSUME NEW c \in Caller, CallerStep(c) PROVE LoadInv'
  <2>1. CASE \E n \in Node : \E spec \in NodeSpecs[n] : RegisterNode(c, n, spec)
    BY <2>1, NodeLoad
  <2>2. CASE ~\E n \in Node : \E spec \in NodeSpecs[n] : RegisterNode(c, n, spec)
    <3>1. UNCHANGED <<nodes, allocs, wpc, wplan>>
      BY <1>1, <2>2 DEF CallerStep, RegisterJob, DeregisterJob, EnqueueEval, Unblock, EvalDequeue,
                        storeVars, workerVars
    <3> QED BY <3>1, OtherLoad
  <2> QED BY <2>1, <2>2
<1>2. ASSUME NEW w \in Worker, WorkerStep(w) \/ Run(w) PROVE LoadInv'
  <2>1. CASE Plan(w)
    BY <2>1, PlanLoad
  <2>2. CASE Commit(w)
    BY <2>2, CommitLoad
  <2>3. CASE AckEval(w)
    <3>1. UNCHANGED <<nodes, allocs>> /\ wpc' = [wpc EXCEPT ![w] = "top"] /\ wplan' = [wplan EXCEPT ![w] = <<>>]
      BY <2>3 DEF AckEval, Goto, storeVars
    <3>2. \A v \in Worker : wpc'[v] = "commit" => wpc[v] = "commit" /\ wplan'[v] = wplan[v]
      BY <1>0, <3>1
    <3> QED BY <3>1, <3>2, OtherLoad
  <2>4. CASE Poll(w) \/ Top(w) \/ Reap(w) \/ TakeEval(w) \/ GoToSleep(w) \/ Check(w) \/ BlockEval(w) \/ Run(w)
    <3>1. /\ UNCHANGED <<nodes, allocs, wplan>>
          /\ \E l \in {"done", "top", "reap", "dequeue", "plan", "sleep", "block", "ack"} : wpc' = [wpc EXCEPT ![w] = l]
      BY <2>4 DEF Poll, Top, Reap, TakeEval, GoToSleep, Check, BlockEval, Run, Goto, storeVars
    <3>2. \A v \in Worker : wpc'[v] = "commit" => wpc[v] = "commit" /\ wplan'[v] = wplan[v]
      BY <1>0, <3>1
    <3> QED BY <3>1, <3>2, OtherLoad
  <2> QED BY <1>2, <2>1, <2>2, <2>3, <2>4 DEF WorkerStep
<1>3. CASE Elapse \/ UNCHANGED vars
  <2>1. UNCHANGED <<nodes, allocs, wpc, wplan>>
    BY <1>3 DEF Elapse, vars, storeVars, workerVars
  <2> QED BY <2>1, OtherLoad
<1> QED BY <1>1, <1>2, <1>3 DEF SteadyNext

\* The store is affordable, and so is the plan that is computed and not yet
\* committed.
THEOREM LoadInvariantHolds ==
  ASSUME SteadySizes
  PROVE  SteadySpec => []LoadInv
<1>1. [SteadyNext]_vars => [Next]_vars
  BY DEF SteadyNext, Next
<1>2. SteadySpec => []BoundInv
  BY <1>1, BoundInit, BoundStep, PTL DEF SteadySpec
<1> QED BY <1>2, ServerInvariantHolds, LoadInit, LoadStep, PTL DEF SteadySpec

\* With one worker, no interleaving of handlers with its two holds of the Raft
\* lock gives a node more than it has: however many jobs and nodes there are,
\* and though nodes register again between plan and commit.
THEOREM NoOversubscriptionHolds ==
  ASSUME SteadySizes
  PROVE  SteadySpec => []NoOversubscription
<1>1. LoadInv => NoOversubscription
  BY DEF LoadInv
<1> QED BY <1>1, LoadInvariantHolds, PTL

=============================================================================
