------------------------------- MODULE Cluster -------------------------------
(***************************************************************************)
(* The in-process cluster of src/src/integration.rs, which the crate's     *)
(* users write integration tests with: a server with its worker, a client, *)
(* and an RPC endpoint over an evaluation queue that is not the server's.  *)
(* Several clusters may be given the same queue.                           *)
(*                                                                         *)
(* A queue is the sequence of what waits in it, in the order of arrival    *)
(* (EvalQueue has its inside).  Nobody acks or reaps the queue of a        *)
(* cluster, so nothing returns to it.  What a job name or a configuration  *)
(* is made of is abstracted to whether it is valid; a call that is refused *)
(* changes nothing.                                                        *)
(***************************************************************************)
EXTENDS Integers, SequencesExt

CONSTANTS
  Builder,        \* clusters that are built
  EvalPriority,   \* priorities of valid jobs
  NoQueue,        \* the cluster was not built
  MaxRegistered   \* bound: jobs registered

ASSUME ClusterAssumption == NoQueue \notin Builder

VARIABLES
  handles,     \* clusters whose build() returned a handle
  refused,     \* clusters whose build() failed
  serving,     \* clusters whose server runs
  eval_queue,  \* the queue of each cluster's endpoint
  waiting,     \* what waits in each queue
  registered,  \* history: the evaluations, by number: priority, and the handle asked
  dequeued     \* history: what dequeue_eval returned, in order: evaluation and handle

clusterVars == <<handles, refused, serving, eval_queue, waiting, registered, dequeued>>

\* A cluster can have a queue of its own; its server has one in any case.
Own(b) == <<"own", b>>
ServerQueue(b) == <<"server", b>>
Queue == {Own(b) : b \in Builder} \cup {ServerQueue(b) : b \in Builder}

ClusterInit ==
  /\ handles = {} /\ refused = {} /\ serving = {}
  /\ eval_queue = [b \in Builder |-> NoQueue]
  /\ waiting = [q \in Queue |-> <<>>]
  /\ registered = <<>> /\ dequeued = <<>>

\* Faulty variant: the endpoint is the server's.
EndpointOfServer(b, q) == ServerQueue(b)

\* The queue of the endpoint of b, built with the queue q.
EndpointQueue(b, q) == q

\* build(), with a queue of its own or one that another cluster has.
Build(b, serverValid, clientValid, q) ==
  /\ b \notin handles \cup refused
  /\ IF serverValid /\ clientValid
       THEN /\ serving' = serving \cup {b}
            /\ handles' = handles \cup {b}
            /\ eval_queue' = [eval_queue EXCEPT ![b] = EndpointQueue(b, q)]
            /\ UNCHANGED refused
       ELSE refused' = refused \cup {b} /\ UNCHANGED <<serving, handles, eval_queue>>
  /\ UNCHANGED <<waiting, registered, dequeued>>

GivenQueues(b) == {Own(b)} \cup {eval_queue[c] : c \in handles}

\* register_job() of a valid job
RegisterThrough(b, priority) ==
  /\ b \in handles
  /\ Len(registered) < MaxRegistered
  /\ registered' = Append(registered, [priority |-> priority, at |-> b])
  /\ waiting' = [waiting EXCEPT ![eval_queue[b]] = Append(@, Len(registered) + 1)]
  /\ UNCHANGED <<handles, refused, serving, eval_queue, dequeued>>

\* EvalQueue::dequeue takes position i: the highest priority, and the oldest
\* among equals.
IsTop(q, i) ==
  \A j \in DOMAIN waiting[q] :
    LET p == registered[waiting[q][i]].priority
        r == registered[waiting[q][j]].priority
    IN  p > r \/ (p = r /\ i <= j)

\* dequeue_eval() that returns an evaluation
DequeueEval(b) ==
  /\ b \in handles
  /\ LET q == eval_queue[b] IN
     \E i \in DOMAIN waiting[q] :
       /\ IsTop(q, i)
       /\ dequeued' = Append(dequeued, [eval |-> waiting[q][i], at |-> b])
       /\ waiting' = [waiting EXCEPT ![q] = RemoveAt(@, i)]
  /\ UNCHANGED <<handles, refused, serving, eval_queue, registered>>

\* The server's worker takes what waits in the server's queue.
ServerTakes(b) ==
  /\ b \in serving
  /\ \E i \in DOMAIN waiting[ServerQueue(b)] :
       /\ IsTop(ServerQueue(b), i)
       /\ waiting' = [waiting EXCEPT ![ServerQueue(b)] = RemoveAt(@, i)]
  /\ UNCHANGED <<handles, refused, serving, eval_queue, registered, dequeued>>

\* A job registered through server.endpoint(), which is public
RegisterAtServer(b, priority) ==
  /\ b \in handles
  /\ Len(registered) < MaxRegistered
  /\ registered' = Append(registered, [priority |-> priority, at |-> NoQueue])
  /\ waiting' = [waiting EXCEPT ![ServerQueue(b)] = Append(@, Len(registered) + 1)]
  /\ UNCHANGED <<handles, refused, serving, eval_queue, dequeued>>

\* shutdown()
ShutdownCluster(b) ==
  /\ b \in handles
  /\ serving' = serving \ {b}
  /\ UNCHANGED <<handles, refused, eval_queue, waiting, registered, dequeued>>

ClusterNext ==
  \E b \in Builder :
    \/ \E serverValid, clientValid \in BOOLEAN, q \in GivenQueues(b) :
         Build(b, serverValid, clientValid, q)
    \/ \E priority \in EvalPriority : RegisterThrough(b, priority) \/ RegisterAtServer(b, priority)
    \/ DequeueEval(b) \/ ServerTakes(b) \/ ShutdownCluster(b)

ClusterSpec == ClusterInit /\ [][ClusterNext]_clusterVars

----------------------------------------------------------------------------
(* Properties.                                                             *)

\* register_job and dequeue_eval belong together, whatever the server's
\* worker does in between, in any number of clusters over one queue, and
\* after a shutdown too: what was registered through a handle waits in its
\* queue until exactly one dequeue_eval of a cluster over the same queue
\* returns it; what was registered at a server goes to its worker alone.
RegisteredIsDequeued ==
  \A n \in DOMAIN registered :
    LET b == registered[n].at
        takenAt == {i \in DOMAIN dequeued : dequeued[i].eval = n}
    IN  IF b = NoQueue
          THEN takenAt = {}
          ELSE \/ \E i \in DOMAIN waiting[eval_queue[b]] :
                    waiting[eval_queue[b]][i] = n /\ takenAt = {}
               \/ \E i \in DOMAIN dequeued :
                    takenAt = {i} /\ eval_queue[dequeued[i].at] = eval_queue[b]

============================================================================
