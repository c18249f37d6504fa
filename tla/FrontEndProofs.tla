--------------------------- MODULE FrontEndProofs ---------------------------
(***************************************************************************)
(* Proofs about what a server shows to the outside, each component on its  *)
(* own.                                                                    *)
(***************************************************************************)
EXTENDS Api, RpcWire, Tls, Periodic, Cluster, Induction

----------------------------------------------------------------------------
(* The launch times of a periodic job.                                     *)

PeriodicInv ==
  /\ clock \in Nat
  /\ planned \in Seq([asked : Nat, launch : Nat])
  /\ schedule = Unparsable \/ schedule \subseteq Nat
  /\ planned # <<>> => schedule \subseteq Nat
  /\ FollowsSchedule

\* periodic.rs: over any chain of calls of next(), early or late, and for
\* every schedule, launch times are strictly increasing and pass over only
\* firings that were past when next() was called.
THEOREM FollowsScheduleHolds == PeriodicSpec => []FollowsSchedule
<1>1. PeriodicInit => PeriodicInv
  BY PeriodicAssumption DEF PeriodicInit, PeriodicInv, FollowsSchedule, Argument
<1>2. PeriodicInv /\ [PeriodicNext]_periodicVars => PeriodicInv'
  <2> SUFFICES ASSUME PeriodicInv, [PeriodicNext]_periodicVars PROVE PeriodicInv'
    OBVIOUS
  <2>1. CASE Tick
    BY <2>1 DEF Tick, PeriodicInv, FollowsSchedule, Argument
  <2>2. CASE NextLaunch
    <3>1. PICK t \in FiringsAfter(clock, LastPlanned) :
            /\ \A u \in FiringsAfter(clock, LastPlanned) : t <= u
            /\ planned' = Append(planned, [asked |-> clock, launch |-> t])
      BY <2>2 DEF NextLaunch
    <3>2. /\ schedule # Unparsable /\ schedule \subseteq Nat /\ clock \in Nat
          /\ schedule' = schedule /\ clock' = clock
          /\ planned \in Seq([asked : Nat, launch : Nat])
      BY <2>2 DEF NextLaunch, PeriodicInv
    <3>3. /\ t \in Nat /\ LastPlanned < t
          /\ \A u \in schedule : LastPlanned < u /\ u < t => u <= clock
      BY <3>1, <3>2 DEF FiringsAfter, LastPlanned
    <3>4. /\ planned' \in Seq([asked : Nat, launch : Nat])
          /\ Len(planned') = Len(planned) + 1
          /\ planned'[Len(planned) + 1] = [asked |-> clock, launch |-> t]
          /\ \A i \in 1 .. Len(planned) : planned'[i] = planned[i]
          /\ planned' # <<>>
      BY <3>1, <3>2, <3>3
    <3>5. FollowsSchedule'
      <4> SUFFICES ASSUME NEW i \in DOMAIN planned'
                   PROVE  LET before == IF i = 1 THEN 0 ELSE planned'[i - 1].launch IN
                          /\ before < planned'[i].launch
                          /\ \A u \in schedule :
                               (before < u /\ u < planned'[i].launch) => u <= planned'[i].asked
        BY <3>2 DEF FollowsSchedule, Argument
      <4>1. CASE i \in 1 .. Len(planned)
        <5>0. Len(planned) \in Nat /\ (i # 1 => i - 1 \in 1 .. Len(planned))
          BY <3>2, <4>1
        <5>1. planned'[i] = planned[i] /\ (i # 1 => planned'[i - 1] = planned[i - 1])
          BY <3>4, <4>1, <5>0
        <5> QED BY <3>2, <4>1, <5>1, SMTT(30) DEF PeriodicInv, FollowsSchedule, Argument
      <4>2. CASE i = Len(planned) + 1
        <5>1. LastPlanned = IF i = 1 THEN 0 ELSE planned'[i - 1].launch
          BY <3>2, <3>4, <4>2, SMTT(30) DEF LastPlanned
        <5> QED BY <3>3, <3>4, <4>2, <5>1
      <4> QED BY <3>2, <3>4, <4>1, <4>2
    <3> QED BY <3>2, <3>4, <3>5 DEF PeriodicInv
  <2>3. CASE UNCHANGED periodicVars
    BY <2>3 DEF periodicVars, PeriodicInv, FollowsSchedule, Argument
  <2> QED BY <2>1, <2>2, <2>3 DEF PeriodicNext
<1>3. PeriodicInv => FollowsSchedule
  BY DEF PeriodicInv
<1> QED BY <1>1, <1>2, <1>3, PTL DEF PeriodicSpec

----------------------------------------------------------------------------
(* TLS configurations.                                                     *)

\* What a build has read so far; if nothing was replaced since it began, it
\* is what the files hold.
BuildOk ==
  build # Nothing =>
    /\ build \in [role : {"server", "client"}, step : FileName,
                  cert : Generation \cup {Nothing}, key : Generation \cup {Nothing}]
    /\ built = Nothing
    /\ build.step \in {"key", "ca"} =>
         build.cert \in Generation /\ (quiet # Nothing => build.cert = files["cert"])
    /\ build.step = "ca" =>
         build.key \in Generation /\ (quiet # Nothing => build.key = files["key"])

TlsInv ==
  /\ files \in [FileName -> Generation \cup {Missing, Malformed, Foreign}]
  /\ quiet # Nothing => quiet = files
  /\ BuildOk
  /\ BuiltIsCoherent

LEMMA TlsReplaceHolds ==
  ASSUME TlsInv, NEW name \in FileName, NEW content \in Content(name), Replace(name, content)
  PROVE  TlsInv'
  BY DEF TlsInv, Replace, Content, BuildOk, BuiltIsCoherent, FileName

LEMMA TlsBeginHolds ==
  ASSUME TlsInv, NEW who \in {"server", "client"}, NEW named, Begin(who, named)
  PROVE  TlsInv'
<1>1. CASE ValidPaths(named)
  BY <1>1, TlsAssumption DEF TlsInv, Begin, BuildOk, BuiltIsCoherent, FileName
<1>2. CASE ~ValidPaths(named)
  BY <1>2, TlsAssumption DEF TlsInv, Begin, Finish, BuildOk, BuiltIsCoherent
<1> QED BY <1>1, <1>2

LEMMA TlsLoadCertsHolds == ASSUME TlsInv, LoadCerts PROVE TlsInv'
<1>1. CASE files["cert"] \in Generation
  BY <1>1, TlsAssumption, ZenonT(40) DEF TlsInv, LoadCerts, BuildOk, BuiltIsCoherent, FileName
<1>2. CASE files["cert"] \notin Generation
  BY <1>2, TlsAssumption DEF TlsInv, LoadCerts, Finish, BuildOk, BuiltIsCoherent
<1> QED BY <1>1, <1>2

LEMMA TlsLoadPrivateKeyHolds == ASSUME TlsInv, LoadPrivateKey PROVE TlsInv'
<1>1. CASE files["key"] \in Generation
  BY <1>1, TlsAssumption, ZenonT(40) DEF TlsInv, LoadPrivateKey, BuildOk, BuiltIsCoherent, FileName
<1>2. CASE files["key"] \notin Generation
  BY <1>2, TlsAssumption DEF TlsInv, LoadPrivateKey, Finish, BuildOk, BuiltIsCoherent
<1> QED BY <1>1, <1>2

LEMMA TlsLoadCaHolds == ASSUME TlsInv, LoadCa PROVE TlsInv'
<1> DEFINE roots == RootsOf(files["ca"])
           made == [role |-> build.role, cert |-> build.cert, key |-> build.key, roots |-> roots]
<1>1. /\ build # Nothing /\ build.step = "ca"
      /\ build.role \in {"server", "client"} /\ build.cert \in Generation /\ build.key \in Generation
      /\ quiet # Nothing => build.cert = files["cert"] /\ build.key = files["key"]
      /\ build' = Nothing /\ UNCHANGED <<files, quiet>>
  BY DEF LoadCa, Finish, TlsInv, BuildOk
<1>2. CASE CaLoads(files["ca"]) /\ RustlsAccepts(build.role, build.cert, build.key, roots)
  <2>1. built' = made
    BY <1>2 DEF LoadCa, Finish
  <2>2. roots \subseteq Generation /\ build.cert = build.key /\ (build.role = "server" => roots # {})
    BY <1>2 DEF CaLoads, RustlsAccepts, RootsOf
  <2>3. built' \notin {Nothing, Failed}
    BY <1>1, <2>1, <2>2, TlsAssumption
  <2> QED BY <1>1, <2>1, <2>2, <2>3 DEF TlsInv, BuildOk, BuiltIsCoherent
<1>3. CASE ~(CaLoads(files["ca"]) /\ RustlsAccepts(build.role, build.cert, build.key, roots))
  <2>1. built' = Failed
    BY <1>3 DEF LoadCa, Finish
  <2>2. ASSUME NEW g \in Generation, files["cert"] = g, files["key"] = g, files["ca"] \in Generation,
               quiet # Nothing
        PROVE  FALSE
    BY <1>1, <1>3, <2>2, TlsAssumption DEF CaLoads, RustlsAccepts, RootsOf
  <2> QED BY <1>1, <2>1, <2>2 DEF TlsInv, BuildOk, BuiltIsCoherent
<1> QED BY <1>2, <1>3

\* tls.rs: whatever files are replaced between the look at the paths and the
\* three reads, a configuration that is returned is coherent, and a build that
\* nobody disturbed is refused only for what the files hold.
THEOREM BuiltIsCoherentHolds == TlsSpec => []BuiltIsCoherent
<1>1. TlsInit => TlsInv
  BY DEF TlsInit, TlsInv, BuildOk, BuiltIsCoherent
<1>2. TlsInv /\ [TlsNext]_tlsVars => TlsInv'
  <2> SUFFICES ASSUME TlsInv, [TlsNext]_tlsVars PROVE TlsInv'
    OBVIOUS
  <2>1. CASE UNCHANGED tlsVars
    BY <2>1 DEF tlsVars, TlsInv, BuildOk, BuiltIsCoherent
  <2> QED BY <2>1, TlsReplaceHolds, TlsBeginHolds, TlsLoadCertsHolds, TlsLoadPrivateKeyHolds,
             TlsLoadCaHolds DEF TlsNext
<1>3. TlsInv => BuiltIsCoherent
  BY DEF TlsInv
<1> QED BY <1>1, <1>2, <1>3, PTL DEF TlsSpec

----------------------------------------------------------------------------
(* The cluster of the integration tests.                                   *)

LEMMA RemoveAtFacts ==
  ASSUME NEW S, NEW s \in Seq(S), NEW i \in DOMAIN s
  PROVE  /\ RemoveAt(s, i) \in Seq(S)
         /\ Len(RemoveAt(s, i)) = Len(s) - 1
         /\ \A j \in 1 .. (Len(s) - 1) : RemoveAt(s, i)[j] = IF j < i THEN s[j] ELSE s[j + 1]
<1> DEFINE a == SubSeq(s, 1, i - 1)
           b == SubSeq(s, i + 1, Len(s))
<1>0. Len(s) \in Nat /\ i \in 1 .. Len(s)
  OBVIOUS
<1>1. a \in Seq(S) /\ Len(a) = i - 1 /\ \A j \in 1 .. (i - 1) : a[j] = s[j]
  BY <1>0
<1>2. b \in Seq(S) /\ Len(b) = Len(s) - i /\ \A j \in 1 .. (Len(s) - i) : b[j] = s[j + i]
  BY <1>0
<1> HIDE DEF a, b
<1>3. /\ a \o b \in Seq(S) /\ Len(a \o b) = Len(s) - 1
      /\ \A j \in 1 .. (Len(s) - 1) : (a \o b)[j] = IF j < i THEN a[j] ELSE b[j - (i - 1)]
  BY <1>0, <1>1, <1>2, SMTT(30)
<1>4. \A j \in 1 .. (Len(s) - 1) : j >= i => b[j - (i - 1)] = s[j + 1]
  <2> TAKE j \in 1 .. (Len(s) - 1)
  <2> HAVE j >= i
  <2>1. j - (i - 1) \in 1 .. (Len(s) - i) /\ (j - (i - 1)) + i = j + 1
    BY <1>0
  <2> QED BY <1>2, <2>1
<1>5. RemoveAt(s, i) = a \o b
  BY DEF RemoveAt, a, b
<1> QED BY <1>0, <1>1, <1>3, <1>4, <1>5

\* Taking one entry out of a sequence of distinct entries leaves exactly the
\* others.
LEMMA RemoveAtKeepsOthers ==
  ASSUME NEW S, NEW s \in Seq(S), NEW i \in DOMAIN s,
         \A j, k \in DOMAIN s : s[j] = s[k] => j = k
  PROVE  /\ RemoveAt(s, i) \in Seq(S)
         /\ \A j, k \in DOMAIN RemoveAt(s, i) : RemoveAt(s, i)[j] = RemoveAt(s, i)[k] => j = k
         /\ \A j \in DOMAIN RemoveAt(s, i) :
              RemoveAt(s, i)[j] # s[i] /\ \E k \in DOMAIN s : RemoveAt(s, i)[j] = s[k]
         /\ \A k \in DOMAIN s : s[k] # s[i] => \E j \in DOMAIN RemoveAt(s, i) : RemoveAt(s, i)[j] = s[k]
<1> DEFINE r == RemoveAt(s, i)
<1>1. /\ r \in Seq(S) /\ Len(s) \in Nat /\ Len(r) = Len(s) - 1 /\ i \in 1 .. Len(s)
      /\ DOMAIN r = 1 .. (Len(s) - 1) /\ DOMAIN s = 1 .. Len(s)
      /\ \A j \in 1 .. (Len(s) - 1) : r[j] = IF j < i THEN s[j] ELSE s[j + 1]
  BY RemoveAtFacts
<1> HIDE DEF r
<1>2. \A j \in DOMAIN r : \E k \in DOMAIN s :
        r[j] = s[k] /\ k # i /\ (j < i => k = j) /\ (j >= i => k = j + 1)
  <2> TAKE j \in DOMAIN r
  <2>1. CASE j < i
    BY <1>1, <2>1
  <2>2. CASE j >= i
    <3>1. j + 1 \in DOMAIN s /\ r[j] = s[j + 1] /\ j + 1 # i
      BY <1>1, <2>2
    <3> QED BY <1>1, <2>2, <3>1
  <2> QED BY <1>1, <2>1, <2>2
<1>3. \A j, k \in DOMAIN r : r[j] = r[k] => j = k
  BY <1>1, <1>2
<1>4. ASSUME NEW k \in DOMAIN s, s[k] # s[i] PROVE \E j \in DOMAIN r : r[j] = s[k]
  <2>1. CASE k < i
    BY <1>1, <1>4, <2>1
  <2>2. CASE k > i
    <3>1. k - 1 \in DOMAIN r /\ r[k - 1] = s[k]
      BY <1>1, <2>2
    <3> QED BY <3>1
  <2> QED BY <1>1, <1>4, <2>1, <2>2
<1> QED BY <1>1, <1>2, <1>3, <1>4 DEF r

WaitsIn(w, n, q) == \E i \in DOMAIN w[q] : w[q][i] = n

Taken(d, n) == \E i \in DOMAIN d : d[i].eval = n

\* What dequeue_eval returned, and to whom.
Receipt == [eval : Nat, at : Builder]

ClusterTypes ==
  /\ handles \subseteq Builder
  /\ eval_queue \in [Builder -> Queue \cup {NoQueue}]
  /\ \A b \in handles : \E c \in Builder : eval_queue[b] = Own(c)
  /\ waiting \in [Queue -> Seq(Nat)]
  /\ registered \in Seq([priority : EvalPriority, at : Builder \cup {NoQueue}])
  /\ dequeued \in Seq(Receipt)

\* An evaluation waits at most once, where it was registered.
WaitsOnce ==
  /\ \A q \in Queue : \A i, j \in DOMAIN waiting[q] : waiting[q][i] = waiting[q][j] => i = j
  /\ \A q, r \in Queue : \A n \in Nat : WaitsIn(waiting, n, q) /\ WaitsIn(waiting, n, r) => q = r
  /\ \A q \in Queue : \A n \in Nat :
       WaitsIn(waiting, n, q) =>
         /\ n \in DOMAIN registered
         /\ registered[n].at # NoQueue => q = eval_queue[registered[n].at]
         /\ registered[n].at = NoQueue => \E b \in Builder : q = ServerQueue(b)

\* What was taken was taken once, from the queue it was registered in.
TakenOnce ==
  /\ \A i, j \in DOMAIN dequeued : dequeued[i].eval = dequeued[j].eval => i = j
  /\ \A i \in DOMAIN dequeued :
       LET n == dequeued[i].eval IN
       /\ n \in DOMAIN registered /\ registered[n].at # NoQueue
       /\ dequeued[i].at \in handles
       /\ eval_queue[dequeued[i].at] = eval_queue[registered[n].at]
       /\ \A q \in Queue : ~WaitsIn(waiting, n, q)
  /\ \A n \in DOMAIN registered :
       registered[n].at # NoQueue =>
         /\ registered[n].at \in handles
         /\ WaitsIn(waiting, n, eval_queue[registered[n].at]) \/ Taken(dequeued, n)

ClusterInv == ClusterTypes /\ WaitsOnce /\ TakenOnce

LEMMA QueuesDiffer ==
  ASSUME NEW b \in Builder, NEW c \in Builder
  PROVE  Own(b) # ServerQueue(c) /\ Own(b) \in Queue /\ ServerQueue(c) \in Queue
  BY DEF Own, ServerQueue, Queue

\* A dequeue takes one evaluation from its queue, and nothing else.
LEMMA OneLeaves ==
  ASSUME ClusterInv, NEW q \in Queue, NEW i \in DOMAIN waiting[q],
         waiting' = [waiting EXCEPT ![q] = RemoveAt(@, i)]
  PROVE  /\ waiting[q][i] \in Nat /\ WaitsIn(waiting, waiting[q][i], q)
         /\ waiting' \in [Queue -> Seq(Nat)]
         /\ \A r \in Queue : \A j, k \in DOMAIN waiting'[r] : waiting'[r][j] = waiting'[r][k] => j = k
         /\ \A r \in Queue : \A n \in Nat :
              WaitsIn(waiting', n, r) <=> WaitsIn(waiting, n, r) /\ n # waiting[q][i]
<1>1. /\ waiting \in [Queue -> Seq(Nat)] /\ waiting[q] \in Seq(Nat)
      /\ \A r \in Queue : \A j, k \in DOMAIN waiting[r] : waiting[r][j] = waiting[r][k] => j = k
      /\ \A r \in Queue : \A n \in Nat : WaitsIn(waiting, n, q) /\ WaitsIn(waiting, n, r) => q = r
  BY DEF ClusterInv, ClusterTypes, WaitsOnce
<1> DEFINE s == waiting[q]
           t == RemoveAt(s, i)
<1>2. /\ t \in Seq(Nat)
      /\ \A j, k \in DOMAIN t : t[j] = t[k] => j = k
      /\ \A j \in DOMAIN t : t[j] # s[i] /\ \E k \in DOMAIN s : t[j] = s[k]
      /\ \A k \in DOMAIN s : s[k] # s[i] => \E j \in DOMAIN t : t[j] = s[k]
  BY <1>1, RemoveAtKeepsOthers
<1>3. waiting' = [r \in Queue |-> IF r = q THEN t ELSE waiting[r]]
  BY <1>1
<1> HIDE DEF t
<1>4. waiting' \in [Queue -> Seq(Nat)]
  BY <1>1, <1>2, <1>3
<1>5. \A r \in Queue : \A j, k \in DOMAIN waiting'[r] : waiting'[r][j] = waiting'[r][k] => j = k
  BY <1>1, <1>2, <1>3
<1>6. s[i] \in Nat /\ WaitsIn(waiting, s[i], q)
  BY <1>1 DEF WaitsIn
<1>7. ASSUME NEW r \in Queue, NEW n \in Nat PROVE WaitsIn(waiting', n, r) <=> WaitsIn(waiting, n, r) /\ n # s[i]
  <2>1. CASE r = q
    BY <1>2, <1>3, <2>1 DEF WaitsIn
  <2>2. CASE r # q
    <3>1. n = s[i] => ~WaitsIn(waiting, n, r)
      BY <1>1, <1>6, <2>2
    <3> QED BY <1>3, <2>2, <3>1 DEF WaitsIn
  <2> QED BY <2>1, <2>2
<1> QED BY <1>4, <1>5, <1>6, <1>7

\* A registration adds one evaluation, which is new, to its queue.
LEMMA OneEnters ==
  ASSUME ClusterInv, NEW q \in Queue, NEW entry,
         registered' = Append(registered, entry),
         entry \in [priority : EvalPriority, at : Builder \cup {NoQueue}],
         waiting' = [waiting EXCEPT ![q] = Append(@, Len(registered) + 1)]
  PROVE  /\ Len(registered) + 1 \in Nat
         /\ registered' \in Seq([priority : EvalPriority, at : Builder \cup {NoQueue}])
         /\ Len(registered) + 1 \notin DOMAIN registered
         /\ DOMAIN registered' = DOMAIN registered \cup {Len(registered) + 1}
         /\ registered'[Len(registered) + 1] = entry
         /\ \A n \in DOMAIN registered : n \in Nat /\ registered'[n] = registered[n]
         /\ waiting' \in [Queue -> Seq(Nat)]
         /\ \A r \in Queue : \A j, k \in DOMAIN waiting'[r] : waiting'[r][j] = waiting'[r][k] => j = k
         /\ \A r \in Queue : \A n \in Nat :
              WaitsIn(waiting', n, r) <=> WaitsIn(waiting, n, r) \/ (n = Len(registered) + 1 /\ r = q)
<1> DEFINE new == Len(registered) + 1
<1>1. /\ waiting \in [Queue -> Seq(Nat)] /\ waiting[q] \in Seq(Nat)
      /\ \A r \in Queue : \A j, k \in DOMAIN waiting[r] : waiting[r][j] = waiting[r][k] => j = k
      /\ \A r \in Queue : \A n \in Nat : WaitsIn(waiting, n, r) => n \in DOMAIN registered
      /\ registered \in Seq([priority : EvalPriority, at : Builder \cup {NoQueue}])
  BY DEF ClusterInv, ClusterTypes, WaitsOnce
<1>2. /\ new \in Nat /\ new \notin DOMAIN registered
      /\ registered' \in Seq([priority : EvalPriority, at : Builder \cup {NoQueue}])
      /\ DOMAIN registered' = DOMAIN registered \cup {new}
      /\ registered'[new] = entry
      /\ \A n \in DOMAIN registered : n \in Nat /\ registered'[n] = registered[n]
  BY <1>1
<1> HIDE DEF new
<1> DEFINE s == waiting[q]
           t == Append(s, new)
<1>3. waiting' = [r \in Queue |-> IF r = q THEN t ELSE waiting[r]]
  BY <1>1 DEF new
<1>4. \A j \in DOMAIN s : s[j] # new
  BY <1>1, <1>2 DEF WaitsIn
<1>5. /\ t \in Seq(Nat) /\ DOMAIN t = DOMAIN s \cup {Len(s) + 1}
      /\ t[Len(s) + 1] = new /\ \A j \in DOMAIN s : t[j] = s[j]
  BY <1>1, <1>2
<1> HIDE DEF t
<1>6. waiting' \in [Queue -> Seq(Nat)]
  BY <1>1, <1>3, <1>5
<1>7. \A r \in Queue : \A j, k \in DOMAIN waiting'[r] : waiting'[r][j] = waiting'[r][k] => j = k
  BY <1>1, <1>3, <1>4, <1>5, SMTT(30)
<1>8. ASSUME NEW r \in Queue, NEW n \in Nat
      PROVE  WaitsIn(waiting', n, r) <=> WaitsIn(waiting, n, r) \/ (n = new /\ r = q)
  <2>1. CASE r = q
    BY <1>3, <1>5, <2>1 DEF WaitsIn
  <2>2. CASE r # q
    BY <1>3, <2>2 DEF WaitsIn
  <2> QED BY <2>1, <2>2
<1> QED BY <1>2, <1>6, <1>7, <1>8 DEF new

LEMMA BuildHolds ==
  ASSUME ClusterInv, NEW b \in Builder, NEW sv, NEW cv, NEW q \in GivenQueues(b),
         Build(b, sv, cv, q)
  PROVE  ClusterInv'
<1>0. ClusterTypes /\ WaitsOnce /\ TakenOnce
  BY DEF ClusterInv
<1>1. PICK c \in Builder : q = Own(c)
  BY <1>0 DEF GivenQueues, ClusterTypes
<1>2. /\ UNCHANGED <<waiting, registered, dequeued>> /\ b \notin handles
      /\ \/ /\ handles' = handles \cup {b}
            /\ eval_queue' = [eval_queue EXCEPT ![b] = q]
         \/ UNCHANGED <<handles, eval_queue>>
  BY DEF Build, EndpointQueue
<1>3. /\ \A x : \A r : WaitsIn(waiting', x, r) <=> WaitsIn(waiting, x, r)
      /\ \A x : Taken(dequeued', x) <=> Taken(dequeued, x)
      /\ \A d \in handles : d \in handles' /\ eval_queue'[d] = eval_queue[d]
  BY <1>0, <1>2 DEF WaitsIn, Taken, ClusterTypes
<1>4. q \in Queue
  BY <1>1, QueuesDiffer
<1>5. ClusterTypes'
  <2>1. handles' \subseteq Builder
    BY <1>0, <1>2 DEF ClusterTypes
  <2>2. eval_queue' \in [Builder -> Queue \cup {NoQueue}]
    BY <1>0, <1>2, <1>4 DEF ClusterTypes
  <2>3. \A d \in handles' : \E e \in Builder : eval_queue'[d] = Own(e)
    <3>1. CASE UNCHANGED <<handles, eval_queue>>
      BY <1>0, <3>1 DEF ClusterTypes
    <3>2. CASE handles' = handles \cup {b} /\ eval_queue' = [eval_queue EXCEPT ![b] = q]
      <4>1. eval_queue'[b] = Own(c)
        BY <1>0, <1>1, <3>2 DEF ClusterTypes
      <4> QED BY <1>0, <1>3, <3>2, <4>1 DEF ClusterTypes
    <3> QED BY <1>2, <3>1, <3>2
  <2>4. /\ waiting' \in [Queue -> Seq(Nat)]
        /\ registered' \in Seq([priority : EvalPriority, at : Builder \cup {NoQueue}])
        /\ dequeued' \in Seq(Receipt)
    BY <1>0, <1>2 DEF ClusterTypes
  <2> QED BY <2>1, <2>2, <2>3, <2>4 DEF ClusterTypes
<1>6. \A n \in DOMAIN registered : registered[n].at # NoQueue => registered[n].at \in handles
  BY <1>0 DEF TakenOnce
<1>7. WaitsOnce'
  BY <1>0, <1>2, <1>3, <1>6 DEF WaitsOnce
<1>8. TakenOnce'
  BY <1>0, <1>2, <1>3 DEF TakenOnce
<1> QED BY <1>5, <1>7, <1>8 DEF ClusterInv

\* register_job through a handle, and a registration at the server.
LEMMA RegisterHolds ==
  ASSUME ClusterInv, NEW b \in Builder, NEW p \in EvalPriority,
         RegisterThrough(b, p) \/ RegisterAtServer(b, p)
  PROVE  ClusterInv'
<1>0. ClusterTypes /\ WaitsOnce /\ TakenOnce
  BY DEF ClusterInv
<1> DEFINE new == Len(registered) + 1
<1>1. PICK q \in Queue, at \in handles \cup {NoQueue} :
        /\ registered' = Append(registered, [priority |-> p, at |-> at])
        /\ waiting' = [waiting EXCEPT ![q] = Append(@, new)]
        /\ at # NoQueue => q = eval_queue[at]
        /\ at = NoQueue => \E c \in Builder : q = ServerQueue(c)
  <2>1. CASE RegisterThrough(b, p)
    <3>1. b \in handles /\ b # NoQueue /\ eval_queue[b] \in Queue
      BY <1>0, <2>1, QueuesDiffer, ClusterAssumption DEF RegisterThrough, ClusterTypes
    <3> QED BY <2>1, <3>1 DEF RegisterThrough
  <2>2. CASE RegisterAtServer(b, p)
    <3>1. ServerQueue(b) \in Queue
      BY QueuesDiffer
    <3> QED BY <2>2, <3>1 DEF RegisterAtServer
  <2> QED BY <2>1, <2>2
<1>2. UNCHANGED <<handles, eval_queue, dequeued>> /\ handles \subseteq Builder
  BY <1>0 DEF RegisterThrough, RegisterAtServer, ClusterTypes
<1>3. /\ new \in Nat
      /\ registered' \in Seq([priority : EvalPriority, at : Builder \cup {NoQueue}])
      /\ new \notin DOMAIN registered
      /\ DOMAIN registered' = DOMAIN registered \cup {new}
      /\ registered'[new] = [priority |-> p, at |-> at]
      /\ \A n \in DOMAIN registered : n \in Nat /\ registered'[n] = registered[n]
      /\ waiting' \in [Queue -> Seq(Nat)]
      /\ \A r \in Queue : \A j, k \in DOMAIN waiting'[r] : waiting'[r][j] = waiting'[r][k] => j = k
      /\ \A r \in Queue : \A n \in Nat : WaitsIn(waiting', n, r) <=> WaitsIn(waiting, n, r) \/ (n = new /\ r = q)
  <2> DEFINE entry == [priority |-> p, at |-> at]
  <2>1. entry \in [priority : EvalPriority, at : Builder \cup {NoQueue}]
    BY <1>2
  <2> HIDE DEF entry
  <2>2. registered' = Append(registered, entry)
    BY <1>1 DEF entry
  <2> QED BY <1>1, <2>1, <2>2, OneEnters DEF entry
<1> HIDE DEF new
<1>4. registered'[new].at = at
  BY <1>3
<1>5. ClusterTypes'
  BY <1>0, <1>2, <1>3 DEF ClusterTypes
<1>6. WaitsOnce'
  <2>1. \A r, u \in Queue : \A n \in Nat : WaitsIn(waiting', n, r) /\ WaitsIn(waiting', n, u) => r = u
    BY <1>0, <1>3 DEF WaitsOnce
  <2>2. \A r \in Queue : \A n \in Nat :
          WaitsIn(waiting', n, r) =>
            /\ n \in DOMAIN registered'
            /\ registered'[n].at # NoQueue => r = eval_queue'[registered'[n].at]
            /\ registered'[n].at = NoQueue => \E c \in Builder : r = ServerQueue(c)
    <3> SUFFICES ASSUME NEW r \in Queue, NEW n \in Nat, WaitsIn(waiting', n, r)
                 PROVE  /\ n \in DOMAIN registered'
                        /\ registered'[n].at # NoQueue => r = eval_queue'[registered'[n].at]
                        /\ registered'[n].at = NoQueue => \E c \in Builder : r = ServerQueue(c)
      OBVIOUS
    <3>1. CASE WaitsIn(waiting, n, r)
      BY <1>0, <1>2, <1>3, <3>1 DEF WaitsOnce
    <3>2. CASE n = new /\ r = q
      BY <1>1, <1>2, <1>3, <1>4, <3>2
    <3> QED BY <1>3, <3>1, <3>2
  <2> QED BY <1>3, <2>1, <2>2 DEF WaitsOnce
<1>7. TakenOnce'
  <2>1. \A x : Taken(dequeued', x) <=> Taken(dequeued, x)
    BY <1>2 DEF Taken
  <2>2. \A n \in DOMAIN registered' :
          registered'[n].at # NoQueue =>
            /\ registered'[n].at \in handles'
            /\ WaitsIn(waiting', n, eval_queue[registered'[n].at]) \/ Taken(dequeued', n)
    <3> SUFFICES ASSUME NEW n \in DOMAIN registered', registered'[n].at # NoQueue
                 PROVE  /\ registered'[n].at \in handles
                        /\ WaitsIn(waiting', n, eval_queue[registered'[n].at]) \/ Taken(dequeued', n)
      BY <1>2
    <3>1. CASE n \in DOMAIN registered
      <4>1. eval_queue[registered[n].at] \in Queue
        BY <1>0, <1>3, <3>1, QueuesDiffer, SMTT(30) DEF TakenOnce, ClusterTypes
      <4> QED BY <1>0, <1>2, <1>3, <2>1, <3>1, <4>1 DEF TakenOnce
    <3>2. CASE n = new
      <4>1. registered'[n].at = at /\ at \in handles /\ q = eval_queue[at]
        BY <1>1, <1>4, <3>2
      <4>2. WaitsIn(waiting', n, q)
        BY <1>3, <3>2
      <4> QED BY <1>2, <4>1, <4>2
    <3> QED BY <1>3, <3>1, <3>2
  <2>3. \A i \in DOMAIN dequeued :
          LET n == dequeued[i].eval IN
          /\ n \in DOMAIN registered' /\ registered'[n].at # NoQueue
          /\ dequeued[i].at \in handles
          /\ eval_queue[dequeued[i].at] = eval_queue[registered'[n].at]
          /\ \A r \in Queue : ~WaitsIn(waiting', n, r)
    BY <1>0, <1>3 DEF TakenOnce
  <2> QED BY <1>0, <1>2, <2>2, <2>3 DEF TakenOnce
<1> QED BY <1>5, <1>6, <1>7 DEF ClusterInv

LEMMA DequeueEvalHolds ==
  ASSUME ClusterInv, NEW b \in Builder, DequeueEval(b)
  PROVE  ClusterInv'
<1>0. ClusterTypes /\ WaitsOnce /\ TakenOnce
  BY DEF ClusterInv
<1> DEFINE q == eval_queue[b]
<1>1. PICK i \in DOMAIN waiting[q] :
        /\ dequeued' = Append(dequeued, [eval |-> waiting[q][i], at |-> b])
        /\ waiting' = [waiting EXCEPT ![q] = RemoveAt(@, i)]
  BY DEF DequeueEval
<1> DEFINE e == waiting[q][i]
<1>2. /\ UNCHANGED <<handles, eval_queue, registered>> /\ b \in handles
      /\ \E c \in Builder : q = Own(c)
  BY <1>0 DEF DequeueEval, ClusterTypes
<1>3. q \in Queue /\ \A c \in Builder : q # ServerQueue(c)
  BY <1>2, QueuesDiffer
<1>4. /\ e \in Nat /\ WaitsIn(waiting, e, q) /\ waiting' \in [Queue -> Seq(Nat)]
      /\ \A r \in Queue : \A j, k \in DOMAIN waiting'[r] : waiting'[r][j] = waiting'[r][k] => j = k
      /\ \A r \in Queue : \A n \in Nat : WaitsIn(waiting', n, r) <=> WaitsIn(waiting, n, r) /\ n # e
  <2> HIDE DEF q
  <2> QED BY <1>1, <1>3, OneLeaves
<1>5. e \in DOMAIN registered /\ registered[e].at # NoQueue /\ q = eval_queue[registered[e].at]
  BY <1>0, <1>3, <1>4 DEF WaitsOnce
<1> HIDE DEF e
<1>6. /\ dequeued' \in Seq(Receipt)
      /\ DOMAIN dequeued' = DOMAIN dequeued \cup {Len(dequeued) + 1}
      /\ Len(dequeued) + 1 \notin DOMAIN dequeued
      /\ dequeued'[Len(dequeued) + 1].eval = e /\ dequeued'[Len(dequeued) + 1].at = b
      /\ \A j \in DOMAIN dequeued : dequeued'[j] = dequeued[j] /\ dequeued[j].eval \in Nat
  <2> DEFINE entry == [eval |-> e, at |-> b]
  <2>1. entry \in Receipt /\ entry.eval = e /\ entry.at = b
    BY <1>4 DEF Receipt
  <2>2. dequeued' = Append(dequeued, entry)
    BY <1>1 DEF e
  <2> HIDE DEF entry
  <2>3. /\ dequeued' \in Seq(Receipt)
        /\ DOMAIN dequeued' = DOMAIN dequeued \cup {Len(dequeued) + 1}
        /\ Len(dequeued) + 1 \notin DOMAIN dequeued
        /\ dequeued'[Len(dequeued) + 1] = entry
        /\ \A j \in DOMAIN dequeued :
             dequeued'[j] = dequeued[j] /\ dequeued[j] \in Receipt
    BY <1>0, <2>1, <2>2 DEF ClusterTypes
  <2> QED BY <2>1, <2>3 DEF Receipt
<1>7. ClusterTypes'
  BY <1>0, <1>2, <1>4, <1>6 DEF ClusterTypes
<1>8. WaitsOnce'
  BY <1>0, <1>2, <1>4 DEF WaitsOnce
<1>9. TakenOnce'
  <2>1. \A j \in DOMAIN dequeued : dequeued[j].eval # e
    BY <1>0, <1>3, <1>4 DEF TakenOnce
  <2>2. \A j, k \in DOMAIN dequeued' : dequeued'[j].eval = dequeued'[k].eval => j = k
    BY <1>0, <1>6, <2>1 DEF TakenOnce
  <2>3. \A j \in DOMAIN dequeued' :
          LET n == dequeued'[j].eval IN
          /\ n \in DOMAIN registered /\ registered[n].at # NoQueue
          /\ dequeued'[j].at \in handles
          /\ eval_queue[dequeued'[j].at] = eval_queue[registered[n].at]
          /\ \A r \in Queue : ~WaitsIn(waiting', n, r)
    <3> TAKE j \in DOMAIN dequeued'
    <3>1. CASE j \in DOMAIN dequeued
      BY <1>0, <1>4, <1>6, <3>1 DEF TakenOnce
    <3>2. CASE j = Len(dequeued) + 1
      BY <1>2, <1>4, <1>5, <1>6, <3>2
    <3> QED BY <1>6, <3>1, <3>2
  <2>4. \A n \in DOMAIN registered :
          registered[n].at # NoQueue =>
            /\ registered[n].at \in handles
            /\ WaitsIn(waiting', n, eval_queue[registered[n].at]) \/ Taken(dequeued', n)
    <3> SUFFICES ASSUME NEW n \in DOMAIN registered, registered[n].at # NoQueue
                 PROVE  /\ registered[n].at \in handles
                        /\ WaitsIn(waiting', n, eval_queue[registered[n].at]) \/ Taken(dequeued', n)
      OBVIOUS
    <3>1. /\ n \in Nat /\ registered[n].at \in handles
          /\ WaitsIn(waiting, n, eval_queue[registered[n].at]) \/ Taken(dequeued, n)
      BY <1>0 DEF TakenOnce, ClusterTypes
    <3>2. eval_queue[registered[n].at] \in Queue
      BY <1>0, <3>1, QueuesDiffer DEF ClusterTypes
    <3>3. Taken(dequeued, n) => Taken(dequeued', n)
      BY <1>6 DEF Taken
    <3>4. n = e => Taken(dequeued', n)
      BY <1>6 DEF Taken
    <3>5. n # e /\ WaitsIn(waiting, n, eval_queue[registered[n].at])
            => WaitsIn(waiting', n, eval_queue[registered[n].at])
      BY <1>2, <1>4, <3>1, <3>2
    <3> QED BY <3>1, <3>3, <3>4, <3>5
  <2> QED BY <1>2, <2>2, <2>3, <2>4 DEF TakenOnce
<1> QED BY <1>7, <1>8, <1>9 DEF ClusterInv

\* The server's worker takes only what was registered at the server.
LEMMA ServerTakesHolds ==
  ASSUME ClusterInv, NEW b \in Builder, ServerTakes(b)
  PROVE  ClusterInv'
<1>0. ClusterTypes /\ WaitsOnce /\ TakenOnce
  BY DEF ClusterInv
<1> DEFINE q == ServerQueue(b)
<1>1. PICK i \in DOMAIN waiting[q] : waiting' = [waiting EXCEPT ![q] = RemoveAt(@, i)]
  BY DEF ServerTakes
<1> DEFINE e == waiting[q][i]
<1>2. UNCHANGED <<handles, eval_queue, registered, dequeued>>
  BY DEF ServerTakes
<1>3. q \in Queue /\ \A c \in Builder : q # Own(c)
  BY QueuesDiffer
<1> HIDE DEF q
<1>4. /\ e \in Nat /\ WaitsIn(waiting, e, q) /\ waiting' \in [Queue -> Seq(Nat)]
      /\ \A r \in Queue : \A j, k \in DOMAIN waiting'[r] : waiting'[r][j] = waiting'[r][k] => j = k
      /\ \A r \in Queue : \A n \in Nat : WaitsIn(waiting', n, r) <=> WaitsIn(waiting, n, r) /\ n # e
  BY <1>1, <1>3, OneLeaves
<1> HIDE DEF e
<1>5. e \in DOMAIN registered /\ registered[e].at = NoQueue
  BY <1>0, <1>3, <1>4 DEF WaitsOnce, TakenOnce, ClusterTypes
<1>6. ClusterTypes'
  BY <1>0, <1>2, <1>4 DEF ClusterTypes
<1>7. WaitsOnce'
  BY <1>0, <1>2, <1>4 DEF WaitsOnce
<1>8. TakenOnce'
  <2>1. \A n \in DOMAIN registered :
          registered[n].at # NoQueue =>
            /\ registered[n].at \in handles
            /\ WaitsIn(waiting', n, eval_queue[registered[n].at]) \/ Taken(dequeued', n)
    <3> SUFFICES ASSUME NEW n \in DOMAIN registered, registered[n].at # NoQueue
                 PROVE  /\ registered[n].at \in handles
                        /\ WaitsIn(waiting', n, eval_queue[registered[n].at]) \/ Taken(dequeued', n)
      OBVIOUS
    <3>1. /\ n \in Nat /\ registered[n].at \in handles /\ n # e
          /\ WaitsIn(waiting, n, eval_queue[registered[n].at]) \/ Taken(dequeued, n)
      BY <1>0, <1>5 DEF TakenOnce, ClusterTypes
    <3>2. eval_queue[registered[n].at] \in Queue
      BY <1>0, <3>1, QueuesDiffer DEF ClusterTypes
    <3>3. Taken(dequeued, n) => Taken(dequeued', n)
      BY <1>2 DEF Taken
    <3> QED BY <1>2, <1>4, <3>1, <3>2, <3>3
  <2>2. \A j \in DOMAIN dequeued : dequeued[j].eval \in Nat
    <3>1. \A j \in DOMAIN dequeued : dequeued[j] \in Receipt
      BY <1>0 DEF ClusterTypes
    <3> QED BY <3>1 DEF Receipt
  <2> QED BY <1>0, <1>2, <1>4, <2>1, <2>2 DEF TakenOnce
<1> QED BY <1>6, <1>7, <1>8 DEF ClusterInv

LEMMA ClusterStepHolds == ClusterInv /\ [ClusterNext]_clusterVars => ClusterInv'
<1> SUFFICES ASSUME ClusterInv, [ClusterNext]_clusterVars PROVE ClusterInv'
  OBVIOUS
<1>1. ASSUME NEW b \in Builder, ShutdownCluster(b) PROVE ClusterInv'
  <2>1. UNCHANGED <<handles, eval_queue, waiting, registered, dequeued>>
    BY <1>1 DEF ShutdownCluster
  <2> QED BY <2>1 DEF ClusterInv, ClusterTypes, WaitsOnce, TakenOnce
<1>2. CASE UNCHANGED clusterVars
  BY <1>2 DEF clusterVars, ClusterInv, ClusterTypes, WaitsOnce, TakenOnce
<1>3. CASE ClusterNext
  BY <1>1, <1>3, BuildHolds, RegisterHolds, DequeueEvalHolds, ServerTakesHolds DEF ClusterNext
<1> QED BY <1>2, <1>3

\* integration.rs: what is registered through a handle is returned by exactly
\* one dequeue_eval over the same queue, for any number of clusters and
\* whatever their servers' workers do.
THEOREM RegisteredIsDequeuedHolds == ClusterSpec => []RegisteredIsDequeued
<1>1. ClusterInit => ClusterInv
  BY DEF ClusterInit, ClusterInv, ClusterTypes, WaitsOnce, TakenOnce, WaitsIn
<1>2. ClusterInv => RegisteredIsDequeued
  <2> SUFFICES ASSUME ClusterInv, NEW n \in DOMAIN registered
               PROVE  LET b == registered[n].at
                          takenAt == {i \in DOMAIN dequeued : dequeued[i].eval = n}
                      IN  IF b = NoQueue
                            THEN takenAt = {}
                            ELSE \/ \E i \in DOMAIN waiting[eval_queue[b]] :
                                      waiting[eval_queue[b]][i] = n /\ takenAt = {}
                                 \/ \E i \in DOMAIN dequeued :
                                      takenAt = {i} /\ eval_queue[dequeued[i].at] = eval_queue[b]
    BY DEF RegisteredIsDequeued
  <2> DEFINE b == registered[n].at
             takenAt == {i \in DOMAIN dequeued : dequeued[i].eval = n}
  <2>0. ClusterTypes /\ TakenOnce
    BY DEF ClusterInv
  <2>1. CASE b = NoQueue
    BY <2>0, <2>1 DEF TakenOnce
  <2>2. CASE b # NoQueue /\ Taken(dequeued, n)
    <3>1. PICK i \in DOMAIN dequeued : dequeued[i].eval = n
      BY <2>2 DEF Taken
    <3>2. takenAt = {i} /\ eval_queue[dequeued[i].at] = eval_queue[b]
      BY <2>0, <3>1 DEF TakenOnce
    <3> QED BY <2>2, <3>2
  <2>3. CASE b # NoQueue /\ ~Taken(dequeued, n)
    <3>1. WaitsIn(waiting, n, eval_queue[b]) /\ takenAt = {}
      BY <2>0, <2>3 DEF TakenOnce, Taken
    <3> QED BY <2>3, <3>1 DEF WaitsIn
  <2> QED BY <2>1, <2>2, <2>3
<1> QED BY <1>1, <1>2, ClusterStepHolds, PTL DEF ClusterSpec

----------------------------------------------------------------------------
(* RPC connections.                                                        *)

Unit == (1 .. MaxCalls) \X BOOLEAN \X (1 .. 3)

WireTypes ==
  /\ client \in [Conn -> {"unused", "idle", "writing", "reading", "gone"}]
  /\ call \in [Conn -> [n : 0 .. MaxCalls, bad : BOOLEAN]]
  /\ sent \in [Conn -> 0 .. 3]
  /\ up \in [Conn -> Seq(Unit)]
  /\ down \in [Conn -> Seq(Unit)]
  /\ server \in [Conn -> {"none", "backlog", "reading", "writing", "starved", "ended"}]
  /\ answering \in [Conn -> (0 .. MaxCalls) \X (0 .. 3)]
  /\ handled \in [Conn -> Seq(1 .. MaxCalls)]
  /\ result \in [Conn -> [1 .. MaxCalls -> 0 .. MaxCalls]]
  /\ spoiled \in [Conn -> BOOLEAN]

\* The position of a unit in everything the client ever writes.
Code(u) == 4 * u[1] + u[3]

InSeq(seq, x) == \E i \in DOMAIN seq : seq[i] = x

\* The conjuncts of the invariant are about one connection; what it holds is
\* passed to them, the units under way as u and d, the requests that were
\* handled as hs.

Busy(cl, n, st, srv, ans) ==
  /\ cl \in {"writing", "reading"} => n >= 1
  /\ cl = "writing" => st < 3
  /\ cl = "reading" => st = 3
  /\ srv = "writing" => ans[1] >= 1 /\ ans[2] < 3

\* Requests are under way in the order they were written, behind everything
\* that was handled already, and not beyond what was written (top).
Ordered(u, hs, top) ==
  /\ \A i, j \in DOMAIN u : i < j => Code(u[i]) < Code(u[j])
  /\ \A i \in DOMAIN u : Code(u[i]) <= top
  /\ \A h \in DOMAIN hs : 4 * hs[h] + 3 <= top
  /\ \A h \in DOMAIN hs : \A i \in DOMAIN u : 4 * hs[h] + 3 < Code(u[i])
  /\ \A i, j \in DOMAIN hs : i < j => hs[i] < hs[j]

\* Only what was handled is answered.
Answered(hs, d, srv, ans, res) ==
  /\ \A i \in DOMAIN d : InSeq(hs, d[i][1])
  /\ srv = "writing" => InSeq(hs, ans[1])
  /\ \A n \in 1 .. MaxCalls : res[n] # 0 => InSeq(hs, res[n])

\* u is the beginning of the frame of a request.
Begun(u, n, bad, length) ==
  Len(u) = length /\ \A i \in DOMAIN u : u[i] = <<n, bad, i>>

\* On a connection that is not spoiled, client and server take turns.
Turns(cl, n, bad, st, u, d, srv, ans) ==
  /\ cl = "unused" => d = <<>> /\ srv = "none"
  /\ cl \in {"idle", "writing"} => d = <<>> /\ srv \in {"backlog", "reading", "ended"}
  /\ cl = "reading" => Len(d) <= 3 /\ \A i \in DOMAIN d : d[i][1] = n
  /\ srv # "ended" =>
       /\ cl \in {"unused", "idle"} => u = <<>>
       /\ cl = "writing" => Begun(u, n, bad, st)
       /\ cl = "reading" =>
            \/ srv \in {"backlog", "reading"} /\ d = <<>> /\ Begun(u, n, bad, 3)
            \/ srv = "writing" /\ u = <<>> /\ ans[1] = n /\ Len(d) = ans[2]
            \/ srv = "reading" /\ u = <<>> /\ Len(d) = 3

OwnResults(res) == \A n \in 1 .. MaxCalls : res[n] \in {0, n}

WireOk(k) ==
  /\ Busy(client[k], call[k].n, sent[k], server[k], answering[k])
  /\ Ordered(up[k], handled[k], 4 * call[k].n + sent[k])
  /\ Answered(handled[k], down[k], server[k], answering[k], result[k])
  /\ ~spoiled[k] => OwnResults(result[k])
  /\ ~spoiled[k] /\ client[k] # "gone" =>
       Turns(client[k], call[k].n, call[k].bad, sent[k], up[k], down[k], server[k], answering[k])

WireInv == WireTypes /\ \A k \in Conn : WireOk(k)

LEMMA UnitFacts ==
  ASSUME NEW x \in Unit
  PROVE  x[1] \in 1 .. MaxCalls /\ x[1] \in Int /\ Code(x) \in Int
  BY RpcWireAssumption DEF Unit, Code

\* What one step writes, it writes after everything else.
LEMMA OrderedSend ==
  ASSUME NEW u \in Seq(Unit), NEW hs \in Seq(1 .. MaxCalls), NEW n \in 1 .. MaxCalls,
         NEW bad \in BOOLEAN, NEW st \in 0 .. 2, Ordered(u, hs, 4 * n + st)
  PROVE  Ordered(Append(u, <<n, bad, st + 1>>), hs, 4 * n + (st + 1))
<1> DEFINE new == <<n, bad, st + 1>>
           v == Append(u, new)
<1>0. MaxCalls \in Nat /\ new \in Unit /\ Code(new) = 4 * n + (st + 1)
  BY RpcWireAssumption DEF Unit, Code
<1>1. \A i \in DOMAIN u : Code(u[i]) \in Int /\ Code(u[i]) < 4 * n + (st + 1)
  <2>1. \A i \in DOMAIN u : u[i] \in Unit
    OBVIOUS
  <2>2. \A i \in DOMAIN u : Code(u[i]) \in Int
    BY <2>1, UnitFacts
  <2> QED BY <2>2 DEF Ordered
<1>2. \A h \in DOMAIN hs : hs[h] \in Int /\ 4 * hs[h] + 3 < 4 * n + (st + 1)
  <2>1. \A h \in DOMAIN hs : hs[h] \in Int
    BY <1>0
  <2> QED BY <2>1 DEF Ordered
<1> HIDE DEF new
<1>3. /\ Len(u) \in Nat /\ DOMAIN u = 1 .. Len(u) /\ DOMAIN v = 1 .. (Len(u) + 1)
      /\ v[Len(u) + 1] = new /\ \A i \in DOMAIN u : v[i] = u[i]
  BY <1>0
<1> HIDE DEF v
<1>4. \A i \in DOMAIN v : (i \in DOMAIN u /\ v[i] = u[i]) \/ (i = Len(u) + 1 /\ v[i] = new)
  BY <1>3
<1>5. \A i, j \in DOMAIN v : i < j => Code(v[i]) < Code(v[j])
  <2> SUFFICES ASSUME NEW i \in DOMAIN v, NEW j \in DOMAIN v, i < j PROVE Code(v[i]) < Code(v[j])
    OBVIOUS
  <2>1. i \in DOMAIN u
    BY <1>3
  <2>2. CASE j \in DOMAIN u
    BY <1>3, <2>1, <2>2 DEF Ordered
  <2>3. CASE j = Len(u) + 1
    BY <1>0, <1>1, <1>3, <2>1, <2>3
  <2> QED BY <1>4, <2>2, <2>3
<1>6. \A i \in DOMAIN v : Code(v[i]) <= 4 * n + (st + 1)
  BY <1>0, <1>1, <1>4
<1>7. \A h \in DOMAIN hs : 4 * hs[h] + 3 <= 4 * n + (st + 1)
  BY <1>2
<1>8. \A h \in DOMAIN hs : \A i \in DOMAIN v : 4 * hs[h] + 3 < Code(v[i])
  BY <1>0, <1>2, <1>4 DEF Ordered
<1> QED BY <1>5, <1>6, <1>7, <1>8 DEF Ordered, v, new

\* A frame is taken off the stream: the rest of it is still in order, and
\* behind the request that was taken.
LEMMA OrderedTake ==
  ASSUME NEW u \in Seq(Unit), NEW hs \in Seq(1 .. MaxCalls), NEW top \in Nat,
         Ordered(u, hs, top), Len(u) >= 3
  PROVE  LET v == SubSeq(u, 4, Len(u)) IN
         /\ v \in Seq(Unit) /\ Ordered(v, hs, top)
         /\ IsFrame(SubSeq(u, 1, 3)) =>
              /\ u[1][1] \in 1 .. MaxCalls
              /\ Append(hs, u[1][1]) \in Seq(1 .. MaxCalls)
              /\ Ordered(v, Append(hs, u[1][1]), top)
<1> DEFINE v == SubSeq(u, 4, Len(u))
<1>0. MaxCalls \in Nat /\ Len(u) \in Nat /\ DOMAIN u = 1 .. Len(u)
  BY RpcWireAssumption
<1>1. /\ v \in Seq(Unit) /\ DOMAIN v = 1 .. (Len(u) - 3)
      /\ \A i \in DOMAIN v : v[i] = u[i + 3] /\ i + 3 \in DOMAIN u /\ i \in Nat
  BY <1>0
<1> HIDE DEF v
<1>2. \A i \in DOMAIN u : u[i] \in Unit /\ u[i][1] \in 1 .. MaxCalls /\ Code(u[i]) \in Int
  BY <1>0 DEF Unit, Code
<1>3. Ordered(v, hs, top)
  BY <1>1 DEF Ordered
<1>4. ASSUME IsFrame(SubSeq(u, 1, 3))
      PROVE  /\ u[1][1] \in 1 .. MaxCalls
             /\ Append(hs, u[1][1]) \in Seq(1 .. MaxCalls)
             /\ Ordered(v, Append(hs, u[1][1]), top)
  <2> DEFINE n == u[1][1]
             gs == Append(hs, n)
  <2>1. n \in 1 .. MaxCalls /\ 1 \in DOMAIN u /\ 3 \in DOMAIN u
    BY <1>0, <1>2
  <2>2. Code(u[1]) = 4 * n + 1 /\ Code(u[3]) = 4 * n + 3
    <3>1. PICK m \in 1 .. MaxCalls, bad \in BOOLEAN : SubSeq(u, 1, 3) = Frame(m, bad)
      BY <1>4 DEF IsFrame
    <3>2. SubSeq(u, 1, 3)[1] = u[1] /\ SubSeq(u, 1, 3)[3] = u[3]
      BY <1>0
    <3>3. Frame(m, bad)[1] = <<m, bad, 1>> /\ Frame(m, bad)[3] = <<m, bad, 3>>
      BY DEF Frame
    <3>4. u[1] = <<m, bad, 1>> /\ u[3] = <<m, bad, 3>>
      BY <3>1, <3>2, <3>3
    <3> QED BY <3>4 DEF Code
  <2> HIDE DEF n
  <2>3. \A h \in DOMAIN hs : hs[h] \in 1 .. MaxCalls /\ hs[h] < n
    <3> TAKE h \in DOMAIN hs
    <3>1. hs[h] \in 1 .. MaxCalls
      BY <1>0
    <3>2. 4 * hs[h] + 3 < 4 * n + 1
      BY <2>1, <2>2 DEF Ordered
    <3> QED BY <1>0, <2>1, <3>1, <3>2
  <2>4. /\ gs \in Seq(1 .. MaxCalls) /\ Len(hs) \in Nat
        /\ DOMAIN hs = 1 .. Len(hs) /\ DOMAIN gs = 1 .. (Len(hs) + 1)
        /\ gs[Len(hs) + 1] = n /\ \A h \in DOMAIN hs : gs[h] = hs[h]
    BY <2>1
  <2> HIDE DEF gs
  <2>5. \A h \in DOMAIN gs : (h \in DOMAIN hs /\ gs[h] = hs[h]) \/ (h = Len(hs) + 1 /\ gs[h] = n)
    BY <2>4
  <2>6. \A h \in DOMAIN gs : 4 * gs[h] + 3 <= top
    BY <2>1, <2>2, <2>5 DEF Ordered
  <2>7. \A i \in DOMAIN v : 4 * n + 3 < Code(v[i])
    BY <1>1, <2>1, <2>2 DEF Ordered
  <2>8. \A h \in DOMAIN gs : \A i \in DOMAIN v : 4 * gs[h] + 3 < Code(v[i])
    BY <1>3, <2>5, <2>7 DEF Ordered
  <2>9. \A i, j \in DOMAIN gs : i < j => gs[i] < gs[j]
    BY <2>3, <2>4, <2>5 DEF Ordered
  <2> QED BY <1>3, <2>1, <2>4, <2>6, <2>8, <2>9 DEF Ordered, gs, n
<1> QED BY <1>1, <1>3, <1>4 DEF v

LEMMA InSeqAppend ==
  ASSUME NEW S, NEW s \in Seq(S), NEW e \in S
  PROVE  InSeq(Append(s, e), e) /\ \A x : InSeq(s, x) => InSeq(Append(s, e), x)
<1>1. /\ DOMAIN Append(s, e) = DOMAIN s \cup {Len(s) + 1}
      /\ Append(s, e)[Len(s) + 1] = e /\ \A i \in DOMAIN s : Append(s, e)[i] = s[i]
  OBVIOUS
<1> QED BY <1>1 DEF InSeq

\* A step leaves the other connections alone.
LEMMA OneConnection ==
  ASSUME WireInv, NEW k \in Conn, WireTypes', WireOk(k)',
         \A j \in Conn \ {k} :
           /\ client'[j] = client[j] /\ call'[j] = call[j] /\ sent'[j] = sent[j]
           /\ up'[j] = up[j] /\ down'[j] = down[j] /\ server'[j] = server[j]
           /\ answering'[j] = answering[j] /\ handled'[j] = handled[j]
           /\ result'[j] = result[j] /\ spoiled'[j] = spoiled[j]
  PROVE  WireInv'
<1> SUFFICES ASSUME NEW j \in Conn \ {k} PROVE WireOk(j)'
  BY DEF WireInv
<1>1. WireOk(j)
  BY DEF WireInv
<1> QED BY <1>1 DEF WireOk

\* Of a connection in use, by the invariant.
LEMMA AtConn ==
  ASSUME WireInv, NEW k \in Conn
  PROVE  /\ MaxCalls \in Nat /\ WireTypes /\ WireOk(k)
         /\ client[k] \in {"unused", "idle", "writing", "reading", "gone"}
         /\ call[k].n \in 0 .. MaxCalls /\ call[k].bad \in BOOLEAN /\ sent[k] \in 0 .. 3
         /\ up[k] \in Seq(Unit) /\ down[k] \in Seq(Unit)
         /\ server[k] \in {"none", "backlog", "reading", "writing", "starved", "ended"}
         /\ answering[k] \in (0 .. MaxCalls) \X (0 .. 3)
         /\ handled[k] \in Seq(1 .. MaxCalls) /\ result[k] \in [1 .. MaxCalls -> 0 .. MaxCalls]
         /\ spoiled[k] \in BOOLEAN
  BY RpcWireAssumption DEF WireInv, WireTypes

\* The steps that change only where client and server are.
LEMMA MoveHolds ==
  ASSUME WireInv, NEW k \in Conn,
         Connect(k) \/ Abandon(k) \/ Hangup(k) \/ Accept(k) \/ EndOfStream(k) \/ AnswerFails(k)
  PROVE  WireInv'
<1>0. /\ MaxCalls \in Nat /\ WireTypes /\ WireOk(k)
      /\ up[k] \in Seq(Unit) /\ sent[k] \in 0 .. 3
  BY AtConn
<1>1. /\ UNCHANGED <<call, sent, up, down, answering, handled, result>>
      /\ \A j \in Conn \ {k} :
           client'[j] = client[j] /\ server'[j] = server[j] /\ spoiled'[j] = spoiled[j]
  BY <1>0 DEF Connect, Abandon, Hangup, Accept, EndOfStream, AnswerFails, WireTypes
<1>2. WireTypes'
  <2>1. /\ client' \in [Conn -> {"unused", "idle", "writing", "reading", "gone"}]
        /\ server' \in [Conn -> {"none", "backlog", "reading", "writing", "starved", "ended"}]
        /\ spoiled' \in [Conn -> BOOLEAN]
    BY <1>0 DEF Connect, Abandon, Hangup, Accept, EndOfStream, AnswerFails, WireTypes
  <2> QED BY <1>0, <1>1, <2>1 DEF WireTypes
<1>3. WireOk(k)'
  <2>1. CASE Connect(k)
    <3>1. /\ client[k] = "unused" /\ client'[k] = "idle" /\ server'[k] = "backlog"
          /\ spoiled'[k] = spoiled[k]
      BY <1>0, <2>1 DEF Connect, WireTypes
    <3> QED BY <1>0, <1>1, <3>1 DEF WireOk, Busy, Answered, Turns
  <2>2. CASE Abandon(k)
    <3>1. /\ client[k] \in {"writing", "reading"} /\ client'[k] = "idle" /\ server'[k] = server[k]
          /\ ~spoiled'[k] => ~spoiled[k] /\ ~(sent[k] > 0)
      BY <1>0, <2>2 DEF Abandon, WireTypes
    <3>2. ASSUME ~spoiled'[k]
          PROVE  Turns("idle", call[k].n, call[k].bad, sent[k], up[k], down[k], server[k], answering[k])
      <4>1. /\ ~spoiled[k] /\ sent[k] = 0 /\ client[k] = "writing"
            /\ Turns("writing", call[k].n, call[k].bad, sent[k], up[k], down[k], server[k], answering[k])
        BY <1>0, <3>1, <3>2 DEF WireOk, Busy
      <4>2. server[k] # "ended" => up[k] = <<>>
        BY <1>0, <4>1 DEF Turns, Begun
      <4> QED BY <4>1, <4>2 DEF Turns
    <3> QED BY <1>0, <1>1, <3>1, <3>2 DEF WireOk, Busy, Answered
  <2>3. CASE Hangup(k)
    <3>1. client'[k] = "gone" /\ server'[k] = server[k] /\ spoiled'[k] = spoiled[k]
      BY <1>0, <2>3 DEF Hangup, WireTypes
    <3> QED BY <1>0, <1>1, <3>1 DEF WireOk, Busy, Answered
  <2>4. CASE Accept(k)
    <3>1. /\ server[k] = "backlog" /\ client'[k] = client[k] /\ server'[k] = "reading"
          /\ spoiled'[k] = spoiled[k]
      BY <1>0, <2>4 DEF Accept, WireTypes
    <3> QED BY <1>0, <1>1, <3>1 DEF WireOk, Busy, Answered, Turns
  <2>5. CASE EndOfStream(k) \/ AnswerFails(k)
    <3>1. /\ client[k] = "gone" /\ client'[k] = "gone" /\ server'[k] = "ended"
          /\ spoiled'[k] = spoiled[k]
      BY <1>0, <2>5 DEF EndOfStream, AnswerFails, UpClosed, WireTypes
    <3> QED BY <1>0, <1>1, <3>1 DEF WireOk, Busy, Answered
  <2> QED BY <2>1, <2>2, <2>3, <2>4, <2>5
<1> QED BY <1>1, <1>2, <1>3, OneConnection

LEMMA CallHolds ==
  ASSUME WireInv, NEW k \in Conn, NEW bad \in BOOLEAN, Call(k, bad)
  PROVE  WireInv'
<1>0. /\ MaxCalls \in Nat /\ WireTypes /\ WireOk(k)
      /\ up[k] \in Seq(Unit) /\ handled[k] \in Seq(1 .. MaxCalls)
      /\ sent[k] \in 0 .. 3 /\ call[k].n \in 0 .. MaxCalls
  BY AtConn
<1>1. /\ client[k] = "idle" /\ call[k].n < MaxCalls
      /\ client'[k] = "writing" /\ sent'[k] = 0
      /\ call'[k] = [n |-> call[k].n + 1, bad |-> bad]
      /\ UNCHANGED <<up, down, server, answering, handled, result, spoiled>>
      /\ \A j \in Conn \ {k} :
           client'[j] = client[j] /\ call'[j] = call[j] /\ sent'[j] = sent[j]
  BY <1>0 DEF Call, WireTypes
<1>2. WireTypes'
  <2>1. /\ client' \in [Conn -> {"unused", "idle", "writing", "reading", "gone"}]
        /\ sent' \in [Conn -> 0 .. 3]
    BY <1>0, SMTT(30) DEF Call, WireTypes
  <2>2. call' \in [Conn -> [n : 0 .. MaxCalls, bad : BOOLEAN]]
    <3>1. [n |-> call[k].n + 1, bad |-> bad] \in [n : 0 .. MaxCalls, bad : BOOLEAN]
      BY <1>0, <1>1
    <3>2. call' = [call EXCEPT ![k] = [n |-> call[k].n + 1, bad |-> bad]]
      BY <1>0 DEF Call, WireTypes
    <3> QED BY <1>0, <3>1, <3>2 DEF WireTypes
  <2> QED BY <1>0, <1>1, <2>1, <2>2 DEF WireTypes
<1>3. WireOk(k)'
  <2> DEFINE top == 4 * call[k].n + sent[k]
             newTop == 4 * (call[k].n + 1) + 0
  <2>1. top \in Int /\ newTop \in Int /\ top <= newTop
    <3>1. \A x \in Nat, y \in 0 .. 3 :
            4 * x + y \in Int /\ 4 * (x + 1) + 0 \in Int /\ 4 * x + y <= 4 * (x + 1) + 0
      OBVIOUS
    <3>2. call[k].n \in Nat /\ sent[k] \in 0 .. 3
      BY <1>0
    <3> QED BY <3>1, <3>2
  <2>2. Ordered(up[k], handled[k], newTop)
    <3>1. Ordered(up[k], handled[k], top)
      BY <1>0 DEF WireOk
    <3>2. \A i \in DOMAIN up[k] : Code(up[k][i]) \in Int
      BY <1>0, UnitFacts
    <3>3. \A h \in DOMAIN handled[k] : handled[k][h] \in Int
      BY <1>0
    <3> HIDE DEF top, newTop
    <3> QED BY <2>1, <3>1, <3>2, <3>3 DEF Ordered
  <2>3. call'[k].n = call[k].n + 1 /\ call'[k].bad = bad
    BY <1>1
  <2>4. ~spoiled[k] =>
          Turns("writing", call[k].n + 1, bad, 0, up[k], down[k], server[k], answering[k])
    <3>1. Len(<<>>) = 0 /\ DOMAIN <<>> = {}
      OBVIOUS
    <3> QED BY <1>0, <1>1, <3>1 DEF WireOk, Turns, Begun
  <2>5. Busy("writing", call[k].n + 1, 0, server[k], answering[k])
    BY <1>0 DEF WireOk, Busy
  <2> QED BY <1>0, <1>1, <2>2, <2>3, <2>4, <2>5 DEF WireOk
<1> QED BY <1>1, <1>2, <1>3, OneConnection

LEMMA SendHolds ==
  ASSUME WireInv, NEW k \in Conn, Send(k)
  PROVE  WireInv'
<1> DEFINE n == call[k].n
           bad == call[k].bad
           st == sent[k]
           unit == <<n, bad, st + 1>>
<1>0. /\ MaxCalls \in Nat /\ WireTypes /\ WireOk(k) /\ client[k] = "writing"
      /\ up[k] \in Seq(Unit) /\ handled[k] \in Seq(1 .. MaxCalls)
      /\ st \in 0 .. 3 /\ n \in 0 .. MaxCalls /\ bad \in BOOLEAN
  BY AtConn DEF Send
<1>1. st \in 0 .. 2 /\ n \in 1 .. MaxCalls /\ unit \in Unit
  BY <1>0 DEF WireOk, Busy, Unit
<1>2. /\ sent'[k] = st + 1
      /\ up'[k] = Append(up[k], unit)
      /\ client'[k] = IF st + 1 = 3 THEN "reading" ELSE "writing"
      /\ UNCHANGED <<call, down, server, answering, handled, result, spoiled>>
      /\ \A j \in Conn \ {k} : client'[j] = client[j] /\ up'[j] = up[j] /\ sent'[j] = sent[j]
  BY <1>0 DEF Send, WireTypes
<1>3. WireTypes'
  <2>1. sent' \in [Conn -> 0 .. 3]
    BY <1>0, <1>1 DEF Send, WireTypes
  <2>2. client' \in [Conn -> {"unused", "idle", "writing", "reading", "gone"}]
    BY <1>0 DEF Send, WireTypes
  <2>3. up' \in [Conn -> Seq(Unit)]
    <3>1. Append(up[k], unit) \in Seq(Unit)
      BY <1>0, <1>1
    <3>2. up' = [up EXCEPT ![k] = Append(up[k], unit)]
      BY <1>0, <1>2 DEF Send, WireTypes
    <3> QED BY <1>0, <3>1, <3>2 DEF WireTypes
  <2> QED BY <1>0, <1>2, <2>1, <2>2, <2>3 DEF WireTypes
<1>4. WireOk(k)'
  <2>1. Ordered(Append(up[k], unit), handled[k], 4 * n + (st + 1))
    BY <1>0, <1>1, OrderedSend DEF WireOk
  <2>2. Busy(IF st + 1 = 3 THEN "reading" ELSE "writing", n, st + 1, server[k], answering[k])
    BY <1>0, <1>1 DEF WireOk, Busy
  <2>3. ~spoiled[k] =>
          Turns(IF st + 1 = 3 THEN "reading" ELSE "writing", n, bad, st + 1,
                Append(up[k], unit), down[k], server[k], answering[k])
    <3> SUFFICES ASSUME ~spoiled[k]
                 PROVE  Turns(IF st + 1 = 3 THEN "reading" ELSE "writing", n, bad, st + 1,
                              Append(up[k], unit), down[k], server[k], answering[k])
      OBVIOUS
    <3>1. Turns("writing", n, bad, st, up[k], down[k], server[k], answering[k])
      BY <1>0 DEF WireOk
    <3>2. down[k] = <<>> /\ server[k] \in {"backlog", "reading", "ended"}
      BY <3>1 DEF Turns
    <3>3. server[k] # "ended" => Begun(Append(up[k], unit), n, bad, st + 1)
      <4> SUFFICES ASSUME server[k] # "ended" PROVE Begun(Append(up[k], unit), n, bad, st + 1)
        OBVIOUS
      <4>1. Begun(up[k], n, bad, st)
        BY <3>1 DEF Turns
      <4>2. /\ Len(Append(up[k], unit)) = st + 1
            /\ DOMAIN Append(up[k], unit) = DOMAIN up[k] \cup {st + 1}
            /\ Append(up[k], unit)[st + 1] = unit
            /\ \A i \in DOMAIN up[k] : Append(up[k], unit)[i] = up[k][i]
        BY <1>0, <1>1, <4>1 DEF Begun
      <4> QED BY <4>1, <4>2 DEF Begun
    <3>4. Len(down[k]) = 0 /\ DOMAIN down[k] = {}
      BY <3>2
    <3>5. CASE st + 1 = 3
      BY <3>2, <3>3, <3>4, <3>5 DEF Turns
    <3>6. CASE st + 1 # 3
      BY <3>2, <3>3, <3>6 DEF Turns
    <3> QED BY <3>5, <3>6
  <2> QED BY <1>0, <1>2, <2>1, <2>2, <2>3 DEF WireOk
<1> QED BY <1>2, <1>3, <1>4, OneConnection

\* The call ends with an error: nothing is returned.
LEMMA FailHolds ==
  ASSUME WireInv, NEW k \in Conn, SendFails(k) \/ ReceiveFails(k)
  PROVE  WireInv'
<1>0. /\ MaxCalls \in Nat /\ WireTypes /\ WireOk(k)
      /\ call[k].n \in 0 .. MaxCalls /\ result[k] \in [1 .. MaxCalls -> 0 .. MaxCalls]
  BY AtConn
<1>1. /\ client[k] \in {"writing", "reading"} /\ client'[k] = "idle" /\ server[k] = "ended"
      /\ result' = [result EXCEPT ![k][call[k].n] = 0]
      /\ down'[k] = down[k] \/ down'[k] = <<>>
      /\ client[k] = "reading" => down'[k] = <<>>
      /\ UNCHANGED <<call, sent, up, server, answering, handled, spoiled>>
      /\ \A j \in Conn \ {k} : client'[j] = client[j] /\ down'[j] = down[j]
  BY <1>0 DEF SendFails, ReceiveFails, Return, DownClosed, WireTypes
<1>2. /\ call[k].n \in 1 .. MaxCalls
      /\ result'[k] = [result[k] EXCEPT ![call[k].n] = 0]
      /\ \A j \in Conn \ {k} : result'[j] = result[j]
  BY <1>0, <1>1 DEF WireOk, Busy, WireTypes
<1>3. /\ result'[k] \in [1 .. MaxCalls -> 0 .. MaxCalls]
      /\ \A m \in 1 .. MaxCalls : result'[k][m] = 0 \/ result'[k][m] = result[k][m]
  BY <1>0, <1>2
<1>4. WireTypes'
  <2>1. client' \in [Conn -> {"unused", "idle", "writing", "reading", "gone"}]
    <3>1. client' = [client EXCEPT ![k] = "idle"]
      BY DEF SendFails, ReceiveFails, Return
    <3> QED BY <1>0, <3>1 DEF WireTypes
  <2>2. down' \in [Conn -> Seq(Unit)]
    <3>1. <<>> \in Seq(Unit)
      OBVIOUS
    <3> QED BY <1>0, <3>1 DEF SendFails, ReceiveFails, WireTypes
  <2>3. result' \in [Conn -> [1 .. MaxCalls -> 0 .. MaxCalls]]
    <3>1. result' = [result EXCEPT ![k] = result'[k]]
      BY <1>0, <1>1 DEF WireTypes
    <3> QED BY <1>0, <1>3, <3>1 DEF WireTypes
  <2> QED BY <1>0, <1>1, <2>1, <2>2, <2>3 DEF WireTypes
<1>5. WireOk(k)'
  <2>1. Answered(handled[k], down'[k], server[k], answering[k], result'[k])
    BY <1>0, <1>1, <1>3 DEF WireOk, Answered
  <2>2. ~spoiled[k] => OwnResults(result'[k])
    BY <1>0, <1>3 DEF WireOk, OwnResults
  <2>3. ~spoiled[k] =>
          Turns("idle", call[k].n, call[k].bad, sent[k], up[k], down'[k], server[k], answering[k])
    BY <1>0, <1>1 DEF WireOk, Turns
  <2> QED BY <1>0, <1>1, <2>1, <2>2, <2>3 DEF WireOk, Busy
<1> QED BY <1>1, <1>2, <1>4, <1>5, OneConnection

\* A response is read: on a connection that is not spoiled it is the only
\* one, and the one to the present call.
LEMMA ReceiveHolds ==
  ASSUME WireInv, NEW k \in Conn, Receive(k)
  PROVE  WireInv'
<1> DEFINE got == down[k][1][1]
           rest == SubSeq(down[k], 4, Len(down[k]))
<1>0. /\ MaxCalls \in Nat /\ WireTypes /\ WireOk(k) /\ down[k] \in Seq(Unit)
      /\ call[k].n \in 0 .. MaxCalls /\ result[k] \in [1 .. MaxCalls -> 0 .. MaxCalls]
      /\ answering[k] \in (0 .. MaxCalls) \X (0 .. 3)
  BY AtConn
<1>1. /\ client[k] = "reading" /\ Len(down[k]) >= 3 /\ client'[k] = "idle"
      /\ result' = [result EXCEPT ![k][call[k].n] = got]
      /\ down'[k] = rest /\ down' = [down EXCEPT ![k] = rest]
      /\ UNCHANGED <<call, sent, up, server, answering, handled, spoiled>>
      /\ \A j \in Conn \ {k} : client'[j] = client[j] /\ down'[j] = down[j]
  BY <1>0 DEF Receive, Return, WireTypes
<1>2. /\ 1 \in DOMAIN down[k] /\ down[k][1] \in Unit /\ rest \in Seq(Unit)
      /\ \A i \in DOMAIN rest : i + 3 \in DOMAIN down[k] /\ rest[i] = down[k][i + 3]
      /\ Len(down[k]) <= 3 => rest = <<>>
  BY <1>0, <1>1
<1>3. got \in 1 .. MaxCalls /\ got \in 0 .. MaxCalls
  BY <1>0, <1>2, UnitFacts
<1> HIDE DEF rest, got
<1>4. /\ call[k].n \in 1 .. MaxCalls
      /\ result'[k] = [result[k] EXCEPT ![call[k].n] = got]
      /\ \A j \in Conn \ {k} : result'[j] = result[j]
  BY <1>0, <1>1 DEF WireOk, Busy, WireTypes
<1>5. /\ result'[k] \in [1 .. MaxCalls -> 0 .. MaxCalls]
      /\ \A m \in 1 .. MaxCalls : result'[k][m] = IF m = call[k].n THEN got ELSE result[k][m]
  BY <1>0, <1>3, <1>4
<1>6. WireTypes'
  <2>1. client' \in [Conn -> {"unused", "idle", "writing", "reading", "gone"}]
    BY <1>0 DEF Receive, Return, WireTypes
  <2>2. down' \in [Conn -> Seq(Unit)]
    BY <1>0, <1>1, <1>2 DEF WireTypes
  <2>3. result' \in [Conn -> [1 .. MaxCalls -> 0 .. MaxCalls]]
    <3>1. result' = [result EXCEPT ![k] = result'[k]]
      BY <1>0, <1>1 DEF WireTypes
    <3> QED BY <1>0, <1>5, <3>1 DEF WireTypes
  <2> QED BY <1>0, <1>1, <2>1, <2>2, <2>3 DEF WireTypes
<1>7. WireOk(k)'
  <2>1. Answered(handled[k], rest, server[k], answering[k], result'[k])
    <3>1. InSeq(handled[k], got)
      BY <1>0, <1>2 DEF WireOk, Answered, got
    <3> QED BY <1>0, <1>2, <1>5, <3>1 DEF WireOk, Answered
  <2>2. ASSUME ~spoiled[k]
        PROVE  /\ OwnResults(result'[k])
               /\ Turns("idle", call[k].n, call[k].bad, sent[k], up[k], rest, server[k], answering[k])
    <3>1. /\ OwnResults(result[k])
          /\ Turns("reading", call[k].n, call[k].bad, sent[k], up[k], down[k], server[k], answering[k])
          /\ server[k] = "writing" => answering[k][2] < 3
      BY <1>0, <1>1, <2>2 DEF WireOk, Busy
    <3>2. Len(down[k]) <= 3 /\ got = call[k].n
      BY <1>2, <3>1 DEF Turns, got
    <3>3. rest = <<>> /\ Len(down[k]) = 3 /\ down[k] # <<>>
      <4>1. rest = <<>>
        BY <1>2, <3>2
      <4>2. Len(down[k]) \in Nat /\ Len(down[k]) >= 3
        BY <1>0, <1>1
      <4>3. Len(down[k]) = 3
        <5>1. \A x \in Nat : x >= 3 /\ x <= 3 => x = 3
          OBVIOUS
        <5>2. Len(down[k]) <= 3
          BY <3>2
        <5> QED BY <4>2, <5>1, <5>2
      <4>4. Len(<<>>) = 0
        OBVIOUS
      <4> QED BY <4>1, <4>3, <4>4
    <3>4. server[k] # "ended" => server[k] = "reading" /\ up[k] = <<>>
      <4>1. server[k] = "writing" => Len(down[k]) # answering[k][2]
        BY <1>0, <3>1, <3>3
      <4> QED BY <3>1, <3>3, <4>1 DEF Turns
    <3>5. OwnResults(result'[k])
      BY <1>5, <3>1, <3>2 DEF OwnResults
    <3> QED BY <3>3, <3>4, <3>5 DEF Turns
  <2> QED BY <1>0, <1>1, <2>1, <2>2 DEF WireOk, Busy
<1> QED BY <1>1, <1>4, <1>6, <1>7, OneConnection

\* A request is read: on a connection that is not spoiled it is that of the
\* present call, and nothing is left behind it.
LEMMA ServeHolds ==
  ASSUME WireInv, NEW k \in Conn, Serve(k)
  PROVE  WireInv'
<1> DEFINE n == up[k][1][1]
           bad == up[k][1][2]
           rest == SubSeq(up[k], 4, Len(up[k]))
           hs == handled[k]
           top == 4 * call[k].n + sent[k]
<1>0. /\ MaxCalls \in Nat /\ WireTypes /\ WireOk(k)
      /\ up[k] \in Seq(Unit) /\ hs \in Seq(1 .. MaxCalls)
      /\ call[k].n \in 0 .. MaxCalls /\ sent[k] \in 0 .. 3
      /\ client[k] \in {"unused", "idle", "writing", "reading", "gone"}
  BY AtConn
<1>1. /\ server[k] = "reading" /\ Len(up[k]) >= 3 /\ IsFrame(SubSeq(up[k], 1, 3))
      /\ up' = [up EXCEPT ![k] = rest] /\ up'[k] = rest
      /\ UNCHANGED <<client, call, sent, down, result, spoiled>>
      /\ \/ /\ bad /\ UNCHANGED <<handled, answering>>
            /\ server' = [server EXCEPT ![k] = "ended"]
         \/ /\ ~bad
            /\ handled' = [handled EXCEPT ![k] = Append(hs, n)]
            /\ answering' = [answering EXCEPT ![k] = <<n, 0>>]
            /\ server' = [server EXCEPT ![k] = "writing"]
  BY <1>0 DEF Serve, Take, Refuse, WireTypes
<1>2. top \in Nat
  <2>1. \A x \in Nat, y \in 0 .. 3 : 4 * x + y \in Nat
    OBVIOUS
  <2> QED BY <1>0, <2>1, SMTT(30)
<1>3. /\ rest \in Seq(Unit) /\ Ordered(rest, hs, top) /\ n \in 1 .. MaxCalls
      /\ Append(hs, n) \in Seq(1 .. MaxCalls) /\ Ordered(rest, Append(hs, n), top)
  <2>1. Ordered(up[k], hs, top)
    BY <1>0 DEF WireOk
  <2> HIDE DEF top
  <2> QED BY <1>0, <1>1, <1>2, <2>1, OrderedTake
<1>4. InSeq(Append(hs, n), n) /\ \A x : InSeq(hs, x) => InSeq(Append(hs, n), x)
  BY <1>0, <1>3, InSeqAppend
<1>5. ASSUME ~spoiled[k], client[k] # "gone"
      PROVE  client[k] = "reading" /\ down[k] = <<>> /\ rest = <<>> /\ n = call[k].n
  <2>1. Turns(client[k], call[k].n, call[k].bad, sent[k], up[k], down[k], "reading", answering[k])
    BY <1>0, <1>1, <1>5 DEF WireOk
  <2>2. up[k] # <<>>
    BY <1>1
  <2>3. client[k] # "writing"
    BY <1>0, <1>1, <2>1 DEF WireOk, Busy, Turns, Begun
  <2>4. client[k] = "reading" /\ down[k] = <<>> /\ Begun(up[k], call[k].n, call[k].bad, 3)
    BY <1>0, <1>5, <2>1, <2>2, <2>3 DEF Turns
  <2>5. Len(up[k]) = 3 /\ 1 \in DOMAIN up[k] /\ up[k][1] = <<call[k].n, call[k].bad, 1>>
    BY <1>0, <2>4 DEF Begun
  <2>6. rest = <<>>
    BY <1>0, <2>5
  <2> QED BY <2>4, <2>5, <2>6
<1> HIDE DEF rest, top, n, bad
<1>6. /\ \A j \in Conn \ {k} : up'[j] = up[j] /\ server'[j] = server[j]
      /\ \A j \in Conn \ {k} : handled'[j] = handled[j] /\ answering'[j] = answering[j]
  BY <1>0, <1>1 DEF WireTypes
<1>7. CASE bad /\ UNCHANGED <<handled, answering>> /\ server' = [server EXCEPT ![k] = "ended"]
  <2>1. server'[k] = "ended"
    BY <1>0, <1>7 DEF WireTypes
  <2>2. WireTypes'
    <3>1. /\ up' \in [Conn -> Seq(Unit)]
          /\ server' \in [Conn -> {"none", "backlog", "reading", "writing", "starved", "ended"}]
      BY <1>0, <1>1, <1>3, <1>7 DEF WireTypes
    <3> QED BY <1>0, <1>1, <1>7, <3>1 DEF WireTypes
  <2>3. WireOk(k)'
    <3>1. Busy(client[k], call[k].n, sent[k], "ended", answering[k])
      BY <1>0 DEF WireOk, Busy
    <3>2. Answered(hs, down[k], "ended", answering[k], result[k])
      BY <1>0 DEF WireOk, Answered
    <3>3. ~spoiled[k] /\ client[k] # "gone" =>
            Turns(client[k], call[k].n, call[k].bad, sent[k], rest, down[k], "ended", answering[k])
      <4>1. Len(<<>>) = 0 /\ DOMAIN <<>> = {}
        OBVIOUS
      <4> QED BY <1>5, <4>1 DEF Turns
    <3> QED BY <1>0, <1>1, <1>3, <1>7, <2>1, <3>1, <3>2, <3>3 DEF WireOk, top
  <2> QED BY <1>1, <1>6, <1>7, <2>2, <2>3, OneConnection
<1>8. CASE /\ ~bad /\ handled' = [handled EXCEPT ![k] = Append(hs, n)]
           /\ answering' = [answering EXCEPT ![k] = <<n, 0>>]
           /\ server' = [server EXCEPT ![k] = "writing"]
  <2>1. server'[k] = "writing" /\ handled'[k] = Append(hs, n) /\ answering'[k] = <<n, 0>>
    BY <1>0, <1>8 DEF WireTypes
  <2>2. WireTypes'
    <3>1. /\ up' \in [Conn -> Seq(Unit)]
          /\ server' \in [Conn -> {"none", "backlog", "reading", "writing", "starved", "ended"}]
          /\ handled' \in [Conn -> Seq(1 .. MaxCalls)]
      BY <1>0, <1>1, <1>3, <1>8 DEF WireTypes
    <3>2. answering' \in [Conn -> (0 .. MaxCalls) \X (0 .. 3)]
      BY <1>0, <1>3, <1>8 DEF WireTypes
    <3> QED BY <1>0, <1>1, <3>1, <3>2 DEF WireTypes
  <2>3. WireOk(k)'
    <3>1. Busy(client[k], call[k].n, sent[k], "writing", <<n, 0>>)
      BY <1>0, <1>3 DEF WireOk, Busy
    <3>2. Answered(Append(hs, n), down[k], "writing", <<n, 0>>, result[k])
      BY <1>0, <1>4 DEF WireOk, Answered
    <3>3. ~spoiled[k] /\ client[k] # "gone" =>
            Turns(client[k], call[k].n, call[k].bad, sent[k], rest, down[k], "writing", <<n, 0>>)
      <4>1. Len(<<>>) = 0 /\ DOMAIN <<>> = {} /\ <<n, 0>>[1] = n /\ <<n, 0>>[2] = 0
        OBVIOUS
      <4> QED BY <1>5, <4>1 DEF Turns
    <3> QED BY <1>0, <1>1, <1>3, <2>1, <3>1, <3>2, <3>3 DEF WireOk, top
  <2> QED BY <1>1, <1>6, <2>2, <2>3, OneConnection
<1> QED BY <1>1, <1>7, <1>8

\* Only a spoiled stream is misread.
LEMMA MisreadHolds ==
  ASSUME WireInv, NEW k \in Conn, Misread(k)
  PROVE  WireInv'
<1>0. /\ MaxCalls \in Nat /\ WireTypes /\ WireOk(k) /\ up[k] \in Seq(Unit)
      /\ client[k] \in {"unused", "idle", "writing", "reading", "gone"}
      /\ call[k].n \in 0 .. MaxCalls /\ call[k].bad \in BOOLEAN
  BY AtConn
<1>1. /\ server[k] = "reading" /\ Len(up[k]) >= 3 /\ ~IsFrame(SubSeq(up[k], 1, 3))
      /\ server'[k] \in {"ended", "starved"}
      /\ UNCHANGED <<client, call, sent, up, down, answering, handled, result, spoiled>>
      /\ server' \in [Conn -> {"none", "backlog", "reading", "writing", "starved", "ended"}]
      /\ \A j \in Conn \ {k} : server'[j] = server[j]
  BY <1>0 DEF Misread, WireTypes
<1>2. spoiled[k] \/ client[k] = "gone"
  <2> SUFFICES ASSUME ~spoiled[k], client[k] # "gone" PROVE FALSE
    OBVIOUS
  <2>1. Turns(client[k], call[k].n, call[k].bad, sent[k], up[k], down[k], "reading", answering[k])
    BY <1>0, <1>1 DEF WireOk
  <2>2. up[k] # <<>>
    BY <1>1
  <2>3. client[k] # "writing"
    BY <1>0, <1>1, <2>1 DEF WireOk, Busy, Turns, Begun
  <2>4. client[k] = "reading" /\ Begun(up[k], call[k].n, call[k].bad, 3)
    BY <1>0, <2>1, <2>2, <2>3 DEF Turns
  <2>5. call[k].n \in 1 .. MaxCalls
    BY <1>0, <2>4 DEF WireOk, Busy
  <2>6. SubSeq(up[k], 1, 3) = Frame(call[k].n, call[k].bad)
    <3>1. Len(up[k]) = 3 /\ \A i \in 1 .. 3 : up[k][i] = <<call[k].n, call[k].bad, i>>
      BY <1>0, <2>4 DEF Begun
    <3>2. SubSeq(up[k], 1, 3) = [i \in 1 .. 3 |-> up[k][i]]
      BY <1>0, <3>1
    <3> QED BY <3>1, <3>2 DEF Frame
  <2> QED BY <1>0, <1>1, <2>5, <2>6 DEF IsFrame
<1>3. WireTypes'
  BY <1>0, <1>1 DEF WireTypes
<1>4. WireOk(k)'
  BY <1>0, <1>1, <1>2 DEF WireOk, Busy, Answered
<1> QED BY <1>1, <1>3, <1>4, OneConnection

LEMMA AnswerHolds ==
  ASSUME WireInv, NEW k \in Conn, Answer(k)
  PROVE  WireInv'
<1> DEFINE n == answering[k][1]
           i == answering[k][2] + 1
           unit == <<n, FALSE, i>>
           more == Append(down[k], unit)
           srv == IF i = 3 THEN "reading" ELSE "writing"
<1>0. /\ MaxCalls \in Nat /\ WireTypes /\ WireOk(k) /\ down[k] \in Seq(Unit)
      /\ client[k] \in {"unused", "idle", "writing", "reading", "gone"}
      /\ answering[k] \in (0 .. MaxCalls) \X (0 .. 3) /\ server[k] = "writing"
  BY AtConn DEF Answer
<1>1. /\ down' = [down EXCEPT ![k] = more] /\ answering' = [answering EXCEPT ![k] = <<n, i>>]
      /\ server' = [server EXCEPT ![k] = srv]
      /\ UNCHANGED <<client, call, sent, up, handled, result, spoiled>>
  BY DEF Answer
<1>2. n \in 1 .. MaxCalls /\ i \in 1 .. 3 /\ unit \in Unit /\ InSeq(handled[k], n)
  <2>1. answering[k][1] >= 1 /\ answering[k][2] < 3 /\ InSeq(handled[k], answering[k][1])
    BY <1>0 DEF WireOk, Busy, Answered
  <2>2. answering[k][1] \in 0 .. MaxCalls /\ answering[k][2] \in 0 .. 3
    BY <1>0
  <2>3. n \in 1 .. MaxCalls /\ i \in 1 .. 3
    BY <1>0, <2>1, <2>2
  <2>4. unit \in Unit
    BY <2>3 DEF Unit
  <2> QED BY <2>1, <2>3, <2>4
<1>3. /\ more \in Seq(Unit) /\ Len(more) = Len(down[k]) + 1 /\ Len(down[k]) \in Nat
      /\ DOMAIN more = DOMAIN down[k] \cup {Len(down[k]) + 1}
      /\ more[Len(down[k]) + 1] = unit
      /\ \A j \in DOMAIN down[k] : more[j] = down[k][j]
  <2> HIDE DEF unit
  <2> QED BY <1>0, <1>2
<1>4. \A j \in DOMAIN more : more[j][1] = n \/ (j \in DOMAIN down[k] /\ more[j] = down[k][j])
  BY <1>3
<1>5. i = answering[k][2] + 1
  OBVIOUS
<1> HIDE DEF more, n, i, unit
<1>6. /\ down'[k] = more /\ answering'[k] = <<n, i>> /\ server'[k] = srv
      /\ \A j \in Conn \ {k} :
           down'[j] = down[j] /\ answering'[j] = answering[j] /\ server'[j] = server[j]
  BY <1>0, <1>1 DEF WireTypes
<1>7. WireTypes'
  <2>1. /\ down' \in [Conn -> Seq(Unit)]
        /\ server' \in [Conn -> {"none", "backlog", "reading", "writing", "starved", "ended"}]
    BY <1>0, <1>1, <1>3 DEF WireTypes
  <2>2. answering' \in [Conn -> (0 .. MaxCalls) \X (0 .. 3)]
    BY <1>0, <1>1, <1>2 DEF WireTypes
  <2> QED BY <1>0, <1>1, <2>1, <2>2 DEF WireTypes
<1>8. WireOk(k)'
  <2>0. <<n, i>>[1] = n /\ <<n, i>>[2] = i
    OBVIOUS
  <2>1. Busy(client[k], call[k].n, sent[k], srv, <<n, i>>)
    BY <1>0, <1>2, <2>0 DEF WireOk, Busy
  <2>2. Answered(handled[k], more, srv, <<n, i>>, result[k])
    BY <1>0, <1>2, <1>4, <2>0 DEF WireOk, Answered
  <2>3. ASSUME ~spoiled[k], client[k] # "gone"
        PROVE  Turns(client[k], call[k].n, call[k].bad, sent[k], up[k], more, srv, <<n, i>>)
    <3>1. Turns(client[k], call[k].n, call[k].bad, sent[k], up[k], down[k], "writing", answering[k])
      BY <1>0, <2>3 DEF WireOk
    <3>2. /\ client[k] = "reading" /\ up[k] = <<>> /\ n = call[k].n
          /\ Len(down[k]) = answering[k][2]
          /\ \A j \in DOMAIN down[k] : down[k][j][1] = call[k].n
      BY <1>0, <2>3, <3>1 DEF Turns, n
    <3>3. Len(more) = i /\ i <= 3 /\ \A j \in DOMAIN more : more[j][1] = call[k].n
      BY <1>2, <1>3, <1>4, <1>5, <3>2
    <3> QED BY <2>0, <3>2, <3>3 DEF Turns
  <2> QED BY <1>0, <1>1, <1>6, <2>1, <2>2, <2>3 DEF WireOk
<1> QED BY <1>1, <1>6, <1>7, <1>8, OneConnection

\* The listener or the whole server ends.
LEMMA ServerEndsHolds ==
  ASSUME WireInv, ServeFails \/ ServerDies
  PROVE  WireInv'
<1>0. WireTypes
  BY DEF WireInv
<1>1. /\ UNCHANGED <<client, call, sent, up, down, answering, handled, result, spoiled>>
      /\ \A k \in Conn : server'[k] = server[k] \/ (server'[k] = "ended" /\ server[k] # "none")
      /\ server' \in [Conn -> {"none", "backlog", "reading", "writing", "starved", "ended"}]
  BY <1>0 DEF ServeFails, ServerDies, WireTypes
<1>2. WireTypes'
  BY <1>0, <1>1 DEF WireTypes
<1>3. ASSUME NEW k \in Conn PROVE WireOk(k)'
  <2>1. WireOk(k)
    BY DEF WireInv
  <2>2. CASE server'[k] = server[k]
    BY <1>1, <2>1, <2>2 DEF WireOk
  <2>3. CASE server'[k] = "ended" /\ server[k] # "none"
    BY <1>1, <2>1, <2>3 DEF WireOk, Busy, Answered, Turns
  <2> QED BY <1>1, <2>2, <2>3
<1> QED BY <1>2, <1>3 DEF WireInv

LEMMA WireInitHolds == WireInit => WireInv
<1> SUFFICES ASSUME WireInit PROVE WireInv
  OBVIOUS
<1>0. MaxCalls \in Nat /\ <<>> \in Seq(Unit) /\ <<>> \in Seq(1 .. MaxCalls) /\ DOMAIN <<>> = {}
  BY RpcWireAssumption
<1>1. WireTypes
  BY <1>0 DEF WireInit, WireTypes
<1>2. ASSUME NEW k \in Conn PROVE WireOk(k)
  <2>1. /\ client[k] = "unused" /\ up[k] = <<>> /\ down[k] = <<>> /\ server[k] = "none"
        /\ handled[k] = <<>> /\ \A n \in 1 .. MaxCalls : result[k][n] = 0
    BY DEF WireInit
  <2> QED BY <1>0, <2>1 DEF WireOk, Busy, Ordered, Answered, Turns, OwnResults
<1> QED BY <1>1, <1>2 DEF WireInv

LEMMA WireStepHolds == WireInv /\ [WireNext]_wireVars => WireInv'
<1> SUFFICES ASSUME WireInv, [WireNext]_wireVars PROVE WireInv'
  OBVIOUS
<1>1. ASSUME NEW k \in Conn,
             \/ Connect(k) \/ Abandon(k) \/ Hangup(k) \/ Accept(k)
             \/ \E bad \in BOOLEAN : Call(k, bad)
             \/ ClientStep(k) \/ ServerStep(k)
      PROVE  WireInv'
  BY <1>1, MoveHolds, CallHolds, SendHolds, FailHolds, ReceiveHolds, ServeHolds, MisreadHolds,
     AnswerHolds DEF ClientStep, ServerStep
<1>2. CASE UNCHANGED wireVars
  BY <1>2 DEF wireVars, WireInv, WireTypes, WireOk
<1> QED BY <1>1, <1>2, ServerEndsHolds DEF WireNext

\* rpc.rs: over any number of connections and calls, with calls dropped,
\* frames cut and the server ending anywhere, a request is handled at most
\* once and in order, only what was handled is answered, and as long as no
\* call was dropped in the middle a call returns its own response.
THEOREM OwnAnswerHolds == WireSpec => []OwnAnswer
<1>1. WireInv => OwnAnswer
  <2> SUFFICES ASSUME WireInv, NEW k \in Conn
               PROVE  /\ ~spoiled[k] => \A n \in 1 .. MaxCalls : result[k][n] \in {0, n}
                      /\ \A i, j \in DOMAIN handled[k] : i < j => handled[k][i] < handled[k][j]
                      /\ \A n \in 1 .. MaxCalls : result[k][n] \in Range(handled[k]) \cup {0}
    BY DEF OwnAnswer
  <2>1. WireOk(k)
    BY AtConn
  <2> QED BY <2>1 DEF WireOk, Ordered, Answered, OwnResults, InSeq, Range
<1> QED BY <1>1, WireInitHolds, WireStepHolds, PTL DEF WireSpec

----------------------------------------------------------------------------
(* The consensus node, its file and the API.                               *)

\* g goes through the states of a replay of the first n commands.
Replays(g, cmds, n) ==
  g = [i \in 0 .. n |-> IF i = 0 THEN Empty ELSE Apply(g[i - 1], cmds[i])]

\* There is such a function, for every number of commands.
LEMMA ReplayExists ==
  ASSUME NEW cmds, NEW n \in Nat
  PROVE  \E g : Replays(g, cmds, n)
<1> DEFINE S == {m \in Nat : \E g : Replays(g, cmds, m)}
<1>1. 0 \in S
  <2> DEFINE none == [i \in 0 .. 0 |-> Empty]
  <2>1. Replays(none, cmds, 0)
    BY DEF Replays
  <2> QED BY <2>1
<1>2. ASSUME NEW m \in Nat, m \in S PROVE m + 1 \in S
  <2>1. PICK g : Replays(g, cmds, m)
    BY <1>2
  <2> DEFINE next == [i \in 0 .. (m + 1) |->
                        IF i = m + 1 THEN Apply(g[m], cmds[m + 1]) ELSE g[i]]
  <2>2. ASSUME NEW i \in 0 .. (m + 1)
        PROVE  next[i] = IF i = 0 THEN Empty ELSE Apply(next[i - 1], cmds[i])
    <3>1. CASE i = m + 1
      BY <3>1
    <3>2. CASE i # m + 1
      <4>1. i \in 0 .. m /\ (i # 0 => i - 1 \in 0 .. (m + 1) /\ i - 1 # m + 1)
        BY <3>2
      <4>2. next[i] = g[i] /\ (i # 0 => next[i - 1] = g[i - 1])
        BY <3>2, <4>1
      <4>3. g[i] = IF i = 0 THEN Empty ELSE Apply(g[i - 1], cmds[i])
        BY <2>1, <4>1 DEF Replays
      <4> HIDE DEF next
      <4> QED BY <4>2, <4>3
    <3> QED BY <3>1, <3>2
  <2>3. next = [i \in 0 .. (m + 1) |-> next[i]]
    OBVIOUS
  <2> HIDE DEF next
  <2>4. Replays(next, cmds, m + 1)
    BY <2>2, <2>3 DEF Replays
  <2> QED BY <2>4
<1> HIDE DEF S
<1>3. n \in S
  BY <1>1, <1>2, SetInduction
<1> QED BY <1>3 DEF S

\* A replay starts from nothing and applies one command after the other.
LEMMA ReplayStep ==
  ASSUME NEW cmds, Len(cmds) \in Nat
  PROVE  /\ Replay(cmds)[0] = Empty
         /\ \A n \in 1 .. Len(cmds) : Replay(cmds)[n] = Apply(Replay(cmds)[n - 1], cmds[n])
<1>1. Replay(cmds) = CHOOSE g : Replays(g, cmds, Len(cmds))
  BY DEF Replay, Replays
<1>2. Replays(Replay(cmds), cmds, Len(cmds))
  BY <1>1, ReplayExists
<1> HIDE DEF Replay
<1> QED BY <1>2 DEF Replays

\* A command that is appended changes nothing of the replay before it.
LEMMA ReplayAppend ==
  ASSUME NEW cmds \in Seq(Command), NEW c \in Command
  PROVE  /\ \A n \in 0 .. Len(cmds) : Replay(Append(cmds, c))[n] = Replay(cmds)[n]
         /\ Replay(Append(cmds, c))[Len(cmds) + 1] = Apply(Replay(cmds)[Len(cmds)], c)
<1> DEFINE more == Append(cmds, c)
           S == {n \in Nat : n <= Len(cmds) => Replay(more)[n] = Replay(cmds)[n]}
<1>1. /\ Len(cmds) \in Nat /\ Len(more) = Len(cmds) + 1 /\ more[Len(cmds) + 1] = c
      /\ \A n \in 1 .. Len(cmds) : more[n] = cmds[n]
  OBVIOUS
<1> HIDE DEF more
<1>2. /\ Replay(cmds)[0] = Empty
      /\ \A n \in 1 .. Len(cmds) : Replay(cmds)[n] = Apply(Replay(cmds)[n - 1], cmds[n])
  BY <1>1, ReplayStep
<1>3. /\ Replay(more)[0] = Empty
      /\ \A n \in 1 .. (Len(cmds) + 1) : Replay(more)[n] = Apply(Replay(more)[n - 1], more[n])
  <2>1. Len(more) \in Nat
    BY <1>1
  <2> QED BY <1>1, <2>1, ReplayStep
<1>4. 0 \in S
  BY <1>2, <1>3
<1>5. ASSUME NEW n \in Nat, n \in S PROVE n + 1 \in S
  <2> SUFFICES ASSUME n + 1 <= Len(cmds) PROVE Replay(more)[n + 1] = Replay(cmds)[n + 1]
    OBVIOUS
  <2>1. n + 1 \in 1 .. Len(cmds) /\ n + 1 \in 1 .. (Len(cmds) + 1) /\ (n + 1) - 1 = n /\ n <= Len(cmds)
    BY <1>1
  <2>2. Replay(more)[n] = Replay(cmds)[n]
    BY <1>5, <2>1
  <2>3. Replay(more)[n + 1] = Apply(Replay(more)[n], cmds[n + 1])
    BY <1>1, <1>3, <2>1
  <2>4. Replay(cmds)[n + 1] = Apply(Replay(cmds)[n], cmds[n + 1])
    BY <1>2, <2>1
  <2> QED BY <2>2, <2>3, <2>4
<1> HIDE DEF S
<1>6. Nat \subseteq S
  BY <1>4, <1>5, SetInduction
<1>7. \A n \in 0 .. Len(cmds) : Replay(more)[n] = Replay(cmds)[n]
  BY <1>1, <1>6 DEF S
<1>8. Replay(more)[Len(cmds) + 1] = Apply(Replay(more)[Len(cmds)], c)
  <2>1. Len(cmds) + 1 \in 1 .. (Len(cmds) + 1) /\ (Len(cmds) + 1) - 1 = Len(cmds)
    BY <1>1
  <2> QED BY <1>1, <1>3, <2>1
<1>9. Len(cmds) \in 0 .. Len(cmds)
  BY <1>1
<1> QED BY <1>7, <1>8, <1>9 DEF more

\* Everything in the store passed validate().
StoreOk(s) ==
  /\ s = [t \in Table |-> s[t]]
  /\ \A t \in Table : \A k \in DOMAIN s[t] : s[t][k] \in Valid

\* What the API holds is the store at the moment it was made.
ApiOk == api # None => apiAt \in 0 .. Len(log) /\ api = Replay(log)[apiAt]

NodeInv ==
  /\ log \in Seq(Command)
  /\ StoreOk(state)
  /\ Replayable
  /\ SavedLoads
  /\ ApiOk

\* An accepted command leaves only what passed validate().
LEMMA ApplyOk ==
  ASSUME NEW s, StoreOk(s), NEW c \in Command, Accepts(s, c)
  PROVE  StoreOk(Apply(s, c))
<1> DEFINE rows == IF c.op = "upsert"
                     THEN [k \in DOMAIN s[c.table] \cup {c.key} |->
                             IF k = c.key THEN c.body ELSE s[c.table][k]]
                     ELSE [k \in DOMAIN s[c.table] \ {c.key} |-> s[c.table][k]]
<1>1. c.table \in Table
  BY DEF Command, Table
<1>2. Apply(s, c) = [s EXCEPT ![c.table] = rows]
  BY DEF Apply
<1>3. \A k \in DOMAIN rows : rows[k] \in Valid
  <2>1. \A k \in DOMAIN s[c.table] : s[c.table][k] \in Valid
    BY <1>1 DEF StoreOk
  <2>2. CASE c.op = "upsert"
    <3>1. c.body \in Valid
      BY <2>2 DEF Accepts, Validates
    <3> QED BY <2>1, <2>2, <3>1
  <2>3. CASE c.op # "upsert"
    BY <2>1, <2>3
  <2> QED BY <2>2, <2>3
<1> HIDE DEF rows
<1>4. /\ DOMAIN s = Table
      /\ \A t \in Table : Apply(s, c)[t] = IF t = c.table THEN rows ELSE s[t]
      /\ Apply(s, c) = [t \in Table |-> Apply(s, c)[t]]
  BY <1>1, <1>2 DEF StoreOk
<1> QED BY <1>1, <1>3, <1>4 DEF StoreOk

\* Nothing but new commands is written to the log, so what was replayed up to
\* some command stays what it was.
LEMMA ProposeHolds ==
  ASSUME NodeInv, NEW c \in Command, Propose(c), UNCHANGED apiVars
  PROVE  NodeInv'
<1>1. /\ log' = Append(log, c) /\ state' = Apply(state, c) /\ Accepts(state, c)
      /\ UNCHANGED <<file, saved, api, apiAt>>
  BY DEF Propose, fileVars, apiVars
<1>2. log \in Seq(Command) /\ StoreOk(state) /\ Replayable /\ SavedLoads /\ ApiOk
  BY DEF NodeInv
<1>3. /\ log' \in Seq(Command) /\ Len(log) \in Nat /\ Len(log') = Len(log) + 1
      /\ log'[Len(log) + 1] = c /\ \A n \in 1 .. Len(log) : log'[n] = log[n]
      /\ DOMAIN log' = 1 .. (Len(log) + 1) /\ DOMAIN log = 1 .. Len(log)
  BY <1>1, <1>2
<1>4. /\ \A n \in 0 .. Len(log) : Replay(log')[n] = Replay(log)[n]
      /\ Replay(log')[Len(log) + 1] = state'
  BY <1>1, <1>2, ReplayAppend DEF Replayable
<1>5. StoreOk(state')
  BY <1>1, <1>2, ApplyOk
<1>6. Replayable'
  <2>1. ASSUME NEW n \in 1 .. (Len(log) + 1) PROVE Accepts(Replay(log')[n - 1], log'[n])
    <3>1. n - 1 \in 0 .. Len(log)
      BY <1>3
    <3>2. CASE n = Len(log) + 1
      <4>1. Replay(log')[n - 1] = state /\ log'[n] = c
        BY <1>2, <1>3, <1>4, <3>1, <3>2 DEF Replayable
      <4> QED BY <1>1, <4>1
    <3>3. CASE n # Len(log) + 1
      <4>1. n \in DOMAIN log /\ log'[n] = log[n] /\ Replay(log')[n - 1] = Replay(log)[n - 1]
        BY <1>3, <1>4, <3>1, <3>3
      <4> QED BY <1>2, <4>1 DEF Replayable
    <3> QED BY <3>2, <3>3
  <2> QED BY <1>3, <1>4, <2>1 DEF Replayable
<1>7. SavedLoads'
  BY <1>1, <1>2 DEF SavedLoads, Loads
<1>8. ApiOk'
  BY <1>1, <1>2, <1>3, <1>4 DEF ApiOk
<1> QED BY <1>3, <1>5, <1>6, <1>7, <1>8 DEF NodeInv

\* A refused command is popped again, and the log is what it was.
LEMMA RefusedHolds ==
  ASSUME NodeInv, NEW c \in Command, ProposeRefused(c), UNCHANGED apiVars
  PROVE  NodeInv'
<1>1. log \in Seq(Command)
  BY DEF NodeInv
<1>2. log' = SubSeq(Append(log, c), 1, Len(Append(log, c)) - 1)
  BY DEF ProposeRefused, Front
<1>3. /\ Append(log, c) \in Seq(Command) /\ Len(log) \in Nat /\ Len(Append(log, c)) - 1 = Len(log)
      /\ \A n \in 1 .. Len(log) : Append(log, c)[n] = log[n]
  BY <1>1
<1>4. /\ log' \in Seq(Command) /\ Len(log') = Len(log)
      /\ \A n \in 1 .. Len(log) : log'[n] = log[n]
  BY <1>2, <1>3
<1>5. log' = log
  BY <1>1, <1>4
<1>6. UNCHANGED <<state, file, saved, api, apiAt>>
  BY DEF ProposeRefused, fileVars, apiVars
<1> QED BY <1>5, <1>6 DEF NodeInv, StoreOk, Replayable, SavedLoads, Loads, ApiOk

\* save(), a crash in it, and the making of an API.
LEMMA FileStepHolds ==
  ASSUME NodeInv,
         \/ Save /\ UNCHANGED apiVars
         \/ SaveCrash /\ api' = None /\ apiAt' = 0
         \/ NewApi
         \/ UNCHANGED <<nodeVars, apiVars>>
  PROVE  NodeInv'
<1>0. log \in Seq(Command) /\ StoreOk(state) /\ Replayable /\ SavedLoads /\ ApiOk
  BY DEF NodeInv
<1>1. CASE Save /\ UNCHANGED apiVars
  <2>1. /\ file'.is = "whole" /\ file'.store = state /\ saved' = log
        /\ UNCHANGED <<log, state, api, apiAt>>
    BY <1>1 DEF Save, apiVars
  <2>2. SavedLoads'
    BY <1>0, <2>1 DEF SavedLoads, Loads, StoreOk, Validates, Replayable
  <2> QED BY <1>0, <2>1, <2>2 DEF NodeInv, Replayable, ApiOk
<1>2. CASE SaveCrash /\ api' = None /\ apiAt' = 0
  <2>1. file'.is = "torn" /\ log' = <<>> /\ state' = Empty /\ saved' = <<>> /\ api' = None
    BY <1>2 DEF SaveCrash
  <2>2. Replayable' /\ log' \in Seq(Command)
    <3>1. Len(<<>>) = 0 /\ DOMAIN <<>> = {} /\ <<>> \in Seq(Command)
      OBVIOUS
    <3>2. Replay(<<>>)[0] = Empty
      BY <3>1, ReplayStep
    <3> QED BY <2>1, <3>1, <3>2 DEF Replayable
  <2>3. StoreOk(Empty)
    BY DEF StoreOk, Empty
  <2> QED BY <2>1, <2>2, <2>3 DEF NodeInv, SavedLoads, ApiOk
<1>3. CASE NewApi
  <2>1. api' = state /\ apiAt' = Len(log) /\ UNCHANGED <<log, state, file, saved>>
    BY <1>3 DEF NewApi, nodeVars
  <2>2. ApiOk'
    BY <1>0, <2>1 DEF ApiOk, Replayable
  <2> QED BY <1>0, <2>1, <2>2 DEF NodeInv, Replayable, SavedLoads, Loads
<1>4. CASE UNCHANGED <<nodeVars, apiVars>>
  BY <1>4 DEF nodeVars, apiVars, NodeInv, StoreOk, Replayable, SavedLoads, Loads, ApiOk
<1> QED BY <1>1, <1>2, <1>3, <1>4

\* NodeInv is an invariant of the node with an API beside it.
THEOREM NodeInvariantHolds == ApiSpec => []NodeInv
<1>1. ApiInit => NodeInv
  <2> SUFFICES ASSUME ApiInit PROVE NodeInv
    OBVIOUS
  <2>1. file.is = "none" /\ log = <<>> /\ state = Empty /\ api = None
    BY DEF ApiInit, NodeInit
  <2>2. Len(<<>>) = 0 /\ DOMAIN <<>> = {} /\ <<>> \in Seq(Command)
    OBVIOUS
  <2>3. Replay(<<>>)[0] = Empty
    BY <2>2, ReplayStep
  <2>4. StoreOk(Empty)
    BY DEF StoreOk, Empty
  <2> QED BY <2>1, <2>2, <2>3, <2>4 DEF NodeInv, Replayable, SavedLoads, ApiOk
<1>2. NodeInv /\ [ApiNext]_<<nodeVars, apiVars>> => NodeInv'
  BY ProposeHolds, RefusedHolds, FileStepHolds DEF ApiNext, NodeStep, NodeNext
<1> QED BY <1>1, <1>2, PTL DEF ApiSpec

\* "the log never holds a command the FSM wouldn't accept": a replay of the
\* log is refused nowhere and ends in the node's state, for every log length.
THEOREM ReplayableHolds == ApiSpec => []Replayable
<1>1. NodeInv => Replayable
  BY DEF NodeInv
<1> QED BY <1>1, NodeInvariantHolds, PTL

\* load() takes every file that save() wrote out, and returns the store that
\* the commands of that moment had built.
THEOREM SavedLoadsHolds == ApiSpec => []SavedLoads
<1>1. NodeInv => SavedLoads
  BY DEF NodeInv
<1> QED BY <1>1, NodeInvariantHolds, PTL

\* The prefix of the route is taken off, and no more, unless the name has it
\* too.
LEMMA TrimmedName ==
  ASSUME NEW name \in Key, Head(name) # Prefix
  PROVE  TrimPrefix(<<Prefix>> \o name) = name /\ name # <<>>
<1> DEFINE path == <<Prefix>> \o name
           Leads(i) == /\ i <= Len(path) => path[i] # Prefix
                       /\ \A j \in 1 .. (i - 1) : path[j] = Prefix
<1>1. name \in Seq(NamePart) /\ name # <<>>
  BY ApiAssumption
<1>2. Len(name) \in Nat /\ Len(name) >= 1 /\ name[1] # Prefix
  <2>1. Len(name) \in Nat /\ (Len(name) = 0 => name = <<>>)
    BY <1>1
  <2>2. Head(name) = name[1]
    BY <1>1
  <2> QED BY <1>1, <2>1, <2>2
<1>3. /\ Len(path) = Len(name) + 1 /\ path[1] = Prefix /\ DOMAIN path = 1 .. (Len(name) + 1)
      /\ \A i \in 1 .. Len(name) : path[i + 1] = name[i]
  <2>1. name \in Seq(NamePart \cup {Prefix}) /\ <<Prefix>> \in Seq(NamePart \cup {Prefix})
    BY <1>1
  <2>2. Len(<<Prefix>>) = 1 /\ <<Prefix>>[1] = Prefix
    OBVIOUS
  <2> QED BY <1>2, <2>1, <2>2
<1>4. path \in Seq(NamePart \cup {Prefix})
  BY <1>1
<1> HIDE DEF path
<1>5. path[2] # Prefix
  BY <1>2, <1>3
<1>6. ASSUME NEW i \in 1 .. (Len(path) + 1) PROVE Leads(i) <=> i = 2
  <2>1. CASE i = 1
    BY <1>2, <1>3, <2>1
  <2>2. CASE i = 2
    <3>1. \A j \in 1 .. (i - 1) : j = 1
      BY <2>2
    <3> QED BY <1>3, <1>5, <2>2, <3>1
  <2>3. CASE i > 2
    <3>1. 2 \in 1 .. (i - 1)
      BY <2>3
    <3> QED BY <1>5, <2>3, <3>1
  <2> QED BY <1>2, <1>3, <2>1, <2>2, <2>3
<1>7. 2 \in 1 .. (Len(path) + 1)
  BY <1>2, <1>3
<1>8. (CHOOSE i \in 1 .. (Len(path) + 1) : Leads(i)) = 2
  <2> HIDE DEF Leads
  <2> QED BY <1>6, <1>7
<1>9. TrimPrefix(path) = SubSeq(path, 2, Len(path))
  BY <1>8 DEF TrimPrefix
<1>10. SubSeq(path, 2, Len(path)) = name
  <2> DEFINE rest == SubSeq(path, 2, Len(path))
  <2>1. Len(rest) = Len(name) /\ \A i \in 1 .. Len(name) : rest[i] = path[i + 1]
    BY <1>2, <1>3, <1>4
  <2>2. rest \in Seq(NamePart \cup {Prefix})
    BY <1>2, <1>3, <1>4
  <2>3. name \in Seq(NamePart \cup {Prefix})
    BY <1>1
  <2> HIDE DEF rest
  <2>4. \A i \in 1 .. Len(name) : rest[i] = name[i]
    BY <1>3, <2>1
  <2>5. rest = name
    BY <2>1, <2>2, <2>3, <2>4
  <2> QED BY <2>5 DEF rest
<1> QED BY <1>1, <1>9, <1>10 DEF path

\* All answers of the API were true at one moment, the one it was made at,
\* however the node goes on, and a job is found just when it is listed.
THEOREM AnswersOfOneMomentHolds == ApiSpec => []AnswersOfOneMoment
<1>1. NodeInv => AnswersOfOneMoment
  <2> SUFFICES ASSUME NodeInv PROVE AnswersOfOneMoment
    OBVIOUS
  <2>1. /\ DOMAIN ListRoute = {"/v1/jobs", "/v1/evaluations", "/v1/allocations", "/v1/nodes"}
        /\ ListRoute["/v1/jobs"] = "jobs"
        /\ "job" \notin DOMAIN ListRoute
    BY DEF ListRoute
  <2>2. ASSUME NEW r \in DOMAIN ListRoute
        PROVE  Get(r, <<>>) = Ok(IF api = None THEN NoEntity ELSE api[ListRoute[r]])
    BY <2>2 DEF Get, Handle, HandleList
  <2>3. ASSUME api # None
        PROVE  /\ apiAt <= Len(log)
               /\ \A r \in DOMAIN ListRoute : Get(r, <<>>).body = Replay(log)[apiAt][ListRoute[r]]
    <3>1. apiAt \in 0 .. Len(log) /\ api = Replay(log)[apiAt]
      BY <2>3 DEF NodeInv, ApiOk
    <3>2. apiAt <= Len(log)
      BY <3>1 DEF NodeInv
    <3> QED BY <2>2, <2>3, <3>1, <3>2 DEF Ok
  <2>4. ASSUME NEW name \in Key, Head(name) # Prefix
        PROVE  LET listed == Get("/v1/jobs", <<>>).body IN
               Get("job", name) = IF name \in DOMAIN listed
                                    THEN Ok([k \in {name} |-> listed[name]]) ELSE NotFound
    <3> DEFINE listed == IF api = None THEN NoEntity ELSE api["jobs"]
    <3>1. Get("/v1/jobs", <<>>).body = listed
      BY <2>1, <2>2 DEF Ok
    <3>2. Get("job", name) = HandleGetJob(api, name) /\ name # <<>>
      BY <2>1, <2>4, TrimmedName DEF Get, Handle
    <3>3. HandleGetJob(api, name) = IF name \in DOMAIN listed
                                      THEN Ok([k \in {name} |-> listed[name]]) ELSE NotFound
      BY <3>2 DEF HandleGetJob, NoEntity
    <3> QED BY <3>1, <3>2, <3>3
  <2> QED BY <2>3, <2>4 DEF AnswersOfOneMoment
<1> QED BY <1>1, NodeInvariantHolds, PTL

=============================================================================
