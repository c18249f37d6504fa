----------------------------- MODULE Membership -----------------------------
(***************************************************************************)
(* The gossip membership of src/src/membership.rs: nodes that exchange     *)
(* rosters over UDP.  A datagram may be lost, delayed, overtaken and       *)
(* delivered twice, and a node may crash and be started again under its    *)
(* name and address with everything forgotten.                             *)
(*                                                                         *)
(*   roster[n]   name -> [status, incarnation], under n's mutex            *)
(*   counter[n]  the AtomicU64 that leave() bumps before it takes the lock *)
(*   reply_to[n] where recv_loop is about to send its roster: merging a    *)
(*               push-pull and answering it are two holds of the lock      *)
(*   calls[n]    leave() calls in progress; each bumps, marks and sends    *)
(*                                                                         *)
(* A node's address is its name.  join() takes its snapshot and sends it:  *)
(* a slow send is a slow datagram; that it then waits for its roster to    *)
(* grow changes nothing.  A lost datagram is one that stays in net.  Only  *)
(* Alive and Left are ever assigned.                                       *)
(***************************************************************************)
EXTENDS Integers

CONSTANTS
  Node,
  None,        \* no address
  MaxCalls     \* bound: calls of join(), leave() and, after a crash, start()

ASSUME MembershipAssumption ==
  /\ None \notin Node
  /\ MaxCalls \in Nat

VARIABLES
  roster, counter, reply_to, calls,
  net,                \* datagrams under way
  used, starts,       \* how many calls there were, how many of start()
  joined,             \* history: <<n, p>> when n joined p
  told                \* history: <<n, p>> when n gossiped its leave to p

memberVars == <<roster, counter, reply_to, calls, net, used, starts, joined, told>>

Entry == [status : {"Alive", "Left"}, incarnation : Nat]

Call == [step : {"mark", "send"}, inc : Nat, targets : SUBSET Node]

\* Msg::PushPull and Msg::Gossip; src is the sender's address.
Msg(kind, from, to, peers) == [kind |-> kind, src |-> from, dst |-> to, peers |-> peers]

----------------------------------------------------------------------------
\* start(): the node knows itself only.
Fresh(n) == [m \in {n} |-> [status |-> "Alive", incarnation |-> 0]]

MemberInit ==
  /\ roster = [n \in Node |-> Fresh(n)]
  /\ counter = [n \in Node |-> 0]
  /\ reply_to = [n \in Node |-> None]
  /\ calls = [n \in Node |-> {}]
  /\ net = {}
  /\ used = 0 /\ starts = 0
  /\ joined = {} /\ told = {}

\* Faulty variant: the last claim wins.
SupersedesAlways(n, m, e) == m # n

\* merge(): claims about the node itself are ignored, and so are claims that
\* are no newer than what it holds.
Supersedes(n, m, e) == m # n /\ (m \in DOMAIN roster[n] => e.incarnation > roster[n][m].incarnation)

Merged(n, peers) ==
  [m \in DOMAIN roster[n] \cup (DOMAIN peers \ {n}) |->
     IF m \in DOMAIN peers /\ Supersedes(n, m, peers[m]) THEN peers[m] ELSE roster[n][m]]

\* A call within the bound.
Called == used < MaxCalls /\ used' = used + 1

Join(n, p) ==
  /\ Called
  /\ p # n
  /\ net' = net \cup {Msg("push", n, p, roster[n])}
  /\ joined' = joined \cup {<<n, p>>}
  /\ UNCHANGED <<roster, counter, reply_to, calls, starts, told>>

\* Faulty variant: a push-pull is merged and not answered.
ReceiveOnly(msg) ==
  LET n == msg.dst IN
  /\ reply_to[n] = None
  /\ net' \in {net, net \ {msg}}
  /\ roster' = [roster EXCEPT ![n] = Merged(n, msg.peers)]
  /\ UNCHANGED <<counter, reply_to, calls, used, starts, joined, told>>

\* recv_loop takes a datagram, which the network may deliver again.
Receive(msg) ==
  LET n == msg.dst IN
  /\ reply_to[n] = None
  /\ net' \in {net, net \ {msg}}
  /\ roster' = [roster EXCEPT ![n] = Merged(n, msg.peers)]
  /\ reply_to' = [reply_to EXCEPT ![n] = IF msg.kind = "push" THEN msg.src ELSE None]
  /\ UNCHANGED <<counter, calls, used, starts, joined, told>>

\* and answers it, if asked to.
Reply(n) ==
  /\ reply_to[n] # None
  /\ net' = net \cup {Msg("pull", n, reply_to[n], roster[n])}
  /\ reply_to' = [reply_to EXCEPT ![n] = None]
  /\ UNCHANGED <<roster, counter, calls, used, starts, joined, told>>

\* Faulty variant: uses the value that fetch_add returns.
LeaveBumpOld(n) ==
  /\ Called
  /\ counter' = [counter EXCEPT ![n] = @ + 1]
  /\ calls' = [calls EXCEPT ![n] = @ \cup {[step |-> "mark", inc |-> counter[n], targets |-> {}]}]
  /\ UNCHANGED <<roster, reply_to, net, starts, joined, told>>

\* leave(): fetch_add ...
LeaveBump(n) ==
  /\ Called
  /\ counter' = [counter EXCEPT ![n] = @ + 1]
  /\ calls' = [calls EXCEPT ![n] = @ \cup {[step |-> "mark", inc |-> counter[n] + 1, targets |-> {}]}]
  /\ UNCHANGED <<roster, reply_to, net, starts, joined, told>>

\* ... then the node's own entry, under the lock ...
LeaveMark(n, call) ==
  LET targets == DOMAIN roster[n] \ {n} IN
  /\ call.step = "mark"
  /\ roster' = [roster EXCEPT ![n][n] = [status |-> "Left", incarnation |-> call.inc]]
  /\ calls' = [calls EXCEPT ![n] = (@ \ {call}) \cup
                 {[step |-> "send", inc |-> call.inc, targets |-> targets]}]
  /\ UNCHANGED <<counter, reply_to, net, used, starts, joined, told>>

\* ... then the roster as it is by then, to everyone known at the mark.
LeaveSend(n, call) ==
  /\ call.step = "send"
  /\ net' = net \cup {Msg("gossip", n, p, roster[n]) : p \in call.targets}
  /\ calls' = [calls EXCEPT ![n] = @ \ {call}]
  /\ told' = told \cup {<<n, p>> : p \in call.targets}
  /\ UNCHANGED <<roster, counter, reply_to, used, starts, joined>>

\* The process dies and start() is called again with the same name.
Restart(n) ==
  /\ Called
  /\ starts' = starts + 1
  /\ roster' = [roster EXCEPT ![n] = Fresh(n)]
  /\ counter' = [counter EXCEPT ![n] = 0]
  /\ reply_to' = [reply_to EXCEPT ![n] = None]
  /\ calls' = [calls EXCEPT ![n] = {}]
  /\ joined' = {j \in joined : n \notin {j[1], j[2]}}
  /\ told' = {j \in told : n \notin {j[1], j[2]}}
  /\ UNCHANGED net

MemberNext ==
  \/ \E n, p \in Node : Join(n, p)
  \/ \E msg \in net : Receive(msg)
  \/ \E n \in Node : Reply(n) \/ LeaveBump(n) \/ Restart(n)
  \/ \E n \in Node : \E call \in calls[n] : LeaveMark(n, call) \/ LeaveSend(n, call)

MemberSpec == MemberInit /\ [][MemberNext]_memberVars

----------------------------------------------------------------------------
(* Properties.                                                             *)

Quiet == net = {} /\ \A n \in Node : reply_to[n] = None /\ calls[n] = {}

\* Once a node's roster says that another member has left, no late or
\* repeated datagram, however old its snapshot, brings that member back.
LeftIsFinal ==
  [][\A n \in Node : \A m \in DOMAIN roster[n] \ {n} :
       roster[n][m].status = "Left" /\ starts' = starts => roster'[n][m].status = "Left"]_memberVars

\* A joiner and its peer know each other, and the peer lists as alive a
\* joiner that is.
Seen(n, p) ==
  /\ n \in DOMAIN roster[p] /\ p \in DOMAIN roster[n]
  /\ roster[n][n].status = "Alive" => roster[p][n].status = "Alive"

\* "nodes exchange their full roster on `join`": when everything sent has
\* arrived, joins have had their effect on both sides, whatever was merged,
\* answered and left in between.
JoinIsSeen == (Quiet /\ starts = 0) => \A j \in joined : Seen(j[1], j[2])

\* The same of a node that was started again and joins under its old name:
\* membership.rs says of the incarnation "higher wins when reconciling
\* conflicting reports", which start() sets to 0.
RejoinIsSeen == (Quiet) => \A j \in joined : Seen(j[1], j[2])

\* "gossip the change to every known member": when everything sent has
\* arrived, each member that a leaving node knew lists it as left, although
\* the roster is read a second time for the datagram and other nodes may have
\* been started again meanwhile.
LeaveIsSeen == Quiet => \A l \in told : roster[l[2]][l[1]].status = "Left"

=============================================================================
