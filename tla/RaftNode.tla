------------------------------ MODULE RaftNode ------------------------------
(***************************************************************************)
(* The consensus node of src/src/raft.rs with the state machine (fsm.rs)   *)
(* and the cluster state (state.rs) its committed commands are applied to. *)
(*                                                                         *)
(* A command names a table, a key and a body; validate() of a job, node,   *)
(* allocation or evaluation is the membership of its body in Valid.        *)
(* propose holds &mut self from the push to the pop, so it is one action.  *)
(* Server reaches the store only through it, and Server.tla models what    *)
(* the accepted commands do there; this module is about the log, and about *)
(* the file StateStore::save writes in place for StateStore::load to read. *)
(***************************************************************************)
EXTENDS Integers, SequencesExt

CONSTANTS
  Key,      \* job names and ids
  Body,     \* what a job, node, allocation or evaluation holds
  Valid,    \* the bodies that pass validate()
  MaxLog    \* bound: commands in the log

ASSUME RaftNodeAssumption == Valid \subseteq Body /\ MaxLog \in Nat

Table == {"jobs", "nodes", "allocs", "evals"}

\* DeregisterJob is the only command that removes.
Command ==
  [op : {"upsert"}, table : Table, key : Key, body : Body]
    \cup [op : {"delete"}, table : {"jobs"}, key : Key]

VARIABLES
  role,   \* "Leader" from bootstrap(), "Follower" from new()
  log, state,
  file,   \* what save() left at its path: is it "none", "torn" or "whole", and
          \* the store a whole one holds
  saved   \* history: the log a whole file was saved at

nodeVars == <<role, log, state, file, saved>>

fileVars == <<file, saved>>

----------------------------------------------------------------------------
Empty == [t \in Table |-> [k \in {} |-> {}]]

\* validate() of a job, node, allocation or evaluation.
Validates(body) == body \in Valid

\* Faulty variant: upsert without validate().
AcceptsUnvalidated(s, c) == c.op = "upsert" \/ c.key \in DOMAIN s.jobs

\* Whether the StateStore operation behind a command returns Ok.
Accepts(s, c) ==
  IF c.op = "upsert" THEN Validates(c.body) ELSE c.key \in DOMAIN s.jobs

\* What it does then.
Apply(s, c) ==
  [s EXCEPT ![c.table] =
     IF c.op = "upsert"
       THEN [k \in DOMAIN @ \cup {c.key} |-> IF k = c.key THEN c.body ELSE @[k]]
       ELSE [k \in DOMAIN @ \ {c.key} |-> @[k]]]

NodeInit ==
  /\ role \in {"Leader", "Follower"}
  /\ log = <<>>
  /\ state = Empty
  /\ file = [is |-> "none", store |-> Empty]
  /\ saved = <<>>

\* propose() returning Ok.
Propose(c) ==
  /\ role = "Leader"
  /\ Len(log) < MaxLog
  /\ Accepts(state, c)
  /\ log' = Append(log, c)
  /\ state' = Apply(state, c)
  /\ UNCHANGED <<role, fileVars>>

\* Faulty variant: the refused command stays in the log.
ProposeRefusedNoPop(c) ==
  /\ role = "Leader"
  /\ Len(log) < MaxLog
  /\ ~Accepts(state, c)
  /\ log' = Append(log, c)
  /\ UNCHANGED <<role, state, fileVars>>

\* propose() of a command the state machine refuses: pushed, then popped.
ProposeRefused(c) ==
  /\ role = "Leader"
  /\ ~Accepts(state, c)
  /\ log' = Front(Append(log, c))
  /\ UNCHANGED <<role, state, fileVars>>

\* save() that returns Ok.
Save ==
  /\ file' = [is |-> "whole", store |-> state]
  /\ saved' = log
  /\ UNCHANGED <<role, log, state>>

\* save() cut off by a crash: fs::write has emptied the old file and not
\* written the new one out.  The server that is started next bootstraps a
\* node with nothing in it.
SaveCrash ==
  /\ file' = [is |-> "torn", store |-> Empty]
  /\ role' = "Leader"
  /\ log' = <<>>
  /\ state' = Empty
  /\ saved' = <<>>

\* Whether load() of a file returns Ok: it is there, parses, and every entity
\* in it passes validate().
Loads(f) ==
  /\ f.is = "whole"
  /\ \A t \in Table : \A k \in DOMAIN f.store[t] : Validates(f.store[t][k])

NodeNext ==
  \/ \E c \in Command : Propose(c) \/ ProposeRefused(c)
  \/ Save

----------------------------------------------------------------------------
(* Properties.                                                             *)

\* The states a replay of the commands onto an empty store goes through.
Replay(cmds) ==
  LET after[n \in 0 .. Len(cmds)] == IF n = 0 THEN Empty ELSE Apply(after[n - 1], cmds[n])
  IN  after

\* "the log never holds a command the FSM wouldn't accept": a replay of the
\* log onto an empty store is refused nowhere, whatever was refused, deleted
\* and overwritten in between, and ends in the state the node has now.
Replayable ==
  /\ \A n \in DOMAIN log : Accepts(Replay(log)[n - 1], log[n])
  /\ Replay(log)[Len(log)] = state

\* What save() wrote out, load() takes: no entity the state machine accepted
\* is refused by the validation of load(), and the store it returns is the
\* one that the commands committed at that moment had built.
SavedLoads ==
  file.is = "whole" => Loads(file) /\ file.store = Replay(saved)[Len(saved)]

=============================================================================
