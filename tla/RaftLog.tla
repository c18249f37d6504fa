------------------------------ MODULE RaftLog ------------------------------
(***************************************************************************)
(* The disk-backed Raft log of src/src/raft_log.rs: what RaftLogStore has  *)
(* in memory, the two files behind it, and process crashes and failed      *)
(* writes between its file operations.                                     *)
(*                                                                         *)
(*   entries, base_index   Inner, lost in a crash                          *)
(*   log_file              the entries on the lines of {base_path}.log     *)
(*   damaged               one of its lines is not a whole entry           *)
(*   snap                  last index of the snapshot in {base_path}.snap, *)
(*                         0 without one: the rename makes it atomic       *)
(*   phase                 "ready"    no method is running                 *)
(*                         "compact"  create_snapshot or install_snapshot  *)
(*                                    has renamed the snapshot into place  *)
(*                         "rewrite"  truncate has emptied the log file    *)
(*                                    and is writing its lines back        *)
(*                         "down"     crashed                              *)
(*                         "broken"   open() returned an error             *)
(*                                                                         *)
(* Every method holds the mutex from start to end, so the two middle       *)
(* phases are seen by nobody but a crash.  Once a line is damaged, open()  *)
(* refuses the file whatever else is in it, until the file is emptied; so  *)
(* that a later append may run into an unfinished line is not kept apart.  *)
(* A write that loses nothing but the newline, which open() accepts, is    *)
(* left out.  A crash is one of the process: what was written survives it. *)
(* Terms and the snapshot's state are payload no method here looks at.     *)
(***************************************************************************)
EXTENDS Integers, Sequences

CONSTANTS
  Command,
  Faults,    \* the faults that may happen, of FaultKind
  MaxIndex,  \* bound: log indices
  MaxFaults  \* bound: faults in one behaviour

\* "torn"           a write of append ends half way, in an error or a crash
\* "compact"        the log file is not emptied after the snapshot was renamed,
\*                  because of a crash or because File::create failed
\* "rewrite_crash"  a crash while truncate writes the log file anew
\* "rewrite_fail"   a write of truncate fails, and the process goes on
FaultKind == {"torn", "compact", "rewrite_crash", "rewrite_fail"}

ASSUME LogAssumption ==
  /\ Faults \subseteq FaultKind
  /\ MaxIndex \in Nat
  /\ MaxFaults \in Nat

VARIABLES entries, base_index, log_file, damaged, snap, phase,
          acked,    \* history: index -> command, as append returned it
          faulted,  \* history: the kinds of faults so far
          count     \* history: how many faults so far

vars == <<entries, base_index, log_file, damaged, snap, phase, acked, faulted, count>>

Entry == [index : Nat, command : Command]

LastIndex == base_index + Len(entries) - 1

\* Faulty variant: the entry at `from` itself is left out.
EntriesAfter(from) ==
  IF from < base_index THEN entries ELSE SubSeq(entries, from - base_index + 2, Len(entries))

\* entries_from(from): past the end there are none.
EntriesFrom(from) ==
  IF from < base_index THEN entries ELSE SubSeq(entries, from - base_index + 1, Len(entries))

Fault(kind) ==
  /\ kind \in Faults
  /\ count < MaxFaults
  /\ faulted' = faulted \cup {kind}
  /\ count' = count + 1

NoFault == UNCHANGED <<faulted, count>>

----------------------------------------------------------------------------
Init ==
  /\ entries = <<>>
  /\ base_index = 1
  /\ log_file = <<>>
  /\ damaged = FALSE
  /\ snap = 0
  /\ phase = "ready"
  /\ acked = [i \in {} |-> {}]
  /\ faulted = {}
  /\ count = 0

\* open(): the snapshot fixes base_index, then every line of the log file is
\* loaded; one that does not parse is an error.
Open ==
  /\ phase = "down"
  /\ IF ~damaged
       THEN /\ phase' = "ready"
            /\ entries' = log_file
            /\ base_index' = snap + 1
       ELSE /\ phase' = "broken"
            /\ UNCHANGED <<entries, base_index>>
  /\ UNCHANGED <<log_file, snap, acked, damaged>>
  /\ NoFault

\* Faulty variant: the new entry gets the index of the last one.
NewEntrySameIndex(c) == [index |-> LastIndex, command |-> c]

NewEntry(c) == [index |-> LastIndex + 1, command |-> c]

\* append() returning Ok.
AppendEntry(c) ==
  /\ phase = "ready"
  /\ LastIndex < MaxIndex
  /\ log_file' = Append(log_file, NewEntry(c))
  /\ entries' = Append(entries, NewEntry(c))
  /\ acked' = [i \in DOMAIN acked \cup {LastIndex + 1} |->
                 IF i = LastIndex + 1 THEN c ELSE acked[i]]
  /\ UNCHANGED <<base_index, snap, phase, damaged>>
  /\ NoFault

\* Faulty variant: the line is written in two parts.
AppendCrashTwoWrites(c) ==
  /\ phase = "ready"
  /\ LastIndex < MaxIndex
  /\ damaged' = TRUE
  /\ phase' = "down"
  /\ UNCHANGED <<entries, base_index, log_file, snap, acked>>
  /\ NoFault

\* A crash after the line was written and before append returned.
AppendCrash(c) ==
  /\ phase = "ready"
  /\ LastIndex < MaxIndex
  /\ log_file' = Append(log_file, NewEntry(c))
  /\ phase' = "down"
  /\ UNCHANGED <<entries, base_index, snap, acked, damaged>>
  /\ NoFault

\* A write that ends half way: append returns Err, or the process is gone.
AppendTorn ==
  /\ phase = "ready"
  /\ Fault("torn")
  /\ damaged' = TRUE
  /\ phase' \in {"ready", "down"}
  /\ UNCHANGED <<entries, base_index, log_file, snap, acked>>

\* create_snapshot(), up to the rename.  It covers the whole log.
CreateSnapshot ==
  /\ phase = "ready"
  /\ snap' = LastIndex
  /\ phase' = "compact"
  /\ UNCHANGED <<entries, base_index, log_file, acked, damaged>>
  /\ NoFault

\* install_snapshot(), up to the rename: the leader's snapshot ends at any
\* index, and the entries it covers become the leader's.
InstallSnapshot(last) ==
  /\ phase = "ready"
  /\ snap' = last
  /\ acked' = [i \in {} |-> {}]
  /\ phase' = "compact"
  /\ UNCHANGED <<entries, base_index, log_file, damaged>>
  /\ NoFault

\* The rest of both: memory and the log file are emptied.
Compact ==
  /\ phase = "compact"
  /\ entries' = <<>>
  /\ base_index' = snap + 1
  /\ log_file' = <<>>
  /\ damaged' = FALSE
  /\ phase' = "ready"
  /\ UNCHANGED <<snap, acked>>
  /\ NoFault

\* File::create fails: memory is reset already, the file is as it was.
CompactFail ==
  /\ phase = "compact"
  /\ Fault("compact")
  /\ entries' = <<>>
  /\ base_index' = snap + 1
  /\ phase' = "ready"
  /\ UNCHANGED <<log_file, snap, acked, damaged>>

CompactCrash ==
  /\ phase = "compact"
  /\ Fault("compact")
  /\ phase' = "down"
  /\ UNCHANGED <<entries, base_index, log_file, snap, acked, damaged>>

\* Faulty variant: the lines that stay are not written back.
TruncateNoRewrite(from) ==
  LET pos == IF from >= base_index THEN from - base_index ELSE 0 IN
  /\ phase = "ready"
  /\ pos < Len(entries)
  /\ entries' = SubSeq(entries, 1, pos)
  /\ log_file' = <<>>
  /\ damaged' = FALSE
  /\ acked' = [i \in {k \in DOMAIN acked : k < from} |-> acked[i]]
  /\ UNCHANGED <<base_index, snap, phase>>
  /\ NoFault

\* truncate(from) drops entries from memory and empties the log file; from at
\* or below base_index drops all.  Beyond the last entry it does nothing.
Truncate(from) ==
  LET pos == IF from >= base_index THEN from - base_index ELSE 0 IN
  /\ phase = "ready"
  /\ pos < Len(entries)
  /\ entries' = SubSeq(entries, 1, pos)
  /\ log_file' = <<>>
  /\ damaged' = FALSE
  /\ acked' = [i \in {k \in DOMAIN acked : k < from} |-> acked[i]]
  /\ phase' = "rewrite"
  /\ UNCHANGED <<base_index, snap>>
  /\ NoFault

\* truncate() when File::create fails: the file still has what memory lost.
TruncateFail(from) ==
  LET pos == IF from >= base_index THEN from - base_index ELSE 0 IN
  /\ phase = "ready"
  /\ pos < Len(entries)
  /\ Fault("rewrite_fail")
  /\ entries' = SubSeq(entries, 1, pos)
  /\ acked' = [i \in {k \in DOMAIN acked : k < from} |-> acked[i]]
  /\ UNCHANGED <<base_index, log_file, damaged, snap, phase>>

RewriteLine ==
  /\ phase = "rewrite"
  /\ Len(log_file) < Len(entries)
  /\ log_file' = Append(log_file, entries[Len(log_file) + 1])
  /\ UNCHANGED <<entries, base_index, snap, phase, acked, damaged>>
  /\ NoFault

RewriteDone ==
  /\ phase = "rewrite"
  /\ Len(log_file) = Len(entries)
  /\ phase' = "ready"
  /\ UNCHANGED <<entries, base_index, log_file, snap, acked, damaged>>
  /\ NoFault

\* The lines not yet written back are missing from the file, and the one
\* being written may be cut short.
RewriteFail ==
  /\ phase = "rewrite"
  /\ Len(log_file) < Len(entries)
  /\ Fault("rewrite_fail")
  /\ phase' = "ready"
  /\ damaged' \in BOOLEAN
  /\ UNCHANGED <<entries, base_index, log_file, snap, acked>>

RewriteCrash ==
  /\ phase = "rewrite"
  /\ Len(log_file) < Len(entries)
  /\ Fault("rewrite_crash")
  /\ phase' = "down"
  /\ damaged' \in BOOLEAN
  /\ UNCHANGED <<entries, base_index, log_file, snap, acked>>

\* A crash while no method runs.
Crash ==
  /\ phase = "ready"
  /\ phase' = "down"
  /\ UNCHANGED <<entries, base_index, log_file, snap, acked, damaged>>
  /\ NoFault

Next ==
  \/ Open \/ AppendTorn \/ CreateSnapshot \/ Compact \/ CompactFail \/ CompactCrash
  \/ RewriteLine \/ RewriteDone \/ RewriteFail \/ RewriteCrash \/ Crash
  \/ \E c \in Command : AppendEntry(c) \/ AppendCrash(c)
  \/ \E i \in 0 .. MaxIndex : InstallSnapshot(i)
  \/ \E i \in 1 .. MaxIndex : Truncate(i) \/ TruncateFail(i)

Spec == Init /\ [][Next]_vars

----------------------------------------------------------------------------
(* Properties.                                                             *)

\* The variables hold values of their types.
TypeOK ==
  /\ entries \in Seq(Entry)
  /\ base_index \in Nat \ {0}
  /\ log_file \in Seq(Entry)
  /\ damaged \in BOOLEAN
  /\ snap \in Nat
  /\ phase \in {"ready", "compact", "rewrite", "down", "broken"}
  /\ DOMAIN acked \subseteq Nat /\ \A i \in DOMAIN acked : acked[i] \in Command
  /\ faulted \subseteq FaultKind
  /\ count \in Nat

\* get(i) finds the entry at position i - base_index: the entry there has
\* index i.
Indexed == \A i \in DOMAIN entries : entries[i].index = base_index + i - 1

\* get and append count from base_index.  Through crashes, restarts, torn
\* writes and truncates cut off by a crash, the entry at a position keeps the
\* index that position stands for; only a fault between the rename of a
\* snapshot and the emptying of the log file, or a failed rewrite that the
\* process survives, can break that.
IndexMatches ==
  (phase = "ready" /\ faulted \cap {"compact", "rewrite_fail"} = {}) => Indexed

\* What get(i) returns.
Got(i) == i >= base_index /\ i <= LastIndex

\* "so the cluster can rebuild state after a restart": a command that append
\* acknowledged is, until it is truncated, covered by the snapshot or in the
\* log under its index.
Kept ==
  \A i \in DOMAIN acked :
    i <= snap \/ (Got(i) /\ entries[i - base_index + 1].command = acked[i])

\* A store that is open has kept every acknowledged command, through crashes
\* and torn writes, unless a fault cut off a compaction or a truncate.
AckedKept == (phase = "ready" /\ faulted \subseteq {"torn"}) => Kept

\* A reader who has the snapshot and every entry below `from` and takes
\* entries_from(from) misses nothing: the entries it gets go on at `from`
\* without a gap, and every acknowledged command from there is among them in
\* its place, after crashes, restarts, torn writes and compactions alike.
CatchesUp ==
  (phase = "ready" /\ faulted \subseteq {"torn"}) =>
    \A from \in (snap + 1) .. (MaxIndex + 1) :
      LET rest == EntriesFrom(from) IN
      /\ \A k \in DOMAIN rest : rest[k].index = from + k - 1
      /\ \A i \in DOMAIN acked :
           i >= from => i - from + 1 \in DOMAIN rest /\ rest[i - from + 1].command = acked[i]

\* open() refuses a log only after a write was cut short: never because of a
\* crash between two file operations, at whatever point of a method.
BrokenOnlyByTear ==
  phase = "broken" => faulted \cap {"torn", "rewrite_crash", "rewrite_fail"} # {}

\* "Get an entry by its log index", and base_index "normally 1, or
\* `snapshot_last_index + 1`": the same without regard to faults.
AlwaysIndexed == phase = "ready" => Indexed

============================================================================
