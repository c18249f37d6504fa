--------------------------- MODULE RaftLogProofs ---------------------------
(***************************************************************************)
(* Proofs about the disk-backed Raft log, for every set of commands, every *)
(* set of faults and every bound.                                          *)
(***************************************************************************)
EXTENDS RaftLog, TLAPS

\* No fault so far has left the log file behind memory or snapshot.
Sound == faulted \cap {"compact", "rewrite_fail"} = {}

\* The entries es stand at the positions that follow the snapshot.
FollowsSnap(es) == \A i \in DOMAIN es : es[i].index = snap + i

\* How memory, log file and snapshot belong together in each phase.
Coherent ==
  /\ phase \in {"ready", "rewrite"} => base_index = snap + 1 /\ FollowsSnap(entries)
  /\ phase = "ready" => log_file = entries
  /\ phase = "rewrite" => /\ Len(log_file) <= Len(entries)
                          /\ \A i \in DOMAIN log_file : log_file[i] = entries[i]
  /\ phase = "down" => FollowsSnap(log_file)

\* Every acknowledged command is covered by the snapshot or in es.
Holds(es) ==
  \A i \in DOMAIN acked :
    i <= snap \/ (i - snap \in DOMAIN es /\ es[i - snap].command = acked[i])

Durable ==
  /\ phase \in {"ready", "rewrite"} => Holds(entries)
  /\ phase = "compact" => \A i \in DOMAIN acked : i <= snap
  /\ phase = "down" => Holds(log_file)

LogInv ==
  /\ TypeOK
  /\ Sound => Coherent
  /\ faulted \subseteq {"torn"} => Durable
  /\ damaged \/ phase = "broken" => faulted \cap {"torn", "rewrite_crash", "rewrite_fail"} # {}

----------------------------------------------------------------------------
\* What pushing an entry does to the log.
LEMMA AppendFacts ==
  ASSUME NEW S, NEW es \in Seq(S), NEW e \in S
  PROVE  /\ Append(es, e) \in Seq(S)
         /\ Len(Append(es, e)) = Len(es) + 1
         /\ DOMAIN Append(es, e) = 1 .. (Len(es) + 1)
         /\ DOMAIN es = 1 .. Len(es)
         /\ Len(es) \in Nat
         /\ \A i \in 1 .. Len(es) : Append(es, e)[i] = es[i]
         /\ Append(es, e)[Len(es) + 1] = e
  OBVIOUS

\* What truncating the vector of entries leaves of it.
LEMMA PrefixFacts ==
  ASSUME NEW S, NEW es \in Seq(S), NEW n \in 0 .. Len(es)
  PROVE  /\ SubSeq(es, 1, n) \in Seq(S)
         /\ Len(SubSeq(es, 1, n)) = n
         /\ DOMAIN SubSeq(es, 1, n) = 1 .. n
         /\ \A i \in 1 .. n : SubSeq(es, 1, n)[i] = es[i]
  OBVIOUS

\* The entry that append() builds is one.
LEMMA NewEntryType ==
  ASSUME TypeOK, NEW c \in Command
  PROVE  NewEntry(c) \in Entry /\ LastIndex \in Nat /\ NewEntry(c).index = base_index + Len(entries)
  BY DEF TypeOK, NewEntry, LastIndex, Entry

----------------------------------------------------------------------------
\* The store that Init describes, newly created, satisfies LogInv.
LEMMA InitHolds == ASSUME Init PROVE LogInv
<1>1. /\ entries = <<>> /\ log_file = <<>> /\ base_index = 1 /\ snap = 0 /\ phase = "ready"
      /\ DOMAIN acked = {} /\ faulted = {} /\ count = 0 /\ damaged = FALSE
  BY DEF Init
<1>2. TypeOK
  <2>1. entries \in Seq(Entry) /\ log_file \in Seq(Entry)
    BY <1>1
  <2>2. DOMAIN acked \subseteq Nat /\ (\A i \in DOMAIN acked : acked[i] \in Command)
    BY <1>1
  <2>3. base_index \in Nat \ {0} /\ snap \in Nat /\ count \in Nat
    BY <1>1
  <2>4. damaged \in BOOLEAN /\ faulted \subseteq FaultKind
    BY <1>1, Zenon
  <2> QED BY <1>1, <2>1, <2>2, <2>3, <2>4 DEF TypeOK
<1>3. Coherent
  BY <1>1 DEF Coherent, FollowsSnap
<1>4. Durable
  BY <1>1 DEF Durable, Holds
<1> QED BY <1>1, <1>2, <1>3, <1>4 DEF LogInv

\* append() returning Ok.
LEMMA AppendHolds == ASSUME LogInv, NEW c \in Command, AppendEntry(c) PROVE LogInv'
<1>1. TypeOK /\ phase = "ready" /\ UNCHANGED <<base_index, snap, phase, damaged, faulted, count>>
  BY DEF LogInv, AppendEntry, NoFault
<1>2. /\ entries' = Append(entries, NewEntry(c))
      /\ log_file' = Append(log_file, NewEntry(c))
      /\ DOMAIN acked' = DOMAIN acked \cup {LastIndex + 1}
      /\ acked'[LastIndex + 1] = c
      /\ \A i \in DOMAIN acked : i # LastIndex + 1 => acked'[i] = acked[i]
  BY DEF AppendEntry
<1>3. NewEntry(c) \in Entry /\ LastIndex \in Nat /\ NewEntry(c).index = base_index + Len(entries)
      /\ NewEntry(c).command = c
  BY <1>1, NewEntryType DEF NewEntry
<1>4. entries \in Seq(Entry) /\ log_file \in Seq(Entry) /\ snap \in Nat
  BY <1>1 DEF TypeOK
<1>5. TypeOK'
  BY <1>1, <1>2, <1>3, <1>4, AppendFacts DEF TypeOK
<1>6. ASSUME Sound PROVE Coherent'
  <2>1. base_index = snap + 1 /\ FollowsSnap(entries) /\ log_file = entries
    BY <1>1, <1>6 DEF LogInv, Coherent
  <2>2. ASSUME NEW i \in DOMAIN entries' PROVE entries'[i].index = snap + i
    BY <1>2, <1>3, <1>4, <2>1, AppendFacts DEF FollowsSnap
  <2> QED BY <1>1, <1>2, <2>1, <2>2 DEF Coherent, FollowsSnap
<1>7. ASSUME faulted \subseteq {"torn"} PROVE Durable'
  <2>1. base_index = snap + 1 /\ Holds(entries)
    BY <1>1, <1>7 DEF LogInv, Coherent, Durable, Sound
  <2>2. LastIndex + 1 = snap + Len(entries) + 1
    BY <1>1, <2>1 DEF LastIndex, TypeOK
  <2>3. ASSUME NEW i \in DOMAIN acked', i > snap
        PROVE  i - snap \in DOMAIN entries' /\ entries'[i - snap].command = acked'[i]
    <3>1. CASE i = LastIndex + 1
      <4>1. i - snap = Len(entries) + 1
        BY <3>1, <2>2, <1>4
      <4> QED BY <3>1, <4>1, <1>2, <1>3, <1>4, AppendFacts
    <3>2. CASE i # LastIndex + 1
      <4>1. i \in DOMAIN acked /\ acked'[i] = acked[i] /\ i \in Nat
        BY <3>2, <1>1, <1>2 DEF TypeOK
      <4>2. i - snap \in DOMAIN entries /\ entries[i - snap].command = acked[i]
        BY <4>1, <2>1, <2>3, <1>4 DEF Holds
      <4> QED BY <4>1, <4>2, <1>2, <1>3, <1>4, AppendFacts
    <3> QED BY <3>1, <3>2
  <2>4. \A i \in DOMAIN acked' : i \in Nat
    BY <1>5 DEF TypeOK
  <2> QED BY <1>1, <1>4, <2>3, <2>4 DEF Durable, Holds
<1> QED BY <1>1, <1>5, <1>6, <1>7 DEF LogInv, Sound

\* append() cut off by a crash after its line was written.
LEMMA AppendCrashHolds == ASSUME LogInv, NEW c \in Command, AppendCrash(c) PROVE LogInv'
<1>1. TypeOK /\ phase = "ready" /\ phase' = "down"
      /\ UNCHANGED <<entries, base_index, snap, acked, damaged, faulted, count>>
      /\ log_file' = Append(log_file, NewEntry(c))
  BY DEF LogInv, AppendCrash, NoFault
<1>2. NewEntry(c) \in Entry /\ NewEntry(c).index = base_index + Len(entries)
  BY <1>1, NewEntryType
<1>3. entries \in Seq(Entry) /\ log_file \in Seq(Entry) /\ snap \in Nat
  BY <1>1 DEF TypeOK
<1>4. TypeOK'
  BY <1>1, <1>2, <1>3, AppendFacts DEF TypeOK
<1>5. ASSUME Sound PROVE Coherent'
  <2>1. base_index = snap + 1 /\ FollowsSnap(entries) /\ log_file = entries
    BY <1>1, <1>5 DEF LogInv, Coherent
  <2>2. ASSUME NEW i \in DOMAIN log_file' PROVE log_file'[i].index = snap + i
    <3>1. i \in 1 .. (Len(entries) + 1) /\ DOMAIN entries = 1 .. Len(entries) /\ Len(entries) \in Nat
      BY <1>1, <1>2, <1>3, <2>1, AppendFacts
    <3>2. CASE i \in DOMAIN entries
      BY <3>1, <3>2, <1>1, <1>2, <1>3, <2>1, AppendFacts DEF FollowsSnap
    <3>3. CASE i = Len(entries) + 1
      <4>1. log_file'[i] = NewEntry(c)
        BY <3>3, <1>1, <1>2, <1>3, <2>1, AppendFacts
      <4> QED BY <4>1, <3>1, <3>3, <1>2, <1>3, <2>1
    <3> QED BY <3>1, <3>2, <3>3
  <2> QED BY <1>1, <2>2 DEF Coherent, FollowsSnap
<1>6. ASSUME faulted \subseteq {"torn"} PROVE Durable'
  <2>1. log_file = entries /\ Holds(entries)
    BY <1>1, <1>6 DEF LogInv, Coherent, Durable, Sound
  <2>2. \A i \in DOMAIN log_file : i \in DOMAIN log_file' /\ log_file'[i] = log_file[i]
    BY <1>1, <1>2, <1>3, AppendFacts
  <2> QED BY <1>1, <2>1, <2>2 DEF Durable, Holds
<1> QED BY <1>1, <1>4, <1>5, <1>6 DEF LogInv, Sound

\* truncate(), up to the emptying of the log file.
LEMMA TruncateHolds == ASSUME LogInv, NEW from \in 1 .. MaxIndex, Truncate(from) PROVE LogInv'
<1> DEFINE pos == IF from >= base_index THEN from - base_index ELSE 0
<1>1. /\ TypeOK /\ phase = "ready" /\ phase' = "rewrite" /\ pos < Len(entries)
      /\ entries' = SubSeq(entries, 1, pos) /\ log_file' = <<>> /\ damaged' = FALSE
      /\ acked' = [i \in {k \in DOMAIN acked : k < from} |-> acked[i]]
      /\ UNCHANGED <<base_index, snap, faulted, count>>
  BY DEF LogInv, Truncate, NoFault
<1>2. entries \in Seq(Entry) /\ snap \in Nat /\ base_index \in Nat /\ Len(entries) \in Nat
      /\ pos \in 0 .. Len(entries) /\ DOMAIN entries = 1 .. Len(entries)
  BY <1>1, LogAssumption DEF TypeOK
<1>3. /\ entries' \in Seq(Entry) /\ DOMAIN entries' = 1 .. pos /\ Len(entries') = pos
      /\ \A i \in 1 .. pos : entries'[i] = entries[i]
  BY <1>1, <1>2, PrefixFacts
<1>4. TypeOK'
  <2>1. DOMAIN acked' \subseteq DOMAIN acked /\ \A i \in DOMAIN acked' : acked'[i] = acked[i]
    BY <1>1
  <2>2. DOMAIN acked' \subseteq Nat /\ \A i \in DOMAIN acked' : acked'[i] \in Command
    BY <1>1, <2>1 DEF TypeOK
  <2>3. log_file' \in Seq(Entry)
    BY <1>1
  <2> QED BY <1>1, <1>3, <2>2, <2>3 DEF TypeOK
<1>5. ASSUME Sound PROVE Coherent'
  <2>1. base_index = snap + 1 /\ FollowsSnap(entries)
    BY <1>1, <1>5 DEF LogInv, Coherent
  <2>2. \A i \in DOMAIN entries' : entries'[i].index = snap + i
    BY <1>2, <1>3, <2>1 DEF FollowsSnap
  <2>3. Len(log_file') <= Len(entries') /\ DOMAIN log_file' = {}
    BY <1>1, <1>2, <1>3
  <2> QED BY <1>1, <2>1, <2>2, <2>3 DEF Coherent, FollowsSnap
<1>6. ASSUME faulted \subseteq {"torn"} PROVE Durable'
  <2>1. base_index = snap + 1 /\ Holds(entries)
    BY <1>1, <1>6 DEF LogInv, Coherent, Durable, Sound
  <2>2. ASSUME NEW i \in DOMAIN acked', ~(i <= snap)
        PROVE  i - snap \in DOMAIN entries' /\ entries'[i - snap].command = acked'[i]
    <3>1. i \in DOMAIN acked /\ acked'[i] = acked[i] /\ i < from /\ i \in Nat
      BY <1>1 DEF TypeOK
    <3>2. i - snap \in DOMAIN entries /\ entries[i - snap].command = acked[i]
      BY <2>1, <2>2, <3>1 DEF Holds
    <3>3. i - snap \in 1 .. pos
      BY <1>2, <2>1, <2>2, <3>1
    <3> QED BY <1>3, <3>1, <3>2, <3>3
  <2> QED BY <1>1, <2>2 DEF Durable, Holds
<1> QED BY <1>1, <1>4, <1>5, <1>6 DEF LogInv, Sound

\* truncate() writes one line back.
LEMMA RewriteLineHolds == ASSUME LogInv, RewriteLine PROVE LogInv'
<1>1. /\ TypeOK /\ phase = "rewrite" /\ Len(log_file) < Len(entries)
      /\ log_file' = Append(log_file, entries[Len(log_file) + 1])
      /\ UNCHANGED <<entries, base_index, snap, phase, acked, damaged, faulted, count>>
  BY DEF LogInv, RewriteLine, NoFault
<1>2. /\ entries \in Seq(Entry) /\ log_file \in Seq(Entry) /\ Len(log_file) \in Nat /\ Len(entries) \in Nat
      /\ entries[Len(log_file) + 1] \in Entry
  BY <1>1 DEF TypeOK
<1>3. /\ log_file' \in Seq(Entry) /\ Len(log_file') = Len(log_file) + 1
      /\ DOMAIN log_file' = 1 .. (Len(log_file) + 1) /\ DOMAIN log_file = 1 .. Len(log_file)
      /\ \A i \in 1 .. Len(log_file) : log_file'[i] = log_file[i]
      /\ log_file'[Len(log_file) + 1] = entries[Len(log_file) + 1]
  BY <1>1, <1>2, AppendFacts
<1>4. TypeOK'
  BY <1>1, <1>3 DEF TypeOK
<1>5. ASSUME Sound PROVE Coherent'
  <2>1. /\ base_index = snap + 1 /\ FollowsSnap(entries)
        /\ \A i \in DOMAIN log_file : log_file[i] = entries[i]
    BY <1>1, <1>5 DEF LogInv, Coherent
  <2>2. Len(log_file') <= Len(entries)
    BY <1>1, <1>2, <1>3
  <2>3. ASSUME NEW i \in DOMAIN log_file' PROVE log_file'[i] = entries[i]
    BY <1>2, <1>3, <2>1
  <2> QED BY <1>1, <2>1, <2>2, <2>3 DEF Coherent, FollowsSnap
<1>6. ASSUME faulted \subseteq {"torn"} PROVE Durable'
  BY <1>1, <1>6 DEF LogInv, Durable, Holds
<1> QED BY <1>1, <1>4, <1>5, <1>6 DEF LogInv, Sound

\* truncate() returns: the file has the lines that memory has.
LEMMA RewriteDoneHolds == ASSUME LogInv, RewriteDone PROVE LogInv'
<1>1. /\ TypeOK /\ phase = "rewrite" /\ phase' = "ready" /\ Len(log_file) = Len(entries)
      /\ UNCHANGED <<entries, base_index, log_file, snap, acked, damaged, faulted, count>>
  BY DEF LogInv, RewriteDone, NoFault
<1>2. TypeOK'
  BY <1>1 DEF TypeOK
<1>3. ASSUME Sound PROVE Coherent'
  <2>1. /\ base_index = snap + 1 /\ FollowsSnap(entries)
        /\ \A i \in DOMAIN log_file : log_file[i] = entries[i]
    BY <1>1, <1>3 DEF LogInv, Coherent
  <2>2. log_file = entries
    BY <1>1, <2>1 DEF TypeOK
  <2> QED BY <1>1, <2>1, <2>2 DEF Coherent, FollowsSnap
<1>4. ASSUME faulted \subseteq {"torn"} PROVE Durable'
  BY <1>1, <1>4 DEF LogInv, Durable, Holds
<1> QED BY <1>1, <1>2, <1>3, <1>4 DEF LogInv, Sound

\* open(): what the log file holds becomes what memory holds.
LEMMA OpenHolds == ASSUME LogInv, Open PROVE LogInv'
<1>1. TypeOK /\ phase = "down" /\ UNCHANGED <<log_file, snap, acked, damaged, faulted, count>>
  BY DEF LogInv, Open, NoFault
<1>2. CASE ~damaged
  <2>1. phase' = "ready" /\ entries' = log_file /\ base_index' = snap + 1
    BY <1>2 DEF Open
  <2>2. TypeOK'
    BY <1>1, <2>1 DEF TypeOK
  <2>3. Sound => Coherent'
    BY <1>1, <2>1 DEF LogInv, Coherent, FollowsSnap
  <2>4. faulted \subseteq {"torn"} => Durable'
    BY <1>1, <2>1 DEF LogInv, Durable, Holds
  <2> QED BY <1>1, <1>2, <2>1, <2>2, <2>3, <2>4 DEF LogInv, Sound
<1>3. CASE damaged
  <2>1. phase' = "broken" /\ UNCHANGED <<entries, base_index>>
    BY <1>3 DEF Open
  <2>2. TypeOK'
    BY <1>1, <2>1 DEF TypeOK
  <2> QED BY <1>1, <1>3, <2>1, <2>2 DEF LogInv, Sound, Coherent, Durable
<1> QED BY <1>2, <1>3

\* create_snapshot() and install_snapshot(), up to the rename.
LEMMA SnapshotHolds ==
  ASSUME LogInv, CreateSnapshot \/ \E i \in 0 .. MaxIndex : InstallSnapshot(i)
  PROVE  LogInv'
<1>1. /\ TypeOK /\ phase = "ready" /\ phase' = "compact"
      /\ UNCHANGED <<entries, base_index, log_file, damaged, faulted, count>>
  BY DEF LogInv, CreateSnapshot, InstallSnapshot, NoFault
<1>2. Coherent'
  BY <1>1 DEF Coherent
<1>3. CASE CreateSnapshot
  <2>1. snap' = LastIndex /\ acked' = acked
    BY <1>3 DEF CreateSnapshot
  <2>2. TypeOK'
    BY <1>1, <2>1 DEF TypeOK, LastIndex
  <2>3. ASSUME faulted \subseteq {"torn"} PROVE Durable'
    <3>1. base_index = snap + 1 /\ Holds(entries)
      BY <1>1, <2>3 DEF LogInv, Coherent, Durable, Sound
    <3>2. ASSUME NEW i \in DOMAIN acked PROVE i <= LastIndex
      <4>1. i \in Nat /\ snap \in Nat /\ Len(entries) \in Nat /\ DOMAIN entries = 1 .. Len(entries)
        BY <1>1 DEF TypeOK
      <4>2. i <= snap \/ i - snap \in 1 .. Len(entries)
        BY <3>1, <4>1 DEF Holds
      <4> QED BY <3>1, <4>1, <4>2 DEF LastIndex
    <3> QED BY <1>1, <2>1, <3>2 DEF Durable
  <2> QED BY <1>1, <1>2, <2>2, <2>3 DEF LogInv, Sound
<1>4. CASE \E i \in 0 .. MaxIndex : InstallSnapshot(i)
  <2>1. snap' \in Nat /\ DOMAIN acked' = {}
    BY <1>4, LogAssumption DEF InstallSnapshot
  <2>2. TypeOK'
    BY <1>1, <2>1 DEF TypeOK
  <2>3. Durable'
    BY <1>1, <2>1 DEF Durable
  <2> QED BY <1>1, <1>2, <2>2, <2>3 DEF LogInv, Sound
<1> QED BY <1>3, <1>4

\* The rest of both.
LEMMA CompactHolds == ASSUME LogInv, Compact PROVE LogInv'
<1>1. /\ TypeOK /\ phase = "compact" /\ phase' = "ready" /\ entries' = <<>> /\ log_file' = <<>>
      /\ base_index' = snap + 1 /\ damaged' = FALSE /\ UNCHANGED <<snap, acked, faulted, count>>
  BY DEF LogInv, Compact, NoFault
<1>2. TypeOK'
  <2>1. entries' \in Seq(Entry) /\ log_file' \in Seq(Entry)
    BY <1>1
  <2>2. base_index' \in Nat \ {0}
    BY <1>1 DEF TypeOK
  <2> QED BY <1>1, <2>1, <2>2 DEF TypeOK
<1>3. Coherent'
  BY <1>1 DEF Coherent, FollowsSnap
<1>4. ASSUME faulted \subseteq {"torn"} PROVE Durable'
  BY <1>1, <1>4 DEF LogInv, Durable, Holds
<1> QED BY <1>1, <1>2, <1>3, <1>4 DEF LogInv, Sound

\* A fault between the rename and the emptying of the log file, from which on
\* LogInv claims nothing of memory and files but their types.
LEMMA CompactFaultHolds == ASSUME LogInv, CompactFail \/ CompactCrash PROVE LogInv'
<1>1. /\ TypeOK /\ "compact" \in faulted' /\ faulted' = faulted \cup {"compact"}
      /\ count' = count + 1 /\ phase' \in {"ready", "down"}
      /\ UNCHANGED <<log_file, snap, acked, damaged>>
  BY DEF LogInv, CompactFail, CompactCrash, Fault
<1>2. (entries' = <<>> \/ entries' = entries) /\ base_index' \in {snap + 1, base_index}
  BY DEF CompactFail, CompactCrash
<1>3. TypeOK'
  <2>1. entries' \in Seq(Entry)
    <3>1. entries \in Seq(Entry) /\ <<>> \in Seq(Entry)
      BY <1>1 DEF TypeOK
    <3> QED BY <1>2, <3>1, Zenon
  <2>2. base_index' \in Nat \ {0} /\ count' \in Nat
    BY <1>1, <1>2 DEF TypeOK
  <2>3. faulted' \subseteq FaultKind
    BY <1>1 DEF TypeOK, FaultKind
  <2> QED BY <1>1, <2>1, <2>2, <2>3 DEF TypeOK
<1> QED BY <1>1, <1>3 DEF LogInv, Sound

\* A failed rewrite that the process survives: memory stays well typed, and
\* nothing more is claimed from then on.
LEMMA RewriteFaultHolds ==
  ASSUME LogInv, RewriteFail \/ \E i \in 1 .. MaxIndex : TruncateFail(i)
  PROVE  LogInv'
<1>1. /\ TypeOK /\ faulted' = faulted \cup {"rewrite_fail"} /\ count' = count + 1 /\ phase' = "ready"
      /\ damaged' \in BOOLEAN /\ UNCHANGED <<base_index, log_file, snap>>
  BY DEF LogInv, RewriteFail, TruncateFail, Fault, TypeOK
<1>2. entries' \in Seq(Entry)
  <2>1. CASE RewriteFail
    BY <1>1, <2>1 DEF RewriteFail, TypeOK
  <2>2. ASSUME NEW from \in 1 .. MaxIndex, TruncateFail(from) PROVE entries' \in Seq(Entry)
    <3> DEFINE pos == IF from >= base_index THEN from - base_index ELSE 0
    <3>1. entries' = SubSeq(entries, 1, pos) /\ pos < Len(entries) /\ entries \in Seq(Entry)
      BY <1>1, <2>2 DEF TruncateFail, TypeOK
    <3>2. pos \in 0 .. Len(entries)
      BY <1>1, <3>1, LogAssumption DEF TypeOK
    <3> QED BY <3>1, <3>2, PrefixFacts
  <2> QED BY <2>1, <2>2
<1>3. DOMAIN acked' \subseteq DOMAIN acked /\ \A i \in DOMAIN acked' : acked'[i] = acked[i]
  BY DEF RewriteFail, TruncateFail
<1>4. TypeOK'
  BY <1>1, <1>2, <1>3 DEF TypeOK, FaultKind
<1> QED BY <1>1, <1>4 DEF LogInv, Sound

\* A crash in the middle of truncate: the lines written so far are a prefix.
LEMMA RewriteCrashHolds == ASSUME LogInv, RewriteCrash PROVE LogInv'
<1>1. /\ TypeOK /\ phase = "rewrite" /\ faulted' = faulted \cup {"rewrite_crash"}
      /\ count' = count + 1 /\ phase' = "down" /\ damaged' \in BOOLEAN
      /\ UNCHANGED <<entries, base_index, log_file, snap, acked>>
  BY DEF LogInv, RewriteCrash, Fault
<1>2. TypeOK'
  BY <1>1 DEF TypeOK, FaultKind
<1>3. ASSUME Sound PROVE Coherent'
  <2>1. /\ FollowsSnap(entries) /\ Len(log_file) <= Len(entries)
        /\ \A i \in DOMAIN log_file : log_file[i] = entries[i]
    BY <1>1, <1>3 DEF LogInv, Coherent
  <2>2. \A i \in DOMAIN log_file : i \in DOMAIN entries
    BY <1>1, <2>1 DEF TypeOK
  <2> QED BY <1>1, <2>1, <2>2 DEF Coherent, FollowsSnap
<1>4. Sound' => Sound
  BY <1>1 DEF Sound
<1> QED BY <1>1, <1>2, <1>3, <1>4 DEF LogInv

\* A torn append, and a crash while no method runs.
LEMMA IdleFaultHolds == ASSUME LogInv, AppendTorn \/ Crash PROVE LogInv'
<1>1. /\ TypeOK /\ phase = "ready" /\ phase' \in {"ready", "down"}
      /\ UNCHANGED <<entries, base_index, log_file, snap, acked>>
  BY DEF LogInv, AppendTorn, Crash
<1>2. \/ faulted' = faulted /\ count' = count /\ damaged' = damaged
      \/ faulted' = faulted \cup {"torn"} /\ count' = count + 1 /\ damaged' = TRUE
  BY DEF AppendTorn, Crash, Fault, NoFault
<1>3. TypeOK'
  <2>1. CASE faulted' = faulted /\ count' = count /\ damaged' = damaged
    BY <1>1, <2>1 DEF TypeOK
  <2>2. CASE faulted' = faulted \cup {"torn"} /\ count' = count + 1 /\ damaged' = TRUE
    <3>1. faulted' \subseteq FaultKind /\ count' \in Nat
      BY <1>1, <2>2 DEF TypeOK, FaultKind
    <3> QED BY <1>1, <2>2, <3>1 DEF TypeOK
  <2> QED BY <1>2, <2>1, <2>2
<1>4. Sound => Coherent'
  BY <1>1 DEF LogInv, Coherent, FollowsSnap
<1>5. ASSUME faulted \subseteq {"torn"} PROVE Durable'
  <2>1. Holds(entries) /\ log_file = entries
    BY <1>1, <1>5 DEF LogInv, Durable, Coherent, Sound
  <2> QED BY <1>1, <2>1 DEF Durable, Holds
<1>6. (Sound' => Sound) /\ (faulted' \subseteq {"torn"} => faulted \subseteq {"torn"})
  BY <1>2 DEF Sound
<1> QED BY <1>1, <1>2, <1>3, <1>4, <1>5, <1>6 DEF LogInv

----------------------------------------------------------------------------
\* Every step of the store, and a stuttering one, preserves LogInv.
LEMMA StepHolds == ASSUME LogInv, [Next]_vars PROVE LogInv'
<1>1. CASE Next
  BY <1>1, OpenHolds, IdleFaultHolds, SnapshotHolds, CompactHolds, CompactFaultHolds,
     RewriteLineHolds, RewriteDoneHolds, RewriteFaultHolds, RewriteCrashHolds,
     AppendHolds, AppendCrashHolds, TruncateHolds DEF Next
<1>2. CASE UNCHANGED vars
  <2>1. TypeOK'
    BY <1>2 DEF LogInv, TypeOK, vars
  <2>2. (Sound => Coherent') /\ (faulted \subseteq {"torn"} => Durable')
    BY <1>2 DEF LogInv, Coherent, Durable, Holds, FollowsSnap, vars
  <2> QED BY <1>2, <2>1, <2>2 DEF LogInv, Sound, vars
<1> QED BY <1>1, <1>2

\* LogInv is an invariant of the store.
THEOREM InvariantHolds == Spec => []LogInv
  BY InitHolds, StepHolds, PTL DEF Spec

\* The variables keep their types.
THEOREM TypesHold == Spec => []TypeOK
<1>1. LogInv => TypeOK
  BY DEF LogInv
<1> QED BY <1>1, InvariantHolds, PTL

\* An open log has every entry at the position its index stands for, unless a
\* fault hit between a snapshot's rename and the emptying of the log file, or
\* a rewrite failed under a process that went on.
THEOREM IndexMatchesHolds == Spec => []IndexMatches
<1>1. LogInv => IndexMatches
  <2> SUFFICES ASSUME LogInv, phase = "ready", Sound PROVE Indexed
    BY DEF IndexMatches, Sound
  <2>1. base_index = snap + 1 /\ FollowsSnap(entries) /\ entries \in Seq(Entry) /\ snap \in Nat
    BY DEF LogInv, Coherent, TypeOK
  <2> QED BY <2>1 DEF Indexed, FollowsSnap
<1> QED BY <1>1, InvariantHolds, PTL

\* An open log has every acknowledged command that was not truncated, unless
\* a fault cut off a compaction or a truncate.
THEOREM AckedKeptHolds == Spec => []AckedKept
<1>1. LogInv => AckedKept
  <2> SUFFICES ASSUME LogInv, phase = "ready", faulted \subseteq {"torn"} PROVE Kept
    BY DEF AckedKept
  <2>1. /\ base_index = snap + 1 /\ Holds(entries) /\ entries \in Seq(Entry) /\ snap \in Nat
        /\ DOMAIN acked \subseteq Nat
    BY DEF LogInv, Coherent, Durable, TypeOK, Sound
  <2>2. ASSUME NEW i \in DOMAIN acked, ~(i <= snap)
        PROVE  Got(i) /\ entries[i - base_index + 1].command = acked[i]
    <3>1. i - snap \in 1 .. Len(entries) /\ entries[i - snap].command = acked[i]
      BY <2>1, <2>2 DEF Holds
    <3>2. i - base_index + 1 = i - snap /\ Len(entries) \in Nat
      BY <2>1
    <3> QED BY <2>1, <3>1, <3>2 DEF Got, LastIndex
  <2> QED BY <2>2 DEF Kept
<1> QED BY <1>1, InvariantHolds, PTL

\* What the tail of the log from a position on looks like.
LEMMA SuffixFacts ==
  ASSUME NEW S, NEW es \in Seq(S), NEW n \in Nat, n >= 1
  PROVE  /\ SubSeq(es, n, Len(es)) \in Seq(S)
         /\ DOMAIN SubSeq(es, n, Len(es)) = 1 .. (Len(es) - n + 1)
         /\ \A k \in 1 .. (Len(es) - n + 1) : SubSeq(es, n, Len(es))[k] = es[n + k - 1]
  OBVIOUS

\* Whoever holds the snapshot and the entries below `from` gets every
\* acknowledged command from there on out of entries_from(from), gapless and
\* in its place, unless a fault cut off a compaction or a truncate.
THEOREM CatchesUpHolds == Spec => []CatchesUp
<1>1. LogInv => CatchesUp
  <2> SUFFICES ASSUME LogInv, phase = "ready", faulted \subseteq {"torn"},
                      NEW from \in (snap + 1) .. (MaxIndex + 1)
               PROVE  /\ \A k \in DOMAIN EntriesFrom(from) : EntriesFrom(from)[k].index = from + k - 1
                      /\ \A i \in DOMAIN acked :
                           i >= from => /\ i - from + 1 \in DOMAIN EntriesFrom(from)
                                        /\ EntriesFrom(from)[i - from + 1].command = acked[i]
    BY DEF CatchesUp
  <2>1. /\ base_index = snap + 1 /\ FollowsSnap(entries) /\ Holds(entries)
        /\ entries \in Seq(Entry) /\ snap \in Nat /\ DOMAIN acked \subseteq Nat
    BY DEF LogInv, Coherent, Durable, TypeOK, Sound
  <2> DEFINE n == from - snap
             rest == SubSeq(entries, n, Len(entries))
  <2>2. n \in Nat /\ n >= 1 /\ from \in Nat /\ Len(entries) \in Nat /\ DOMAIN entries = 1 .. Len(entries)
    BY <2>1, LogAssumption
  <2>3. EntriesFrom(from) = rest
    BY <2>1, <2>2 DEF EntriesFrom
  <2>4. /\ DOMAIN rest = 1 .. (Len(entries) - n + 1)
        /\ \A k \in 1 .. (Len(entries) - n + 1) : rest[k] = entries[n + k - 1]
    BY <2>1, <2>2, SuffixFacts
  <2> HIDE DEF rest
  <2>5. ASSUME NEW k \in DOMAIN rest PROVE rest[k].index = from + k - 1
    <3>1. n + k - 1 \in DOMAIN entries /\ rest[k] = entries[n + k - 1]
      BY <2>2, <2>4
    <3> QED BY <2>1, <2>2, <2>4, <3>1 DEF FollowsSnap
  <2>6. ASSUME NEW i \in DOMAIN acked, i >= from
        PROVE  i - from + 1 \in DOMAIN rest /\ rest[i - from + 1].command = acked[i]
    <3>1. i - snap \in DOMAIN entries /\ entries[i - snap].command = acked[i]
      BY <2>1, <2>2, <2>6 DEF Holds
    <3>2. i - from + 1 \in DOMAIN rest /\ n + (i - from + 1) - 1 = i - snap
      BY <2>1, <2>2, <2>4, <2>6, <3>1
    <3> QED BY <2>4, <3>1, <3>2
  <2> QED BY <2>3, <2>5, <2>6
<1> QED BY <1>1, InvariantHolds, PTL

\* open() refuses a log only after a write was cut short.
THEOREM BrokenOnlyByTearHolds == Spec => []BrokenOnlyByTear
<1>1. LogInv => BrokenOnlyByTear
  BY DEF LogInv, BrokenOnlyByTear
<1> QED BY <1>1, InvariantHolds, PTL

============================================================================
