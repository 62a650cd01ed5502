-------------------- MODULE FleetEventStoreRecovery_proofs --------------------
(***************************************************************************)
(* Proofs that the event store loses nothing and numbers nothing twice     *)
(* across crashes, for every number of events, sequence numbers and        *)
(* crashes: AckedRecoverable, FlushedSurvives, SequenceNeverReused and     *)
(* SnapshotNeverRegresses.                                                 *)
(*                                                                         *)
(* The first three speak of stores in which no line was glued to an        *)
(* unterminated one.  Their invariant has one key: while the file ends     *)
(* with a newline, every event anywhere is a line of the log and the next  *)
(* number is above those of the fleet; once the file ends otherwise, no    *)
(* event is placed anywhere before a line is glued.                        *)
(***************************************************************************)
EXTENDS FleetEventStore_proofs

Up == status \in {"up", "closing"}

\* The events a restart could read, and those some snapshot holds.
Placed == Readable \cup UNION {Held(s) : s \in Snapshots}

OneEventPerNumber(S) == \A e, f \in S : e.fleet = f.fleet /\ e.seq = f.seq => e = f

\* What waits in a snapshot is of its fleet.
Fleeted(s) == \A e \in s.pending : e.fleet = s.fleet
AllFleeted == \A s \in Snapshots : Fleeted(s)

\* What is acknowledged, or about to be, is a line of the log.
Recorded ==
  /\ acked \cup flushed \subseteq Lines
  /\ op.phase \in {"recording", "flushing"} => op.ev \subseteq Lines

\* A number of a fleet has one event, and the next number is a new one.
Numbered ==
  /\ OneEventPerNumber(Placed)
  /\ tail.end = Clean =>
       /\ Placed \subseteq Lines
       /\ \A e \in Lines : e.fleet <= crashes /\ (status = "down" => e.fleet < crashes)
       /\ Up => /\ snapshot.fleet <= crashes
                /\ \A e \in Lines : e.fleet = snapshot.fleet => e.seq <= sequence
       /\ op.phase = "appending" =>
            \A o \in op.ev : /\ o.seq <= sequence
                             /\ \A e \in Lines : e.fleet = o.fleet => e.seq < o.seq

\* A snapshot that applied nothing holds nothing and is not written; the
\* first line is the first event of its fleet.
Rooted ==
  /\ snap.last = 0 => Held(snap) = {}
  /\ \A i \in DOMAIN chain : chain[i].contents.last > 0
  /\ Up /\ snapshot.last = 0 =>
       /\ op.phase = "appending" /\ ~timer /\ Held(snapshot) = {}
       /\ \A o \in op.ev : o.seq = 1 /\ o.kind = "terminal"
  /\ log # <<>> => log[1].seq = 1
  /\ log = <<>> => \A e \in tail.line : e.seq = 1
  /\ op # Idle => \A o \in op.ev : o.fleet = snapshot.fleet

\* What is flushed stays in every snapshot that can reach the disk.
Kept ==
  /\ flushed \subseteq Held(snap)
  /\ Up => flushed \subseteq Held(snapshot)
  /\ \A i \in DOMAIN chain : flushed \subseteq Held(chain[i].contents)
  /\ op.phase \in {"recording", "flushing"} => op.ev \subseteq Held(snapshot)
  /\ \A i \in DOMAIN chain : chain[i].awaited =>
       /\ op.phase = "flushing"
       /\ \A j \in DOMAIN chain : i <= j => op.ev \subseteq Held(chain[j].contents)
       /\ \A j \in DOMAIN chain : chain[j].awaited => j = i

Sound == Recorded /\ Numbered /\ Rooted /\ Kept
Durable == ~glued => Sound

\* The snapshots of a fleet follow one another: on disk, waiting, in memory.
Below(a, b) == a.fleet = b.fleet => a.last <= b.last /\ a.applied \subseteq b.applied
Ordered ==
  /\ Up => Below(snap, snapshot)
  /\ chain # <<>> \/ op # Idle \/ timer => Up
  /\ \A i \in DOMAIN chain :
       /\ Below(snap, chain[i].contents)
       /\ chain[i].contents.fleet = snapshot.fleet /\ Below(chain[i].contents, snapshot)
       /\ \A j \in DOMAIN chain : i <= j => Below(chain[i].contents, chain[j].contents)

RecoveryInv == IInv /\ AllFleeted /\ Ordered /\ Durable

-----------------------------------------------------------------------------
(* What a reduction keeps                                                   *)

(* A reduction goes forward and leaves the fleet alone.                     *)
LEMMA ReduceForward ==
  ASSUME NEW s \in Snapshot, NEW incoming \in SUBSET Event
  PROVE  /\ Reduce(s, incoming).fleet = s.fleet
         /\ Reduce(s, incoming).last >= s.last
         /\ s.applied \subseteq Reduce(s, incoming).applied
         /\ Fleeted(Reduce(s, incoming))
<1>1. NewLast(s, incoming) >= s.last
  BY NewLastProperty
<1>2. \A e \in BySequence(Candidates(s, incoming)) : e.fleet = s.fleet
  BY CandidatesTyped
<1> QED BY <1>1, <1>2 DEF Reduce, Fleeted

(* What an exact snapshot holds is of its fleet, and what it has applied    *)
(* covers the numbers up to its last.                                       *)
LEMMA HeldFleet ==
  ASSUME NEW s \in Snapshot, Exact(s), Fleeted(s)
  PROVE  \A e \in Held(s) : e.fleet = s.fleet
BY DEF Exact, Fleeted, Held

LEMMA AppliedCovers ==
  ASSUME NEW s \in Snapshot, Exact(s)
  PROVE  /\ \A e \in Event : e.seq <= s.last => \E f \in s.applied : f.seq = e.seq
         /\ s.last = 0 => s.applied = {}
         /\ s.last > 0 => s.applied # {}
<1>1. Seqs(s.applied) = 1..s.last /\ s.last \in 0..MaxSequence
  BY DEF Exact, Snapshot
<1>2. ASSUME NEW e \in Event, e.seq <= s.last PROVE \E f \in s.applied : f.seq = e.seq
  <2>1. e.seq \in 1..s.last
    BY <1>1, <1>2 DEF Event
  <2> QED BY <1>1, <2>1 DEF Seqs
<1>3. s.last = 0 => s.applied = {}
  BY SMTT(30), <1>1 DEF Seqs
<1>4. ASSUME s.last > 0 PROVE s.applied # {}
  <2>1. 1 \in 1..s.last
    BY <1>1, <1>4
  <2> QED BY <1>1, <2>1 DEF Seqs
<1> QED BY <1>2, <1>3, <1>4

(* Where a number has one event, a reduction keeps what the snapshot held   *)
(* and what came in of its fleet.                                           *)
LEMMA ReduceKeeps ==
  ASSUME NEW s \in Snapshot, NEW incoming \in SUBSET Event,
         Exact(s), Fleeted(s), OneEventPerNumber(Held(s) \cup incoming)
  PROVE  /\ Held(s) \subseteq Held(Reduce(s, incoming))
         /\ \A e \in incoming : e.fleet = s.fleet => e \in Held(Reduce(s, incoming))
<1> DEFINE cands == Candidates(s, incoming)
           kept  == BySequence(cands)
           r     == Reduce(s, incoming)
<1>1. /\ r.applied = s.applied \cup Applicable(s, incoming)
      /\ r.pending = kept \ Applicable(s, incoming)
  BY DEF Reduce
<1>2. s.applied \in SUBSET Event /\ s.pending \in SUBSET Event /\ s.last \in 0..MaxSequence
  BY DEF Snapshot
<1>3. ASSUME NEW e \in Held(s) \cup incoming, e.fleet = s.fleet, e \notin s.applied
      PROVE  e \in kept
  <2>1. e \in Event /\ e \in s.pending \cup incoming
    BY <1>2, <1>3 DEF Held
  <2>2. e.seq > s.last
    <3> SUFFICES ASSUME ~(e.seq > s.last) PROVE FALSE
      OBVIOUS
    <3>1. e.seq <= s.last
      BY <1>2, <2>1 DEF Event
    <3>2. PICK f \in s.applied : f.seq = e.seq
      BY <2>1, <3>1, AppliedCovers
    <3>3. f.fleet = s.fleet
      BY DEF Exact
    <3>4. e = f
      BY <1>3, <3>2, <3>3 DEF OneEventPerNumber, Held
    <3> QED BY <1>3, <3>4
  <2>3. e \in cands
    BY <1>3, <2>1, <2>2 DEF Candidates
  <2>4. ASSUME NEW f \in cands, f.seq = e.seq PROVE f = e
    <3>1. f.fleet = s.fleet /\ f \in Held(s) \cup incoming
      BY DEF Candidates, Held
    <3> QED BY <1>3, <2>4, <3>1 DEF OneEventPerNumber
  <2>5. UuidOrder[e.id] <= UuidOrder[e.id]
    BY <2>1, UuidAssumption DEF Event
  <2> HIDE DEF cands
  <2> QED BY <2>3, <2>4, <2>5 DEF BySequence
<1>4. kept \cup s.applied \subseteq Held(r)
  BY <1>1 DEF Held
<1> HIDE DEF kept, cands, r
<1>5. \A e \in Held(s) : e.fleet = s.fleet
  BY HeldFleet
<1>6. Held(s) \subseteq Held(r)
  BY <1>3, <1>4, <1>5
<1>7. \A e \in incoming : e.fleet = s.fleet => e \in Held(r)
  BY <1>3, <1>4
<1> QED BY <1>6, <1>7 DEF r

(* An empty snapshot that is given the first event of its fleet applies it. *)
LEMMA ReduceFirst ==
  ASSUME NEW s \in Snapshot, NEW incoming \in SUBSET Event, NEW e \in incoming,
         s.last = 0, Held(s) = {}, e.fleet = s.fleet, e.seq = 1,
         OneEventPerNumber(incoming)
  PROVE  Reduce(s, incoming).last > 0
<1> DEFINE cands == Candidates(s, incoming)
<1>1. e \in Event /\ s.applied = {} /\ s.pending = {}
  BY DEF Held
<1>2. e \in cands
  BY <1>1 DEF Candidates
<1>3. \A f \in cands : f.seq = e.seq => f = e
  BY <1>1 DEF Candidates, OneEventPerNumber
<1>4. UuidOrder[e.id] <= UuidOrder[e.id]
  BY <1>1, UuidAssumption DEF Event
<1>5. e \in BySequence(cands)
  <2> HIDE DEF cands
  <2> QED BY <1>2, <1>3, <1>4 DEF BySequence
<1>6. 1 \in Seqs(BySequence(cands))
  BY <1>5 DEF Seqs
<1>7. NewLast(s, incoming) \in 0..MaxSequence /\ NewLast(s, incoming) + 1 \notin Seqs(BySequence(cands))
  BY NewLastProperty
<1>8. NewLast(s, incoming) # 0
  BY <1>6, <1>7
<1> QED BY <1>7, <1>8, BoundsAssumption DEF Reduce

-----------------------------------------------------------------------------
(* What the steps do to the snapshots                                       *)

(* A snapshot is captured at the end of the chain.                          *)
Captures(b) ==
  /\ chain' = Append(chain, [contents |-> snapshot, awaited |-> b])
  /\ snapshot' = snapshot /\ snap' = snap

(* Which steps change the snapshot in memory, on disk and in the chain.     *)
LEMMA SnapshotMoves ==
  ASSUME TypeOK, [Next]_vars
  PROVE  \/ /\ snapshot' = snapshot /\ snap' = snap /\ chain' = chain
            /\ \/ status' = status /\ (op' # Idle \/ timer' => status = "up" \/ op # Idle \/ timer)
               \/ status = "down" /\ status' = "failed" /\ op' = op /\ timer' = timer
         \/ Initialize \/ InitializeFresh \/ LineWritten \/ SnapshotWritten
         \/ /\ RecordWritten /\ op' = InPhase("flushing", EventOf(op)) /\ Captures(TRUE)
            /\ op # Idle /\ status' = status
         \/ /\ status = "up" /\ status' \in {"up", "closing"} /\ op' = op /\ Captures(FALSE)
            /\ timer \/ op = Idle
         \/ ForgetMemory /\ snap' = snap
<1>1. CASE InitializeFails
  BY <1>1 DEF InitializeFails, disk, memory
<1>2. ASSUME NEW kind \in Kinds, BeginAppend(kind)
      PROVE  snapshot' = snapshot /\ snap' = snap /\ chain' = chain /\ status' = status /\ status = "up"
  BY <1>2 DEF BeginAppend, disk
<1>3. CASE BeginAppendThrows
  BY <1>3 DEF BeginAppendThrows, disk
<1>4. CASE RecordWritten
  BY <1>4 DEF RecordWritten, disk, Captures, Idle
<1>5. CASE TimerFires
  BY <1>5 DEF TimerFires, disk, Captures
<1>6. CASE Flush
  BY <1>6 DEF Flush, disk, Captures
<1>7. CASE Exit
  BY <1>7 DEF Exit, disk
<1>8. CASE Crash
  BY <1>8 DEF Crash
<1>9. CASE UNCHANGED vars
  BY <1>9 DEF vars, disk, memory
<1> QED BY <1>1, <1>2, <1>3, <1>4, <1>5, <1>6, <1>7, <1>8, <1>9 DEF Next

(* The entries of the chain after a capture and after a write.              *)
LEMMA CaptureEntries ==
  ASSUME TypeOK, NEW b \in BOOLEAN, Captures(b)
  PROVE  /\ Len(chain) \in Nat /\ DOMAIN chain = 1..Len(chain)
         /\ DOMAIN chain' = 1..(Len(chain) + 1)
         /\ \A i \in DOMAIN chain : i \in DOMAIN chain' /\ chain'[i] = chain[i]
         /\ chain'[Len(chain) + 1].contents = snapshot
         /\ chain'[Len(chain) + 1].awaited = b
         /\ \A i \in DOMAIN chain' : i \in DOMAIN chain \/ i = Len(chain) + 1
<1> DEFINE new == [contents |-> snapshot, awaited |-> b]
<1>1. chain \in Seq(Write) /\ new \in Write /\ new.contents = snapshot /\ new.awaited = b
  BY DEF TypeOK, Write
<1>2. chain' = Append(chain, new)
  BY DEF Captures
<1> HIDE DEF new
<1> QED BY <1>1, <1>2

LEMMA WriteEntries ==
  ASSUME TypeOK, SnapshotWritten
  PROVE  /\ 1 \in DOMAIN chain /\ snap' = chain[1].contents /\ Head(chain) = chain[1]
         /\ \A i \in DOMAIN chain' : i + 1 \in DOMAIN chain /\ chain'[i] = chain[i + 1]
         /\ \A i \in DOMAIN chain : i \in Nat /\ 1 <= i
         /\ DOMAIN chain' \subseteq Nat \ {0}
<1>1. chain \in Seq(Write) /\ chain # <<>>
  BY DEF TypeOK, SnapshotWritten
<1>2. snap' = Head(chain).contents /\ chain' = Tail(chain)
  BY DEF SnapshotWritten
<1> QED BY <1>1, <1>2

LEMMA ChainTyped ==
  ASSUME TypeOK
  PROVE  \A i \in DOMAIN chain : chain[i] \in Write /\ chain[i].contents \in Snapshots
BY DEF TypeOK, Snapshots

(* Replay starts from what the disk has, and from a snapshot file if any.   *)
LEMMA ReplayStarts ==
  ASSUME TypeOK, ~NothingOnDisk
  PROVE  /\ snap.last > 0 => ReplayBase = snap
         /\ snap.last = 0 =>
              \E e \in Readable : /\ ReplayBase = EmptySnapshot(e.fleet)
                                  /\ log # <<>> => e = log[1]
                                  /\ log = <<>> => e \in tail.line
<1>1. snap.last > 0 => ReplayBase = snap
  BY DEF ReplayBase
<1>2. ASSUME snap.last = 0, log # <<>>
      PROVE  log[1] \in Readable /\ ReplayBase = EmptySnapshot(log[1].fleet)
  <2>1. 1 \in DOMAIN log
    BY <1>2 DEF TypeOK
  <2> QED BY <1>2, <2>1 DEF ReplayBase, Readable, Lines
<1>3. ASSUME snap.last = 0, log = <<>>
      PROVE  \E e \in tail.line : ReplayBase = EmptySnapshot(e.fleet)
  <2>1. Lines = {}
    BY <1>3 DEF Lines
  <2>2. tail.line # {}
    BY <1>3, <2>1 DEF NothingOnDisk, Readable
  <2> DEFINE c == CHOOSE e \in tail.line : TRUE
  <2>3. c \in tail.line
    BY <2>2
  <2>4. ~(snap.last > 0)
    BY <1>3
  <2>5. ReplayBase = EmptySnapshot(c.fleet)
    BY <1>3, <2>4 DEF ReplayBase
  <2> HIDE DEF c
  <2> QED BY <2>3, <2>5
<1> QED BY <1>1, <1>2, <1>3 DEF Readable

(* Everything that waits in a snapshot of the next state is of its fleet.   *)
LEMMA FleetedStep ==
  ASSUME TypeOK, AllFleeted, [Next]_vars
  PROVE  AllFleeted'
<1>1. ASSUME NEW s \in Snapshots' PROVE Fleeted(s)
  <2>1. Origin(s)
    BY SnapshotsOrigin
  <2>2. CASE s \in Snapshots
    BY <2>2 DEF AllFleeted
  <2>3. CASE \E f \in Fleets : s = EmptySnapshot(f)
    BY <2>3 DEF EmptySnapshot, Fleeted
  <2>4. ASSUME NEW b \in Snapshots \cup {EmptySnapshot(f) : f \in Fleets},
               NEW inc \in SUBSET Written, s = Reduce(b, inc)
        PROVE  Fleeted(s)
    <3>1. b \in Snapshot /\ inc \in SUBSET Event
      BY SnapshotsTyped, EmptyTyped, WrittenTyped DEF Written
    <3> QED BY <2>4, <3>1, ReduceForward
  <2> QED BY <2>1, <2>2, <2>3, <2>4 DEF Origin
<1> QED BY <1>1 DEF AllFleeted

-----------------------------------------------------------------------------
(* The order of the snapshots                                               *)

LEMMA BelowSelf == ASSUME NEW a \in Snapshot PROVE Below(a, a)
BY DEF Below, Snapshot

LEMMA BelowTransitive ==
  ASSUME NEW a \in Snapshot, NEW b \in Snapshot, NEW c \in Snapshot,
         Below(a, b), Below(b, c), b.fleet = c.fleet
  PROVE  Below(a, c)
BY DEF Below, Snapshot

(* What the disk holds is below what initialize() makes of it.              *)
LEMMA ReplayAbove ==
  ASSUME IInv, ~NothingOnDisk
  PROVE  Below(snap, Reduce(ReplayBase, ReplayEvents))
<1>1. TypeOK /\ Exact(snap) /\ snap \in Snapshot /\ snap.last \in 0..MaxSequence
  BY DEF IInv, ExactlyOnceInOrder, TypeOK, Snapshot
<1>2. ReplayBase \in Snapshot /\ ReplayEvents \in SUBSET Event
  BY <1>1, ReplayTyped
<1>3. CASE snap.last > 0
  <2>1. ReplayBase = snap
    BY <1>1, <1>3, ReplayStarts
  <2> QED BY <1>2, <2>1, ReduceForward DEF Below
<1>4. CASE snap.last = 0
  <2>1. snap.applied = {}
    BY <1>1, <1>4, AppliedCovers
  <2>2. Reduce(ReplayBase, ReplayEvents).last \in 0..MaxSequence
    BY <1>2, ReduceTyped DEF Snapshot
  <2> QED BY <1>4, <2>1, <2>2 DEF Below
<1> QED BY <1>1, <1>3, <1>4

LEMMA OrderedStep ==
  ASSUME IInv, Ordered, [Next]_vars
  PROVE  Ordered'
<1>0. TypeOK /\ TypeOK'
  BY TypeStep DEF IInv
<1>1. snapshot \in Snapshot /\ snap \in Snapshot /\ snapshot' \in Snapshot /\ snap' \in Snapshot
  BY <1>0 DEF TypeOK
<1>2. \A i \in DOMAIN chain : chain[i].contents \in Snapshot
  BY <1>0, ChainTyped DEF Write
<1>3. CASE Initialize
  <2>1. chain = <<>>
    BY <1>3 DEF Initialize, Ordered, Up
  <2>2. Below(snap, snapshot')
    BY <1>3, ReplayAbove DEF Initialize
  <2>3. chain' = <<>> /\ snap' = snap /\ Up'
    BY <1>3, <2>1 DEF Initialize, disk, Up
  <2> QED BY <2>2, <2>3 DEF Ordered
<1>4. CASE InitializeFresh
  <2>1. chain' = <<>> /\ snap' = snap /\ snapshot' = EmptySnapshot(crashes) /\ Up'
    BY <1>4 DEF InitializeFresh, Ordered, Up, disk
  <2>2. snap.last = 0
    BY <1>4 DEF InitializeFresh, NothingOnDisk
  <2>3. snap.applied = {}
    BY <1>1, <2>2, AppliedCovers DEF IInv, ExactlyOnceInOrder
  <2>4. Below(snap, snapshot')
    BY <2>1, <2>2, <2>3 DEF Below, EmptySnapshot
  <2> QED BY <2>1, <2>4 DEF Ordered
<1>5. CASE LineWritten
  <2>1. chain' = chain /\ snap' = snap /\ status' = status /\ Up /\ Up'
    BY <1>5 DEF LineWritten, Ordered, Up, Idle
  <2>2. {EventOf(op)} \in SUBSET Event
    BY <1>0, <1>5, WrittenTyped DEF LineWritten, Idle
  <2>3. snapshot' = snapshot \/ snapshot' = Reduce(snapshot, {EventOf(op)})
    BY <1>5 DEF LineWritten
  <2>4. Below(snapshot, snapshot') /\ snapshot'.fleet = snapshot.fleet
    BY <1>1, <2>2, <2>3, ReduceForward, BelowSelf DEF Below
  <2>5. Up' => Below(snap, snapshot')
    BY <1>1, <2>1, <2>4, BelowTransitive DEF Ordered, Up
  <2>6. \A i \in DOMAIN chain : Below(chain[i].contents, snapshot')
    BY <1>1, <1>2, <2>4, BelowTransitive DEF Ordered
  <2> QED BY <2>1, <2>4, <2>5, <2>6 DEF Ordered, Up
<1>6. CASE SnapshotWritten
  <2>1. snapshot' = snapshot /\ status' = status
    BY <1>6 DEF SnapshotWritten
  <2>2. /\ 1 \in DOMAIN chain /\ snap' = chain[1].contents
        /\ \A i \in DOMAIN chain' : i + 1 \in DOMAIN chain /\ chain'[i] = chain[i + 1]
        /\ \A i \in DOMAIN chain : i \in Nat /\ 1 <= i
        /\ DOMAIN chain' \subseteq Nat \ {0}
    BY <1>0, <1>6, WriteEntries
  <2>3. chain # <<>> /\ Up /\ Up'
    BY <1>6, <2>1 DEF SnapshotWritten, Ordered, Up
  <2>4. ASSUME NEW i \in DOMAIN chain'
        PROVE  /\ Below(snap', chain'[i].contents)
               /\ chain'[i].contents.fleet = snapshot'.fleet
               /\ Below(chain'[i].contents, snapshot')
               /\ \A j \in DOMAIN chain' : i <= j => Below(chain'[i].contents, chain'[j].contents)
    <3>1. i + 1 \in DOMAIN chain /\ chain'[i] = chain[i + 1] /\ i \in Nat
      BY <2>2
    <3>2. Below(snap', chain'[i].contents)
      BY <2>2, <3>1 DEF Ordered
    <3>3. \A j \in DOMAIN chain' : i <= j => i + 1 <= j + 1
      BY <2>2, <3>1
    <3> QED BY <2>1, <2>2, <3>1, <3>2, <3>3 DEF Ordered
  <2>5. Below(snap', snapshot')
    BY <2>1, <2>2 DEF Ordered
  <2> QED BY <2>3, <2>4, <2>5 DEF Ordered
<1>7. ASSUME NEW b \in BOOLEAN, Captures(b), Up, Up' PROVE Ordered'
  <2>1. /\ Len(chain) \in Nat /\ DOMAIN chain = 1..Len(chain)
        /\ \A i \in DOMAIN chain : i \in DOMAIN chain' /\ chain'[i] = chain[i]
        /\ chain'[Len(chain) + 1].contents = snapshot
        /\ \A i \in DOMAIN chain' : i \in DOMAIN chain \/ i = Len(chain) + 1
    BY <1>0, <1>7, CaptureEntries
  <2>2. snapshot' = snapshot /\ snap' = snap
    BY <1>7 DEF Captures
  <2>3. ASSUME NEW i \in DOMAIN chain'
        PROVE  /\ Below(snap, chain'[i].contents)
               /\ chain'[i].contents.fleet = snapshot.fleet
               /\ Below(chain'[i].contents, snapshot)
    <3>1. CASE i \in DOMAIN chain
      BY <2>1, <3>1 DEF Ordered
    <3>2. CASE i = Len(chain) + 1
      BY <1>1, <1>7, <2>1, <3>2, BelowSelf DEF Ordered
    <3> QED BY <2>1, <3>1, <3>2
  <2>4. ASSUME NEW i \in DOMAIN chain', NEW j \in DOMAIN chain', i <= j
        PROVE  Below(chain'[i].contents, chain'[j].contents)
    <3>1. CASE j = Len(chain) + 1
      BY <2>1, <2>3, <3>1
    <3>2. CASE j \in DOMAIN chain
      <4>1. i \in DOMAIN chain
        BY <2>1, <2>4, <3>2
      <4> QED BY <2>1, <2>4, <3>2, <4>1 DEF Ordered
    <3> QED BY <2>1, <3>1, <3>2
  <2> QED BY <1>7, <2>2, <2>3, <2>4 DEF Ordered
<1>8. CASE ForgetMemory /\ snap' = snap
  BY <1>8 DEF ForgetMemory, Ordered, Up
<1>9. CASE /\ snapshot' = snapshot /\ snap' = snap /\ chain' = chain
           /\ \/ status' = status /\ (op' # Idle \/ timer' => status = "up" \/ op # Idle \/ timer)
              \/ status = "down" /\ status' = "failed" /\ op' = op /\ timer' = timer
  BY <1>9 DEF Ordered, Up
<1>10. RecordWritten /\ op # Idle /\ status' = status => Up /\ Up'
  BY DEF Ordered, Up
<1> QED BY <1>0, <1>3, <1>4, <1>5, <1>6, <1>7, <1>8, <1>9, <1>10, SnapshotMoves DEF Up

-----------------------------------------------------------------------------
(* What the steps do to the file                                            *)

(* A whole line: of a running append, or written before a crash.            *)
WholeLine ==
  /\ op.phase = "appending" /\ tail.end = Clean /\ tail' = CleanTail
  /\ log' = Append(log, EventOf(op))
  /\ LineWritten \/ Crash

(* A crash within a line.                                                   *)
TornLine ==
  /\ op.phase = "appending" /\ log' = log /\ Crash
  /\ \/ tail' = GarbageTail
     \/ tail.end = Clean /\ tail' = [end |-> "unterminated", line |-> op.ev]

(* Unless a line is glued, the file is left alone, the line of the running  *)
(* append is added behind a newline, or a crash tears it.                   *)
LEMMA FileStep ==
  ASSUME TypeOK, [Next]_vars, ~glued'
  PROVE  /\ ~glued
         /\ (log' = log /\ tail' = tail /\ ~LineWritten) \/ WholeLine \/ TornLine
<1>1. CASE LineWritten
  <2>1. WriteLine(EventOf(op)) /\ op.phase = "appending"
    BY <1>1 DEF LineWritten
  <2>2. tail.end = Clean /\ ~glued
    BY <2>1 DEF WriteLine
  <2> QED BY <1>1, <2>1, <2>2 DEF WriteLine, WholeLine
<1>2. CASE Crash /\ ~LineWritten
  <2>1. CASE UNCHANGED <<log, tail, glued>>
    BY <1>2, <2>1
  <2>2. CASE op.phase = "appending" /\ tail' = GarbageTail /\ UNCHANGED <<log, glued>>
    BY <1>2, <2>2 DEF TornLine
  <2>3. CASE /\ op.phase = "appending" /\ tail.end = Clean
             /\ tail' = [end |-> "unterminated", line |-> op.ev] /\ UNCHANGED <<log, glued>>
    BY <1>2, <2>3 DEF TornLine
  <2>4. CASE op.phase = "appending" /\ WriteLine(EventOf(op))
    BY <1>2, <2>4 DEF WriteLine, WholeLine
  <2> QED BY <1>2, <2>1, <2>2, <2>3, <2>4 DEF Crash
<1>3. ASSUME ~LineWritten, ~Crash PROVE log' = log /\ tail' = tail /\ glued' = glued
  <2>1. CASE Initialize
    BY <2>1 DEF Initialize, disk, ghosts
  <2>2. CASE InitializeFails
    BY <2>2 DEF InitializeFails, disk, ghosts
  <2>3. CASE InitializeFresh
    BY <2>3 DEF InitializeFresh, disk
  <2>4. ASSUME NEW kind \in Kinds, BeginAppend(kind) PROVE log' = log /\ tail' = tail /\ glued' = glued
    BY <2>4 DEF BeginAppend, disk
  <2>5. CASE BeginAppendThrows
    BY <2>5 DEF BeginAppendThrows, disk, ghosts
  <2>6. CASE RecordWritten
    BY <2>6 DEF RecordWritten, disk
  <2>7. CASE TimerFires
    BY <2>7 DEF TimerFires, disk, ghosts
  <2>8. CASE SnapshotWritten
    BY <2>8 DEF SnapshotWritten
  <2>9. CASE Flush
    BY <2>9 DEF Flush, disk, ghosts
  <2>10. CASE Exit
    BY <2>10 DEF Exit, disk, ghosts
  <2>11. CASE UNCHANGED vars
    BY <2>11 DEF vars, disk, ghosts
  <2> QED BY <1>3, <2>1, <2>2, <2>3, <2>4, <2>5, <2>6, <2>7, <2>8, <2>9, <2>10, <2>11 DEF Next
<1> QED BY <1>1, <1>2, <1>3

(* What is appended, and where the append is.                               *)
LEMMA AppendingTyped ==
  ASSUME TypeOK, Ordered, op.phase = "appending"
  PROVE  /\ op # Idle /\ Up /\ EventOf(op) \in Event /\ op.ev = {EventOf(op)}
BY WrittenTyped DEF Idle, Ordered

(* Lines are never removed; only a whole line adds one, only a tear leaves  *)
(* something else to read, and both need the newline before.                *)
LEMMA LinesStep ==
  ASSUME TypeOK, Ordered, [Next]_vars, ~glued'
  PROVE  /\ Lines \subseteq Lines'
         /\ IF WholeLine THEN Lines' = Lines \cup op.ev ELSE Lines' = Lines
         /\ \/ Readable' \subseteq Readable
            \/ op.phase = "appending" /\ tail.end = Clean /\ Readable' \subseteq Readable \cup op.ev
         /\ tail'.end = Clean => tail.end = Clean /\ Readable' = Lines'
<1>1. ASSUME WholeLine PROVE Lines' = Lines \cup op.ev
  <2>1. EventOf(op) \in Event /\ op.ev = {EventOf(op)}
    BY <1>1, AppendingTyped DEF WholeLine
  <2>2. log \in Seq(Event) /\ log' = Append(log, EventOf(op))
    BY <1>1 DEF TypeOK, WholeLine
  <2>3. /\ \A i \in DOMAIN log : i \in DOMAIN log' /\ log'[i] = log[i]
        /\ Len(log) + 1 \in DOMAIN log' /\ log'[Len(log) + 1] = EventOf(op)
        /\ \A i \in DOMAIN log' : i \in DOMAIN log \/ i = Len(log) + 1
    BY <2>1, <2>2
  <2> QED BY <2>1, <2>3 DEF Lines
<1>2. tail' \in FileEnd /\ (tail'.end = Clean => tail'.line = {})
  <2>1. tail' \in FileEnd
    BY TypeStep DEF TypeOK
  <2> QED BY <2>1 DEF FileEnd, Clean, Garbage
<1>3. CASE log' = log /\ tail' = tail /\ ~WholeLine
  BY <1>2, <1>3 DEF Lines, Readable
<1>4. CASE WholeLine
  BY <1>1, <1>2, <1>4 DEF WholeLine, CleanTail, Readable
<1>5. CASE TornLine /\ ~WholeLine
  <2>1. tail'.line \subseteq op.ev /\ tail'.end # Clean
    BY <1>5 DEF TornLine, GarbageTail, Clean, Garbage
  <2>2. Lines' = Lines
    BY <1>5 DEF TornLine, Lines
  <2>3. tail' = GarbageTail => tail'.line = {}
    BY DEF GarbageTail
  <2> QED BY <1>5, <2>1, <2>2, <2>3 DEF TornLine, Readable
<1> QED BY <1>3, <1>4, <1>5, FileStep

(* What a snapshot of the next state holds was placed before or is read now.*)
LEMMA PlacedStep ==
  ASSUME TypeOK, Ordered, [Next]_vars, ~glued'
  PROVE  Placed' \subseteq Placed \cup Readable'
<1>1. ASSUME NEW s \in Snapshots' PROVE Held(s) \subseteq Placed \cup Readable'
  <2>0. \A t \in Snapshots : Held(t) \subseteq Placed
    BY DEF Placed
  <2>1. CASE s \in Snapshots
    BY <2>0, <2>1
  <2>2. CASE Held(s) = {}
    BY <2>2
  <2>3. CASE s = snapshot' /\ Initialize
    <3>1. /\ ReplayBase \in Snapshot /\ ReplayEvents \in SUBSET Event
          /\ ReplayBase = snap \/ \E f \in Fleets : ReplayBase = EmptySnapshot(f)
      BY <2>3, ReplayTyped DEF Initialize
    <3>2. Held(s) \subseteq Held(ReplayBase) \cup ReplayEvents
      BY <2>3, <3>1, ReduceTyped DEF Initialize
    <3>3. Held(ReplayBase) \subseteq Placed
      BY <2>0, <3>1, EmptyTyped DEF Snapshots
    <3> QED BY <3>2, <3>3 DEF ReplayEvents, Placed
  <2>4. CASE s = snapshot' /\ LineWritten
    <3>1. WholeLine
      BY <2>4, FileStep DEF TornLine, Crash, ForgetMemory, LineWritten
    <3>2. EventOf(op) \in Event /\ op.ev = {EventOf(op)} /\ snapshot \in Snapshot
      BY <3>1, AppendingTyped DEF WholeLine, TypeOK
    <3>3. EventOf(op) \in Readable'
      BY <3>1, <3>2, LinesStep DEF Readable
    <3>4. snapshot' = snapshot \/ snapshot' = Reduce(snapshot, {EventOf(op)})
      BY <2>4 DEF LineWritten
    <3>5. Held(snapshot') \subseteq Held(snapshot) \cup {EventOf(op)}
      BY <3>2, <3>4, ReduceTyped
    <3> QED BY <2>0, <2>4, <3>3, <3>5 DEF Snapshots
  <2>5. CASE snapshot' = snapshot /\ snap' = snap /\ chain' = chain
    BY <2>1, <2>5 DEF Snapshots
  <2>6. CASE Initialize \/ LineWritten
    <3>1. snap' = snap /\ chain' = chain
      BY <2>6 DEF Initialize, LineWritten, disk
    <3> QED BY <2>1, <2>3, <2>4, <2>6, <3>1 DEF Snapshots
  <2>7. CASE InitializeFresh
    <3>1. snap' = snap /\ chain' = chain /\ snapshot' = EmptySnapshot(crashes) /\ crashes \in Fleets
      BY <2>7 DEF InitializeFresh, disk, TypeOK, Fleets
    <3>2. Held(snapshot') = {}
      BY <3>1, EmptyTyped
    <3> QED BY <2>1, <2>2, <3>1, <3>2 DEF Snapshots
  <2>8. CASE SnapshotWritten
    <3>1. snapshot' = snapshot
      BY <2>8 DEF SnapshotWritten
    <3>2. Snapshots' \subseteq Snapshots
      BY <2>8, <3>1, WriteEntries DEF Snapshots
    <3> QED BY <2>1, <3>2
  <2>9. ASSUME NEW b \in BOOLEAN, Captures(b) PROVE Held(s) \subseteq Placed \cup Readable'
    <3>1. Snapshots' \subseteq Snapshots
      BY <2>9, SnapshotsCaptured DEF Captures
    <3> QED BY <2>1, <3>1
  <2>10. CASE ForgetMemory /\ snap' = snap
    <3>1. snapshot' = EmptySnapshot(0) /\ chain' = <<>> /\ 0 \in Fleets
      BY <2>10, BoundsAssumption DEF ForgetMemory, Fleets
    <3>2. Held(snapshot') = {}
      BY <3>1, EmptyTyped
    <3> QED BY <2>1, <2>2, <2>10, <3>1, <3>2 DEF Snapshots
  <2> QED BY <2>5, <2>6, <2>7, <2>8, <2>9, <2>10, SnapshotMoves
<1> QED BY <1>1 DEF Placed

-----------------------------------------------------------------------------
(* One event per number                                                     *)

LEMMA PlacedTyped ==
  ASSUME TypeOK
  PROVE  Placed \in SUBSET Event /\ Lines \subseteq Readable /\ Readable \subseteq Placed
<1>1. \A s \in Snapshots : Held(s) \in SUBSET Event
  BY SnapshotsTyped DEF Held, Snapshot
<1> QED BY <1>1, WrittenTyped DEF Placed, Readable

(* The number of the event being appended is new.                           *)
LEMMA FreshNumber ==
  ASSUME TypeOK, Ordered, Numbered, op.phase = "appending", tail.end = Clean
  PROVE  OneEventPerNumber(Placed \cup op.ev)
<1>1. op.ev = {EventOf(op)} /\ EventOf(op) \in Event
  BY AppendingTyped
<1>2. Placed \subseteq Lines /\ Lines \in SUBSET Event
  BY WrittenTyped DEF Numbered
<1>3. \A e \in Placed : e.fleet = EventOf(op).fleet => e.seq < EventOf(op).seq
  BY <1>1, <1>2 DEF Numbered
<1>4. \A e \in Placed : e.fleet = EventOf(op).fleet => e.seq # EventOf(op).seq
  BY <1>1, <1>2, <1>3 DEF Event
<1>5. OneEventPerNumber(Placed)
  BY DEF Numbered
<1> QED BY <1>1, <1>4, <1>5 DEF OneEventPerNumber

LEMMA OneEventPerNumberStep ==
  ASSUME TypeOK, Ordered, Numbered, [Next]_vars, ~glued'
  PROVE  OneEventPerNumber(Placed')
<1>1. Placed' \subseteq Placed \cup Readable'
  BY PlacedStep
<1>2. CASE Readable' \subseteq Readable
  <2>1. Placed' \subseteq Placed
    BY <1>1, <1>2, PlacedTyped
  <2> QED BY <2>1 DEF Numbered, OneEventPerNumber
<1>3. CASE op.phase = "appending" /\ tail.end = Clean /\ Readable' \subseteq Readable \cup op.ev
  <2>1. Placed' \subseteq Placed \cup op.ev
    BY <1>1, <1>3, PlacedTyped
  <2> QED BY <1>3, <2>1, FreshNumber DEF OneEventPerNumber
<1> QED BY <1>2, <1>3, LinesStep

(* Only a process that ends counts as a crash and makes the store go down.  *)
LEMMA CrashMoves ==
  ASSUME [Next]_vars
  PROVE  \/ crashes' = crashes /\ (status' = "down" => status = "down")
         \/ crashes' = crashes + 1 /\ ForgetMemory
<1>1. CASE Initialize \/ InitializeFails \/ InitializeFresh
  BY <1>1 DEF Initialize, InitializeFails, InitializeFresh
<1>2. ASSUME NEW kind \in Kinds, BeginAppend(kind) PROVE crashes' = crashes /\ status' = status
  BY <1>2 DEF BeginAppend
<1>3. CASE BeginAppendThrows \/ LineWritten \/ RecordWritten \/ TimerFires \/ SnapshotWritten
  BY <1>3 DEF BeginAppendThrows, LineWritten, RecordWritten, TimerFires, SnapshotWritten
<1>4. CASE Flush
  BY <1>4 DEF Flush
<1>5. CASE Exit \/ Crash
  BY <1>5 DEF Exit, Crash
<1>6. CASE UNCHANGED vars
  BY <1>6 DEF vars
<1> QED BY <1>1, <1>2, <1>3, <1>4, <1>5, <1>6 DEF Next

(* Lines are of fleets that have begun; after a crash, of earlier ones.     *)
LEMMA LineFleetsStep ==
  ASSUME TypeOK, Ordered, Numbered, Rooted, [Next]_vars, ~glued', tail'.end = Clean
  PROVE  \A e \in Lines' : e.fleet <= crashes' /\ (status' = "down" => e.fleet < crashes')
<1>0. tail.end = Clean /\ crashes \in Nat /\ TypeOK'
  BY LinesStep, TypeStep DEF TypeOK
<1>1. \A e \in Lines' : e \in Event /\ e.fleet \in Nat
  <2>1. \A e \in Lines' : e \in Event
    BY <1>0 DEF TypeOK, Lines
  <2> QED BY <2>1, BoundsAssumption DEF Event, Fleets
<1>2. \A e \in Lines' : e.fleet <= crashes
  <2>1. CASE WholeLine
    <3>1. op.phase = "appending" /\ Up /\ op # Idle
      BY <2>1, AppendingTyped DEF WholeLine
    <3>2. \A o \in op.ev : o.fleet <= crashes
      BY <1>0, <3>1 DEF Numbered, Rooted
    <3>3. Lines' = Lines \cup op.ev
      BY <2>1, LinesStep
    <3> QED BY <1>0, <3>2, <3>3 DEF Numbered
  <2>2. CASE ~WholeLine
    BY <1>0, <2>2, LinesStep DEF Numbered
  <2> QED BY <2>1, <2>2
<1>3. CASE crashes' = crashes + 1
  BY <1>0, <1>1, <1>2, <1>3
<1>4. CASE crashes' = crashes /\ (status' = "down" => status = "down")
  <2>1. status = "down" => ~WholeLine
    BY AppendingTyped DEF WholeLine, Up
  <2>2. status = "down" => Lines' = Lines
    BY <2>1, LinesStep
  <2> QED BY <1>0, <1>2, <1>4, <2>2 DEF Numbered
<1> QED BY <1>3, <1>4, CrashMoves

(* The fleet that initialize() goes on with has lines of the log, and its   *)
(* counter is above them.                                                   *)
LEMMA ReplayNumbered ==
  ASSUME IInv, Numbered, tail.end = Clean, Initialize
  PROVE  /\ snapshot'.fleet <= crashes
         /\ \A e \in Lines : e.seq <= sequence'
<1>0. TypeOK /\ snap \in Snapshot /\ Exact(snap) /\ ~NothingOnDisk
  BY DEF IInv, TypeOK, ExactlyOnceInOrder, Initialize
<1>1. ReplayBase \in Snapshot /\ ReplayEvents \in SUBSET Event /\ MaxSequenceRead \in 0..MaxSequence
  BY <1>0, ReplayTyped
<1>2. \A e \in Placed : e.fleet <= crashes
  BY DEF Numbered
<1>3. ReplayBase.fleet <= crashes
  <2>1. CASE snap.last > 0
    <3>1. PICK e \in snap.applied : TRUE
      BY <1>0, <2>1, AppliedCovers
    <3>2. e \in Placed /\ e.fleet = snap.fleet
      BY <1>0, <3>1 DEF Exact, Placed, Snapshots, Held
    <3> QED BY <1>0, <1>2, <2>1, <3>2, ReplayStarts
  <2>2. CASE snap.last = 0
    <3>1. PICK e \in Readable : ReplayBase = EmptySnapshot(e.fleet)
      BY <1>0, <2>2, ReplayStarts
    <3> QED BY <1>0, <1>2, <3>1, PlacedTyped DEF EmptySnapshot
  <2>3. snap.last \in Nat
    BY <1>0 DEF Snapshot
  <2> QED BY <2>1, <2>2, <2>3
<1>4. snapshot'.fleet <= crashes
  BY <1>1, <1>3, ReduceForward DEF Initialize
<1>5. snapshot'.last \in 0..MaxSequence
  BY <1>1, ReduceTyped DEF Initialize, Snapshot
<1>6. MaxSequenceRead <= sequence' /\ sequence' \in 0..MaxSequence
  <2>1. {MaxSequenceRead, snapshot'.last} \in SUBSET (0..MaxSequence)
    BY <1>1, <1>5
  <2>2. sequence' = MaxOf({MaxSequenceRead, snapshot'.last})
    BY DEF Initialize
  <2> QED BY <2>1, <2>2, MaxOfProperty, BoundsAssumption
<1>7. \A e \in Lines : e \in Event /\ e.seq <= MaxSequenceRead
  <2>1. Readable \in SUBSET Event
    BY <1>0, WrittenTyped DEF Readable
  <2>2. {0} \cup Seqs(Readable) \in SUBSET (0..MaxSequence)
    BY <2>1, SeqsTyped, BoundsAssumption
  <2>3. \A m \in Seqs(Readable) : m <= MaxSequenceRead
    BY <2>2, MaxOfProperty, BoundsAssumption DEF MaxSequenceRead
  <2> QED BY <2>1, <2>3 DEF Seqs, Readable
<1> QED BY <1>1, <1>4, <1>6, <1>7 DEF Event

(* Numbers of the snapshot's fleet stay at most the counter.                *)
LEMMA SequenceStep ==
  ASSUME IInv, AllFleeted, Ordered, Numbered, Rooted, [Next]_vars, ~glued', tail'.end = Clean, Up'
  PROVE  /\ snapshot'.fleet <= crashes'
         /\ \A e \in Lines' : e.fleet = snapshot'.fleet => e.seq <= sequence'
<1> DEFINE Goal == /\ snapshot'.fleet <= crashes'
                   /\ \A e \in Lines' : e.fleet = snapshot'.fleet => e.seq <= sequence'
<1>0. TypeOK /\ tail.end = Clean /\ sequence \in Nat /\ Lines \in SUBSET Event
  BY LinesStep, WrittenTyped DEF IInv, TypeOK
<1>1. CASE Initialize
  <2>1. Lines' = Lines /\ crashes' = crashes
    BY <1>1 DEF Initialize, disk, Lines
  <2> QED BY <1>0, <1>1, <2>1, ReplayNumbered
<1>2. CASE InitializeFresh
  <2>1. Lines' = Lines /\ crashes' = crashes /\ snapshot'.fleet = crashes /\ status = "down"
    BY <1>2 DEF InitializeFresh, disk, Lines, EmptySnapshot
  <2>2. \A e \in Lines : e.fleet < crashes
    BY <1>0, <2>1 DEF Numbered
  <2>3. \A e \in Lines : e.fleet # crashes /\ crashes <= crashes
    BY <1>0, <2>2 DEF Event, Fleets, TypeOK
  <2> QED BY <1>0, <2>1, <2>3 DEF TypeOK
<1>3. CASE LineWritten
  <2>1. WholeLine
    BY <1>3, FileStep, <1>0 DEF TornLine, Crash, ForgetMemory, LineWritten
  <2>2. Lines' = Lines \cup op.ev /\ Up
    BY <1>0, <2>1, LinesStep, AppendingTyped DEF WholeLine
  <2>3. \A o \in op.ev : o.seq <= sequence
    BY <1>0, <2>1 DEF Numbered, WholeLine
  <2>4. {EventOf(op)} \in SUBSET Event /\ snapshot \in Snapshot
    BY <1>0, <2>1, AppendingTyped DEF WholeLine, TypeOK
  <2>5. snapshot'.fleet = snapshot.fleet
    BY <1>3, <2>4, ReduceForward DEF LineWritten
  <2>6. sequence' = sequence /\ crashes' = crashes
    BY <1>3 DEF LineWritten
  <2> QED BY <1>0, <2>2, <2>3, <2>5, <2>6 DEF Numbered
<1>4. ASSUME snapshot' = snapshot, Lines' = Lines, crashes' = crashes, Up,
             sequence' = sequence \/ sequence' = sequence + 1
      PROVE  Goal
  BY <1>0, <1>4 DEF Numbered, Event
<1>5. ASSUME NEW kind \in Kinds, BeginAppend(kind) PROVE Goal
  BY <1>4, <1>5 DEF BeginAppend, disk, Lines, Up
<1>6. CASE BeginAppendThrows
  BY <1>4, <1>6 DEF BeginAppendThrows, disk, Lines, Up
<1>7. CASE RecordWritten
  BY <1>4, <1>7 DEF RecordWritten, disk, Lines, Up
<1>8. CASE TimerFires
  BY <1>4, <1>8 DEF TimerFires, disk, Lines, Up
<1>9. CASE SnapshotWritten
  BY <1>4, <1>9 DEF SnapshotWritten, Lines, Up
<1>10. CASE Flush
  BY <1>4, <1>10 DEF Flush, disk, Lines, Up
<1>11. CASE InitializeFails \/ Exit \/ Crash
  BY <1>11 DEF InitializeFails, Exit, Crash, ForgetMemory, Up
<1>12. CASE UNCHANGED vars
  BY <1>4, <1>12 DEF vars, disk, memory, Lines, Up
<1> QED BY <1>1, <1>2, <1>3, <1>5, <1>6, <1>7, <1>8, <1>9, <1>10, <1>11, <1>12 DEF Next

(* The event an append starts with is numbered above its fleet's lines.     *)
LEMMA AppendingStep ==
  ASSUME IInv, Ordered, Numbered, [Next]_vars, ~glued', tail'.end = Clean, op'.phase = "appending"
  PROVE  \A o \in op'.ev : /\ o.seq <= sequence'
                           /\ \A e \in Lines' : e.fleet = o.fleet => e.seq < o.seq
<1> DEFINE Goal == \A o \in op'.ev : /\ o.seq <= sequence'
                                     /\ \A e \in Lines' : e.fleet = o.fleet => e.seq < o.seq
<1>0. TypeOK /\ tail.end = Clean /\ sequence \in Nat /\ Lines \in SUBSET Event
  BY LinesStep, WrittenTyped DEF IInv, TypeOK
<1>1. ASSUME NEW kind, NEW seq, NEW f, StartAppend(kind, seq, f)
      PROVE  \A o \in op'.ev : o.seq = seq /\ o.fleet = f
  BY <1>1 DEF StartAppend, InPhase
<1>2. CASE InitializeFresh
  <2>1. \A o \in op'.ev : o.seq = 1 /\ o.fleet = crashes
    BY <1>1, <1>2 DEF InitializeFresh
  <2>2. Lines' = Lines /\ sequence' = 1 /\ status = "down"
    BY <1>2 DEF InitializeFresh, disk, Lines
  <2>3. \A e \in Lines : e.fleet # crashes
    <3>1. \A e \in Lines : e.fleet < crashes
      BY <1>0, <2>2 DEF Numbered
    <3> QED BY <1>0, <3>1 DEF Event, Fleets, TypeOK
  <2> QED BY <2>1, <2>2, <2>3
<1>3. ASSUME NEW kind \in Kinds, BeginAppend(kind) PROVE Goal
  <2>1. \A o \in op'.ev : o.seq = sequence + 1 /\ o.fleet = snapshot.fleet
    BY <1>1, <1>3 DEF BeginAppend
  <2>2. Lines' = Lines /\ sequence' = sequence + 1 /\ Up
    BY <1>3 DEF BeginAppend, disk, Lines, Up
  <2>3. \A e \in Lines : e.fleet = snapshot.fleet => e.seq < sequence + 1
    BY <1>0, <2>2 DEF Numbered, Event
  <2> QED BY <1>0, <2>1, <2>2, <2>3
<1>4. ASSUME op' = op, Lines' = Lines, sequence' = sequence PROVE Goal
  BY <1>0, <1>4 DEF Numbered
<1>5. CASE Initialize
  <2>1. op' = Idle
    BY <1>5 DEF Initialize, Ordered, Up
  <2> QED BY <2>1 DEF Idle
<1>6. CASE InitializeFails
  BY <1>4, <1>6 DEF InitializeFails, disk, memory, Lines
<1>7. CASE BeginAppendThrows
  BY <1>7 DEF BeginAppendThrows, Idle
<1>8. CASE LineWritten \/ RecordWritten
  BY <1>8 DEF LineWritten, RecordWritten, InPhase, Idle
<1>9. CASE TimerFires
  BY <1>4, <1>9 DEF TimerFires, disk, Lines
<1>10. CASE SnapshotWritten
  <2>1. op' = Idle \/ op' = op
    BY <1>10 DEF SnapshotWritten
  <2>2. Lines' = Lines /\ sequence' = sequence
    BY <1>10 DEF SnapshotWritten, Lines
  <2> QED BY <1>4, <2>1, <2>2 DEF Idle
<1>11. CASE Flush
  BY <1>4, <1>11 DEF Flush, disk, Lines
<1>12. CASE Exit \/ Crash
  BY <1>12 DEF Exit, Crash, ForgetMemory, Idle
<1>13. CASE UNCHANGED vars
  BY <1>4, <1>13 DEF vars, disk, memory, Lines
<1> QED BY <1>2, <1>3, <1>5, <1>6, <1>7, <1>8, <1>9, <1>10, <1>11, <1>12, <1>13 DEF Next

LEMMA NumberedStep ==
  ASSUME IInv, AllFleeted, Ordered, Numbered, Rooted, [Next]_vars, ~glued'
  PROVE  Numbered'
<1>1. ASSUME tail'.end = Clean PROVE Placed' \subseteq Lines'
  <2>1. Placed \subseteq Lines /\ Lines \subseteq Lines' /\ Readable' = Lines'
    BY <1>1, LinesStep DEF Numbered, IInv
  <2> QED BY <2>1, PlacedStep DEF IInv
<1>2. OneEventPerNumber(Placed')
  BY OneEventPerNumberStep DEF IInv
<1> QED BY <1>1, <1>2, LineFleetsStep, SequenceStep, AppendingStep DEF Numbered, IInv, OneEventPerNumber

-----------------------------------------------------------------------------
(* The first event of a log                                                 *)

(* Into an empty file goes the first event of a fleet.                      *)
LEMMA FirstLine ==
  ASSUME IInv, Ordered, Numbered, Rooted, log = <<>>, tail.end = Clean, op.phase = "appending"
  PROVE  \A o \in op.ev : o.seq = 1
<1>1. Placed = {}
  BY DEF Numbered, Lines
<1>2. snapshot.applied = {}
  BY <1>1 DEF Placed, Snapshots, Held
<1>3. snapshot.last = 0
  <2>1. snapshot \in Snapshot /\ Exact(snapshot)
    BY DEF IInv, TypeOK, ExactlyOnceInOrder
  <2> QED BY <1>2, <2>1, AppliedCovers DEF Snapshot
<1>4. Up
  BY AppendingTyped DEF IInv
<1> QED BY <1>3, <1>4 DEF Rooted

LEMMA FirstLineStep ==
  ASSUME IInv, Ordered, Numbered, Rooted, [Next]_vars, ~glued'
  PROVE  /\ log' # <<>> => log'[1].seq = 1
         /\ log' = <<>> => \A e \in tail'.line : e.seq = 1
<1>1. CASE log' = log /\ tail' = tail
  BY <1>1 DEF Rooted
<1>2. CASE WholeLine
  <2>1. op.ev = {EventOf(op)} /\ log \in Seq(Event) /\ EventOf(op) \in Event
    BY <1>2, AppendingTyped DEF WholeLine, IInv, TypeOK
  <2>2. log' # <<>> /\ (log # <<>> => log'[1] = log[1]) /\ (log = <<>> => log'[1] = EventOf(op))
    BY <1>2, <2>1 DEF WholeLine
  <2>3. log = <<>> => EventOf(op).seq = 1
    BY <1>2, <2>1, FirstLine DEF WholeLine
  <2> QED BY <2>2, <2>3 DEF Rooted
<1>3. CASE TornLine
  <2>1. log' = <<>> => \A e \in tail'.line : e.seq = 1
    BY <1>3, FirstLine DEF TornLine, GarbageTail
  <2> QED BY <1>3, <2>1 DEF TornLine, Rooted
<1> QED BY <1>1, <1>2, <1>3, FileStep DEF IInv

(* Once the store is up with a log, something has been applied.             *)
LEMMA ReplayRooted ==
  ASSUME IInv, Numbered, Rooted, Initialize
  PROVE  snapshot'.last > 0
<1>0. TypeOK /\ snap \in Snapshot /\ ~NothingOnDisk
  BY DEF IInv, TypeOK, Initialize
<1>1. ReplayBase \in Snapshot /\ ReplayEvents \in SUBSET Event
  BY <1>0, ReplayTyped
<1>2. snapshot' = Reduce(ReplayBase, ReplayEvents) /\ snapshot'.last \in 0..MaxSequence
  BY <1>1, ReduceTyped DEF Initialize, Snapshot
<1>3. CASE snap.last > 0
  <2>1. ReplayBase = snap /\ snap.last \in Nat
    BY <1>0, <1>3, ReplayStarts DEF Snapshot
  <2> QED BY <1>1, <1>2, <1>3, <2>1, ReduceForward
<1>4. CASE snap.last = 0
  <2>1. PICK e \in Readable : /\ ReplayBase = EmptySnapshot(e.fleet)
                              /\ log # <<>> => e = log[1]
                              /\ log = <<>> => e \in tail.line
    BY <1>0, <1>4, ReplayStarts
  <2>2. e.seq = 1
    BY <2>1 DEF Rooted
  <2>3. ReplayBase.last = 0 /\ Held(ReplayBase) = {} /\ ReplayBase.fleet = e.fleet
    BY <2>1 DEF EmptySnapshot, Held
  <2>4. e \in ReplayEvents
    BY <2>2, <2>3 DEF ReplayEvents
  <2>5. OneEventPerNumber(ReplayEvents)
    BY <1>0, PlacedTyped DEF Numbered, OneEventPerNumber, ReplayEvents
  <2> QED BY <1>1, <1>2, <2>2, <2>3, <2>4, <2>5, ReduceFirst
<1>5. snap.last \in Nat
  BY <1>0 DEF Snapshot
<1> QED BY <1>3, <1>4, <1>5

(* The line of an append is reduced into a snapshot that goes on.           *)
LEMMA LineRooted ==
  ASSUME IInv, Ordered, Rooted, LineWritten
  PROVE  snapshot'.last > 0
<1>0. /\ op.phase = "appending" /\ op # Idle /\ Up /\ EventOf(op) \in Event /\ op.ev = {EventOf(op)}
      /\ snapshot \in Snapshot /\ {EventOf(op)} \in SUBSET Event
  BY AppendingTyped DEF LineWritten, IInv, TypeOK
<1>1. snapshot.last \in Nat
  BY <1>0 DEF Snapshot
<1>2. CASE snapshot.last > 0
  <2>1. snapshot' = snapshot \/ snapshot' = Reduce(snapshot, {EventOf(op)})
    BY DEF LineWritten
  <2>2. Reduce(snapshot, {EventOf(op)}).last \in 0..MaxSequence
    BY <1>0, ReduceTyped DEF Snapshot
  <2>3. Reduce(snapshot, {EventOf(op)}).last >= snapshot.last
    BY <1>0, ReduceForward
  <2> QED BY <1>1, <1>2, <2>1, <2>2, <2>3
<1>3. CASE snapshot.last = 0
  <2>1. /\ Held(snapshot) = {} /\ EventOf(op).seq = 1 /\ EventOf(op).kind = "terminal"
        /\ EventOf(op).fleet = snapshot.fleet
    BY <1>0, <1>3 DEF Rooted
  <2>2. Applicable(snapshot, {EventOf(op)}) \subseteq {EventOf(op)}
    BY <1>0, <2>1, CandidatesTyped DEF Applicable
  <2>3. ~ReduceThrows(snapshot, {EventOf(op)})
    BY <2>1, <2>2 DEF ReduceThrows
  <2>4. snapshot' = Reduce(snapshot, {EventOf(op)})
    BY <2>3 DEF LineWritten
  <2>5. OneEventPerNumber({EventOf(op)})
    BY DEF OneEventPerNumber
  <2> QED BY <1>0, <1>3, <2>1, <2>4, <2>5, ReduceFirst
<1> QED BY <1>1, <1>2, <1>3

(* Whoever captures a snapshot captures one that has applied something.     *)
LEMMA RootedChainStep ==
  ASSUME IInv, Ordered, Rooted, [Next]_vars
  PROVE  /\ snap'.last = 0 => Held(snap') = {}
         /\ \A i \in DOMAIN chain' : chain'[i].contents.last > 0
<1> DEFINE Goal == /\ snap'.last = 0 => Held(snap') = {}
                   /\ \A i \in DOMAIN chain' : chain'[i].contents.last > 0
<1>0. TypeOK /\ snapshot \in Snapshot /\ snapshot.last \in Nat
  BY DEF IInv, TypeOK, Snapshot
<1>1. ASSUME snap' = snap, chain' = chain \/ chain' = <<>> PROVE Goal
  BY <1>1 DEF Rooted
<1>2. ASSUME NEW b \in BOOLEAN, Captures(b), Up, op.phase # "appending" \/ timer PROVE Goal
  <2>1. snapshot.last > 0
    BY <1>0, <1>2 DEF Rooted
  <2>2. snap' = snap
    BY <1>2 DEF Captures
  <2> QED BY <1>0, <1>2, <2>1, <2>2, CaptureEntries DEF Rooted
<1>3. CASE SnapshotWritten
  <2>1. /\ 1 \in DOMAIN chain /\ snap' = chain[1].contents
        /\ \A i \in DOMAIN chain' : i + 1 \in DOMAIN chain /\ chain'[i] = chain[i + 1]
    BY <1>0, <1>3, WriteEntries
  <2>2. snap'.last > 0 /\ \A i \in DOMAIN chain' : chain'[i].contents.last > 0
    BY <2>1 DEF Rooted
  <2>3. snap'.last # 0
    BY <2>2
  <2> QED BY <2>2, <2>3
<1>4. CASE Initialize \/ InitializeFresh \/ LineWritten
  BY <1>1, <1>4 DEF Initialize, InitializeFresh, LineWritten, disk
<1>5. RecordWritten => op.phase # "appending"
  BY DEF RecordWritten
<1>6. op = Idle => op.phase # "appending"
  BY DEF Idle
<1>7. op # Idle \/ status = "up" => Up
  BY DEF Ordered, Up
<1>8. ForgetMemory => chain' = <<>>
  BY DEF ForgetMemory
<1> QED BY <1>0, <1>1, <1>2, <1>3, <1>4, <1>5, <1>6, <1>7, <1>8, SnapshotMoves

(* A store that is up and has applied nothing is appending its first event. *)
LEMMA RootedFirstStep ==
  ASSUME IInv, Ordered, Numbered, Rooted, Kept, [Next]_vars, Up', snapshot'.last = 0
  PROVE  /\ op'.phase = "appending" /\ ~timer' /\ Held(snapshot') = {}
         /\ \A o \in op'.ev : o.seq = 1 /\ o.kind = "terminal"
<1> DEFINE Goal == /\ op'.phase = "appending" /\ ~timer' /\ Held(snapshot') = {}
                   /\ \A o \in op'.ev : o.seq = 1 /\ o.kind = "terminal"
<1>0. TypeOK
  BY DEF IInv
<1>1. CASE Initialize \/ LineWritten
  <2>1. snapshot'.last > 0
    BY <1>1, ReplayRooted, LineRooted
  <2> QED BY <2>1
<1>2. CASE InitializeFresh
  <2>1. timer' = timer /\ status = "down" /\ snapshot' = EmptySnapshot(crashes) /\ crashes \in Fleets
    BY <1>0, <1>2 DEF InitializeFresh, TypeOK, Fleets
  <2>2. ~timer'
    BY <2>1 DEF Ordered, Up
  <2>3. op'.phase = "appending" /\ \A o \in op'.ev : o.seq = 1 /\ o.kind = "terminal"
    BY <1>2 DEF InitializeFresh, StartAppend, InPhase
  <2> QED BY <2>1, <2>2, <2>3, EmptyTyped
<1>3. ASSUME snapshot' = snapshot, Up
      PROVE  /\ op.phase = "appending" /\ ~timer /\ Held(snapshot) = {} /\ op # Idle
             /\ \A o \in op.ev : o.seq = 1 /\ o.kind = "terminal"
  BY <1>3 DEF Rooted, Idle
<1>4. ASSUME NEW kind \in Kinds, BeginAppend(kind) PROVE Goal
  BY <1>3, <1>4 DEF BeginAppend, Up
<1>5. CASE BeginAppendThrows
  BY <1>3, <1>5 DEF BeginAppendThrows, Up
<1>6. CASE RecordWritten
  BY <1>3, <1>6 DEF RecordWritten, Up
<1>7. CASE TimerFires
  BY <1>3, <1>7 DEF TimerFires, Up
<1>8. CASE SnapshotWritten
  <2>1. 1 \in DOMAIN chain /\ Head(chain) = chain[1]
    BY <1>0, <1>8, WriteEntries
  <2>2. op.phase = "appending"
    BY <1>3, <1>8 DEF SnapshotWritten, Up
  <2>3. ~Head(chain).awaited
    BY <2>1, <2>2 DEF Kept
  <2> QED BY <1>3, <1>8, <2>3 DEF SnapshotWritten, Up
<1>9. CASE Flush
  BY <1>3, <1>9 DEF Flush, Up
<1>10. CASE InitializeFails \/ Exit \/ Crash
  BY <1>10 DEF InitializeFails, Exit, Crash, ForgetMemory, Up
<1>11. CASE UNCHANGED vars
  BY <1>3, <1>11 DEF vars, memory, Up
<1> QED BY <1>1, <1>2, <1>4, <1>5, <1>6, <1>7, <1>8, <1>9, <1>10, <1>11 DEF Next

(* The running append is of the snapshot's fleet.                           *)
LEMMA OpFleetStep ==
  ASSUME IInv, Ordered, Rooted, [Next]_vars, op' # Idle
  PROVE  \A o \in op'.ev : o.fleet = snapshot'.fleet
<1> DEFINE Goal == \A o \in op'.ev : o.fleet = snapshot'.fleet
<1>0. TypeOK
  BY DEF IInv
<1>1. ASSUME op' = op, snapshot' = snapshot PROVE Goal
  BY <1>1 DEF Rooted
<1>2. CASE Initialize
  <2>1. op' = Idle
    BY <1>2 DEF Initialize, Ordered, Up
  <2> QED BY <2>1
<1>3. CASE InitializeFresh
  BY <1>3 DEF InitializeFresh, StartAppend, InPhase, EmptySnapshot
<1>4. ASSUME NEW kind \in Kinds, BeginAppend(kind) PROVE Goal
  BY <1>4 DEF BeginAppend, StartAppend, InPhase
<1>5. CASE LineWritten
  <2>1. /\ EventOf(op) \in Event /\ op.ev = {EventOf(op)} /\ op # Idle
        /\ snapshot \in Snapshot /\ {EventOf(op)} \in SUBSET Event
    BY <1>0, <1>5, AppendingTyped DEF LineWritten, TypeOK
  <2>2. snapshot'.fleet = snapshot.fleet
    BY <1>5, <2>1, ReduceForward DEF LineWritten
  <2>3. op'.ev \subseteq op.ev
    BY <1>5, <2>1 DEF LineWritten, InPhase, Idle
  <2> QED BY <2>1, <2>2, <2>3 DEF Rooted
<1>6. CASE RecordWritten
  <2>1. op # Idle /\ op.ev = {EventOf(op)}
    BY <1>0, <1>6, WrittenTyped DEF RecordWritten, Idle
  <2>2. op'.ev \subseteq op.ev /\ snapshot' = snapshot
    BY <1>6, <2>1 DEF RecordWritten, InPhase, Idle
  <2> QED BY <2>1, <2>2 DEF Rooted
<1>7. CASE SnapshotWritten
  BY <1>1, <1>7 DEF SnapshotWritten
<1>8. CASE InitializeFails \/ BeginAppendThrows \/ TimerFires \/ Flush
  BY <1>1, <1>8 DEF InitializeFails, BeginAppendThrows, TimerFires, Flush, memory
<1>9. CASE Exit \/ Crash
  BY <1>9 DEF Exit, Crash, ForgetMemory
<1>10. CASE UNCHANGED vars
  BY <1>1, <1>10 DEF vars, memory
<1> QED BY <1>2, <1>3, <1>4, <1>5, <1>6, <1>7, <1>8, <1>9, <1>10 DEF Next

LEMMA RootedStep ==
  ASSUME IInv, Ordered, Numbered, Rooted, Kept, [Next]_vars, ~glued'
  PROVE  Rooted'
BY FirstLineStep, RootedChainStep, RootedFirstStep, OpFleetStep DEF Rooted

-----------------------------------------------------------------------------
(* What is acknowledged is recorded, what is flushed is kept                *)

LEMMA RecordedStep ==
  ASSUME IInv, Ordered, Recorded, Kept, [Next]_vars, ~glued'
  PROVE  Recorded'
<1> DEFINE Ends == acked' \cup flushed' \subseteq Lines'
           Runs == op'.phase \in {"recording", "flushing"} => op'.ev \subseteq Lines'
<1>0. TypeOK /\ Lines \subseteq Lines'
  BY LinesStep DEF IInv
<1>1. ASSUME acked' = acked, flushed' = flushed PROVE Ends
  BY <1>0, <1>1 DEF Recorded
<1>2. ASSUME op' = op PROVE Runs
  BY <1>0, <1>2 DEF Recorded
<1>3. ASSUME op'.phase \in {"idle", "appending"} PROVE Runs
  BY <1>3
<1>4. CASE Initialize \/ InitializeFails \/ BeginAppendThrows \/ TimerFires \/ Flush
  BY <1>1, <1>2, <1>4 DEF Initialize, InitializeFails, BeginAppendThrows, TimerFires, Flush,
                          memory, ghosts, Recorded
<1>5. CASE InitializeFresh
  BY <1>1, <1>3, <1>5 DEF InitializeFresh, StartAppend, InPhase, Recorded
<1>6. ASSUME NEW kind \in Kinds, BeginAppend(kind) PROVE Recorded'
  BY <1>1, <1>3, <1>6 DEF BeginAppend, StartAppend, InPhase, Recorded
<1>7. CASE LineWritten
  <2>1. WholeLine
    BY <1>0, <1>7, FileStep DEF TornLine, Crash, ForgetMemory, LineWritten
  <2>2. Lines' = Lines \cup op.ev /\ op.ev = {EventOf(op)}
    BY <1>0, <2>1, LinesStep, AppendingTyped DEF WholeLine
  <2>3. op'.ev \subseteq op.ev
    BY <1>7, <2>2 DEF LineWritten, InPhase, Idle
  <2> QED BY <1>1, <1>7, <2>2, <2>3 DEF LineWritten, Recorded
<1>8. CASE RecordWritten
  <2>1. op.ev = {EventOf(op)} /\ op.ev \subseteq Lines'
    BY <1>0, <1>8, WrittenTyped DEF RecordWritten, Idle, Recorded
  <2>2. op'.ev \subseteq op.ev /\ acked' \subseteq acked \cup op.ev /\ flushed' = flushed
    BY <1>8, <2>1 DEF RecordWritten, InPhase, Idle
  <2> QED BY <1>0, <2>1, <2>2 DEF Recorded
<1>9. CASE SnapshotWritten
  <2>1. CASE Head(chain).awaited
    <3>1. op.phase = "flushing"
      BY <1>0, <1>9, <2>1, WriteEntries DEF Kept
    <3>2. op.ev \subseteq Lines'
      BY <1>0, <3>1 DEF Recorded
    <3>3. op' = Idle /\ acked' = acked \cup op.ev /\ flushed' = flushed \cup op.ev
      BY <1>9, <2>1 DEF SnapshotWritten
    <3> QED BY <1>0, <1>3, <3>2, <3>3 DEF Recorded, Idle
  <2>2. CASE ~Head(chain).awaited
    BY <1>1, <1>2, <1>9, <2>2 DEF SnapshotWritten, Recorded
  <2> QED BY <2>1, <2>2
<1>10. CASE Exit \/ Crash
  BY <1>1, <1>3, <1>10 DEF Exit, Crash, ForgetMemory, Idle, ghosts, Recorded
<1>11. CASE UNCHANGED vars
  BY <1>1, <1>2, <1>11 DEF vars, memory, ghosts, Recorded
<1> QED BY <1>4, <1>5, <1>6, <1>7, <1>8, <1>9, <1>10, <1>11 DEF Next

(* A restart finds everything that was flushed.                             *)
LEMMA ReplayKeeps ==
  ASSUME IInv, AllFleeted, Numbered, Rooted, Kept, Initialize
  PROVE  flushed \subseteq Held(snapshot')
<1>0. TypeOK /\ snap \in Snapshot /\ Exact(snap) /\ Fleeted(snap) /\ ~NothingOnDisk
  BY DEF IInv, TypeOK, ExactlyOnceInOrder, AllFleeted, Snapshots, Initialize
<1>1. CASE snap.last > 0
  <2>1. ReplayBase = snap /\ ReplayEvents \in SUBSET Event
    BY <1>0, <1>1, ReplayStarts, ReplayTyped
  <2>2. Held(snap) \cup ReplayEvents \subseteq Placed
    BY <1>0, PlacedTyped DEF Placed, Snapshots, ReplayEvents
  <2>3. OneEventPerNumber(Held(snap) \cup ReplayEvents)
    BY <2>2 DEF Numbered, OneEventPerNumber
  <2>4. Held(snap) \subseteq Held(snapshot')
    BY <1>0, <2>1, <2>3, ReduceKeeps DEF Initialize
  <2> QED BY <2>4 DEF Kept
<1>2. CASE snap.last = 0
  BY <1>2 DEF Rooted, Kept
<1>3. snap.last \in Nat
  BY <1>0 DEF Snapshot
<1> QED BY <1>1, <1>2, <1>3

(* The line of an append keeps what the snapshot held and adds itself.      *)
LEMMA LineKeeps ==
  ASSUME IInv, AllFleeted, Ordered, Numbered, Rooted, [Next]_vars, ~glued', LineWritten
  PROVE  /\ Held(snapshot) \subseteq Held(snapshot')
         /\ op' # Idle => op'.ev \subseteq Held(snapshot')
         /\ op'.phase \in {"idle", "recording"}
<1>1. op.phase = "appending" /\ tail.end = Clean
  <2>1. WholeLine
    BY FileStep DEF TornLine, Crash, ForgetMemory, LineWritten, IInv
  <2> QED BY <2>1 DEF WholeLine
<1>2. /\ EventOf(op) \in Event /\ op.ev = {EventOf(op)} /\ op # Idle
      /\ snapshot \in Snapshot /\ {EventOf(op)} \in SUBSET Event
  BY <1>1, AppendingTyped DEF IInv, TypeOK
<1>3. Exact(snapshot) /\ Fleeted(snapshot)
  BY DEF IInv, ExactlyOnceInOrder, AllFleeted, Snapshots
<1>4. OneEventPerNumber(Held(snapshot) \cup {EventOf(op)})
  <2>1. OneEventPerNumber(Placed \cup op.ev)
    BY <1>1, FreshNumber DEF IInv
  <2> QED BY <1>2, <2>1 DEF OneEventPerNumber, Placed, Snapshots
<1>5. EventOf(op).fleet = snapshot.fleet
  BY <1>2 DEF Rooted
<1>6. /\ Held(snapshot) \subseteq Held(Reduce(snapshot, {EventOf(op)}))
      /\ EventOf(op) \in Held(Reduce(snapshot, {EventOf(op)}))
  BY <1>2, <1>3, <1>4, <1>5, ReduceKeeps
<1> QED BY <1>6 DEF LineWritten, InPhase, Idle

LEMMA KeptStep ==
  ASSUME IInv, AllFleeted, Ordered, Numbered, Rooted, Kept, [Next]_vars, ~glued'
  PROVE  Kept'
<1>0. TypeOK
  BY DEF IInv
<1>1. CASE Initialize
  <2>1. /\ status = "down" /\ chain' = chain /\ op' = op /\ snap' = snap /\ flushed' = flushed
    BY <1>1 DEF Initialize, disk, ghosts
  <2>2. chain = <<>> /\ op = Idle
    BY <2>1 DEF Ordered, Up
  <2>3. flushed \subseteq Held(snapshot')
    BY <1>1, ReplayKeeps
  <2> QED BY <2>1, <2>2, <2>3 DEF Kept, Idle
<1>2. CASE InitializeFresh
  <2>1. /\ status = "down" /\ chain' = chain /\ snap' = snap /\ flushed' = flushed
        /\ op'.phase = "appending"
    BY <1>2 DEF InitializeFresh, disk, StartAppend, InPhase
  <2>2. chain = <<>>
    BY <2>1 DEF Ordered, Up
  <2>3. snap.last = 0
    BY <1>2 DEF InitializeFresh, NothingOnDisk
  <2>4. flushed = {}
    BY <2>3 DEF Rooted, Kept
  <2> QED BY <2>1, <2>2, <2>4 DEF Kept
<1>3. CASE LineWritten
  <2>1. snap' = snap /\ chain' = chain /\ flushed' = flushed /\ Up /\ op.phase = "appending"
    BY <1>0, <1>3, AppendingTyped DEF LineWritten
  <2>2. \A i \in DOMAIN chain : ~chain[i].awaited
    BY <2>1 DEF Kept
  <2>3. op'.phase \in {"recording", "flushing"} => op' # Idle
    BY DEF Idle
  <2> QED BY <1>3, <2>1, <2>2, <2>3, LineKeeps DEF Kept
<1>4. CASE SnapshotWritten
  <2>1. /\ 1 \in DOMAIN chain /\ snap' = chain[1].contents /\ Head(chain) = chain[1]
        /\ \A i \in DOMAIN chain' : i + 1 \in DOMAIN chain /\ chain'[i] = chain[i + 1]
        /\ \A i \in DOMAIN chain : i \in Nat /\ 1 <= i
        /\ DOMAIN chain' \subseteq Nat \ {0}
    BY <1>0, <1>4, WriteEntries
  <2>2. snapshot' = snapshot /\ status' = status /\ Up
    BY <1>4, <2>1 DEF SnapshotWritten, Ordered
  <2>3. CASE chain[1].awaited
    <3>1. op' = Idle /\ flushed' = flushed \cup op.ev
      BY <1>4, <2>1, <2>3 DEF SnapshotWritten
    <3>2. op.phase = "flushing" /\ \A j \in DOMAIN chain : op.ev \subseteq Held(chain[j].contents)
      BY <2>1, <2>3 DEF Kept
    <3>3. \A i \in DOMAIN chain' : ~chain'[i].awaited
      <4>1. \A i \in DOMAIN chain' : i + 1 # 1
        BY <2>1
      <4> QED BY <2>1, <2>3, <4>1 DEF Kept
    <3>4. op.ev \subseteq Held(snapshot)
      BY <3>2 DEF Kept
    <3> QED BY <2>1, <2>2, <3>1, <3>2, <3>3, <3>4 DEF Kept, Idle, Up
  <2>4. CASE ~chain[1].awaited
    <3>1. op' = op /\ flushed' = flushed
      BY <1>4, <2>1, <2>4 DEF SnapshotWritten
    <3>2. ASSUME NEW i \in DOMAIN chain', chain'[i].awaited
          PROVE  /\ op.phase = "flushing"
                 /\ \A j \in DOMAIN chain' : i <= j => op.ev \subseteq Held(chain'[j].contents)
                 /\ \A j \in DOMAIN chain' : chain'[j].awaited => j = i
      <4>1. i + 1 \in DOMAIN chain /\ chain[i + 1].awaited /\ i \in Nat
        BY <2>1, <3>2
      <4>2. \A j \in DOMAIN chain' : j \in Nat /\ (i <= j => i + 1 <= j + 1) /\ (j + 1 = i + 1 => j = i)
        BY <2>1, <4>1
      <4> QED BY <2>1, <4>1, <4>2 DEF Kept
    <3> QED BY <2>1, <2>2, <3>1, <3>2 DEF Kept, Up
  <2> QED BY <2>3, <2>4
<1>5. ASSUME NEW b \in BOOLEAN, Captures(b), Up, flushed' = flushed,
             b => op.phase = "recording" /\ op'.phase = "flushing" /\ op'.ev = op.ev,
             ~b => op' = op
      PROVE  Kept'
  <2>1. /\ Len(chain) \in Nat /\ DOMAIN chain = 1..Len(chain)
        /\ \A i \in DOMAIN chain : i \in DOMAIN chain' /\ chain'[i] = chain[i]
        /\ chain'[Len(chain) + 1].contents = snapshot
        /\ chain'[Len(chain) + 1].awaited = b
        /\ \A i \in DOMAIN chain' : i \in DOMAIN chain \/ i = Len(chain) + 1
    BY <1>0, <1>5, CaptureEntries
  <2>2. snapshot' = snapshot /\ snap' = snap
    BY <1>5 DEF Captures
  <2>3. flushed \subseteq Held(snapshot)
    BY <1>5 DEF Kept
  <2>4. \A i \in DOMAIN chain' : flushed \subseteq Held(chain'[i].contents)
    BY <2>1, <2>3 DEF Kept
  <2>5. op'.phase \in {"recording", "flushing"} => op'.ev \subseteq Held(snapshot)
    BY <1>5 DEF Kept
  <2>6. CASE b
    <3>1. \A i \in DOMAIN chain : ~chain[i].awaited
      BY <1>5, <2>6 DEF Kept
    <3>2. \A i \in DOMAIN chain' : chain'[i].awaited => i = Len(chain) + 1
      BY <2>1, <3>1
    <3>3. \A j \in DOMAIN chain' : Len(chain) + 1 <= j => j = Len(chain) + 1
      BY <2>1
    <3> QED BY <1>5, <2>1, <2>2, <2>3, <2>4, <2>5, <2>6, <3>2, <3>3 DEF Kept
  <2>7. CASE ~b
    <3>1. \A i \in DOMAIN chain' : chain'[i].awaited => i \in DOMAIN chain /\ chain[i].awaited
      BY <2>1, <2>7
    <3>2. ASSUME NEW i \in DOMAIN chain, chain[i].awaited
          PROVE  /\ op.phase = "flushing"
                 /\ \A j \in DOMAIN chain' : i <= j => op.ev \subseteq Held(chain'[j].contents)
                 /\ \A j \in DOMAIN chain' : chain'[j].awaited => j = i
      BY <2>1, <2>5, <2>7, <1>5, <3>1, <3>2 DEF Kept
    <3> QED BY <1>5, <2>2, <2>3, <2>4, <2>5, <2>7, <3>1, <3>2 DEF Kept
  <2> QED BY <2>6, <2>7
<1>6. CASE RecordWritten
  <2>1. op.phase = "recording" /\ op # Idle /\ op.ev = {EventOf(op)} /\ flushed' = flushed
    BY <1>0, <1>6, WrittenTyped DEF RecordWritten, Idle
  <2>2. CASE EventOf(op).kind = "terminal"
    <3>1. Captures(TRUE) /\ op'.phase = "flushing" /\ op'.ev = op.ev
      BY <1>6, <2>1, <2>2 DEF RecordWritten, Captures, InPhase, disk
    <3> QED BY <1>5, <2>1, <3>1 DEF Ordered
  <2>3. CASE EventOf(op).kind # "terminal"
    <3>1. op' = Idle /\ chain' = chain /\ snapshot' = snapshot /\ snap' = snap /\ status' = status
      BY <1>6, <2>3 DEF RecordWritten, disk
    <3>2. \A i \in DOMAIN chain : ~chain[i].awaited
      BY <2>1 DEF Kept
    <3> QED BY <2>1, <3>1, <3>2 DEF Kept, Idle, Up
  <2> QED BY <2>2, <2>3
<1>7. CASE TimerFires
  BY <1>5, <1>7 DEF TimerFires, Captures, disk, ghosts, Up
<1>8. CASE Flush
  BY <1>5, <1>8 DEF Flush, Captures, disk, ghosts, Up
<1>9. ASSUME UNCHANGED <<snap, snapshot, chain, flushed>>, Up' => Up,
             op' = op \/ (op = Idle /\ op'.phase = "appending")
      PROVE  Kept'
  <2>1. op = Idle => \A i \in DOMAIN chain : ~chain[i].awaited
    BY DEF Kept, Idle
  <2> QED BY <1>9, <2>1 DEF Kept
<1>10. ASSUME NEW kind \in Kinds, BeginAppend(kind) PROVE Kept'
  BY <1>9, <1>10 DEF BeginAppend, StartAppend, InPhase, disk, Up
<1>11. CASE InitializeFails \/ BeginAppendThrows
  BY <1>9, <1>11 DEF InitializeFails, BeginAppendThrows, disk, memory, ghosts, Up
<1>12. CASE Exit \/ Crash
  BY <1>12 DEF Exit, Crash, ForgetMemory, Idle, disk, ghosts, Up, Kept
<1>13. CASE UNCHANGED vars
  BY <1>9, <1>13 DEF vars, disk, memory, ghosts, Up
<1> QED BY <1>1, <1>2, <1>3, <1>4, <1>6, <1>7, <1>8, <1>10, <1>11, <1>12, <1>13 DEF Next

-----------------------------------------------------------------------------
(* The invariant and what follows from it                                   *)

LEMMA RecoveryInitially == Init => RecoveryInv
<1> SUFFICES ASSUME Init PROVE RecoveryInv
  OBVIOUS
<1>1. IInv
  BY Initially
<1>2. EmptySnapshot(0).last = 0 /\ EmptySnapshot(0).pending = {} /\ Held(EmptySnapshot(0)) = {}
  BY DEF EmptySnapshot, Held
<1>3. \A s \in Snapshots : s = EmptySnapshot(0)
  BY DEF Init, Snapshots
<1>4. AllFleeted
  BY <1>2, <1>3 DEF AllFleeted, Fleeted
<1>5. Ordered
  BY DEF Init, Ordered, Up
<1>6. Lines = {} /\ Readable = {} /\ Placed = {}
  <2>1. Lines = {} /\ tail.line = {}
    BY DEF Init, Lines, CleanTail
  <2> QED BY <1>2, <1>3, <2>1 DEF Placed, Readable
<1>7. Recorded
  BY DEF Init, Recorded, Idle
<1>8. Numbered
  BY <1>6 DEF Init, Numbered, Idle, Up, OneEventPerNumber
<1>9. Rooted
  BY <1>2 DEF Init, Rooted, Up, CleanTail
<1>10. Kept
  BY DEF Init, Kept, Idle, Up
<1> QED BY <1>1, <1>4, <1>5, <1>7, <1>8, <1>9, <1>10 DEF RecoveryInv, Durable, Sound

LEMMA RecoveryStep == RecoveryInv /\ [Next]_vars => RecoveryInv'
<1> SUFFICES ASSUME RecoveryInv, [Next]_vars PROVE RecoveryInv'
  OBVIOUS
<1>0. IInv /\ AllFleeted /\ Ordered
  BY DEF RecoveryInv
<1>1. IInv'
  BY <1>0, TypeStep, OneEventStep, ExactStep DEF IInv
<1>2. AllFleeted' /\ Ordered'
  BY <1>0, FleetedStep, OrderedStep DEF IInv
<1>3. ASSUME ~glued' PROVE Sound'
  <2>1. Recorded /\ Numbered /\ Rooted /\ Kept
    BY <1>0, <1>3, FileStep DEF RecoveryInv, Durable, Sound, IInv
  <2>2. Recorded' /\ Numbered'
    BY <1>0, <1>3, <2>1, RecordedStep, NumberedStep
  <2>3. Rooted' /\ Kept'
    BY <1>0, <1>3, <2>1, RootedStep, KeptStep
  <2> QED BY <2>2, <2>3 DEF Sound
<1> QED BY <1>1, <1>2, <1>3 DEF RecoveryInv, Durable

LEMMA RecoveryInvariant == Spec => []RecoveryInv
BY RecoveryInitially, RecoveryStep, PTL DEF Spec

(* An append that resolved is found again by the next load, as a line of    *)
(* the log, whatever crashes came before and after it: append() resolves    *)
(* only after its appendFile, and nothing but a glued line hides a line.    *)
THEOREM AcknowledgedIsRecoverable == Spec => []AckedRecoverable
<1>1. RecoveryInv => AckedRecoverable
  BY DEF RecoveryInv, Durable, Sound, Recorded, AckedRecoverable, Readable
<1> QED BY <1>1, RecoveryInvariant, PTL

(* The event of an append that waited for its snapshot is in the snapshot   *)
(* file from then on, through restarts, replays and the debounced writes    *)
(* that were captured before it (append's flush, flushSnapshot's chain).    *)
THEOREM FlushedIsKept == Spec => []FlushedSurvives
<1>1. RecoveryInv => FlushedSurvives
  BY DEF RecoveryInv, Durable, Sound, Kept, Held, FlushedSurvives
<1> QED BY <1>1, RecoveryInvariant, PTL

(* No two acknowledged events of a fleet share a sequence number, across    *)
(* restarts and failed appends: initialize() resumes above all it can read. *)
THEOREM NumbersAreNew == Spec => []SequenceNeverReused
<1>1. ASSUME RecoveryInv, ~glued PROVE \A e, f \in acked : e.fleet = f.fleet /\ e.seq = f.seq => e = f
  <2>1. acked \subseteq Placed
    BY <1>1, PlacedTyped DEF RecoveryInv, IInv, Durable, Sound, Recorded
  <2> QED BY <1>1, <2>1 DEF RecoveryInv, Durable, Sound, Numbered, OneEventPerNumber
<1>2. RecoveryInv => SequenceNeverReused
  BY <1>1 DEF SequenceNeverReused
<1> QED BY <1>2, RecoveryInvariant, PTL

(* The snapshot file never goes back to an older state of its fleet, glued  *)
(* lines or not: writes are captured in order and the chain keeps it.       *)
THEOREM SnapshotsOnlyAdvance == Spec => SnapshotNeverRegresses
<1>1. ASSUME RecoveryInv, [Next]_vars
      PROVE  [snap'.fleet = snap.fleet =>
                snap'.last >= snap.last /\ snap.applied \subseteq snap'.applied]_snap
  <2>0. TypeOK /\ snap \in Snapshot /\ Ordered
    BY <1>1 DEF RecoveryInv, IInv, TypeOK
  <2>1. CASE SnapshotWritten
    <3>1. Below(snap, snap') /\ snap' \in Snapshot
      BY <2>0, <2>1, WriteEntries, ChainTyped DEF Ordered, Write
    <3> QED BY <2>0, <3>1 DEF Below, Snapshot
  <2>2. CASE Initialize \/ InitializeFresh \/ LineWritten
    BY <2>2 DEF Initialize, InitializeFresh, LineWritten, disk
  <2> QED BY <1>1, <2>0, <2>1, <2>2, SnapshotMoves DEF Captures
<1> QED BY <1>1, RecoveryInvariant, PTL DEF Spec, SnapshotNeverRegresses
=============================================================================
