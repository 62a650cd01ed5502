--------------------------- MODULE FleetEventStore ---------------------------
(***************************************************************************)
(* The durable event log of one agent fleet: src/agents/event-store.mjs    *)
(* with the reducer it applies (src/agents/reducer.mjs).                   *)
(*                                                                         *)
(* Appends run one at a time (the promise queue).  An append takes the     *)
(* next sequence number, writes one JSON line to fleet.events.jsonl,       *)
(* reduces the event into the snapshot in memory, writes the per-agent     *)
(* record, and then either waits for a snapshot write (terminal events and *)
(* callers that ask for a flush) or starts the debounce timer.  Snapshot   *)
(* writes go through a chain of their own; each replaces the file          *)
(* atomically.  A crash keeps only the two files; initialize() rebuilds    *)
(* the snapshot from them.                                                 *)
(***************************************************************************)
EXTENDS Integers, Sequences, FiniteSets

CONSTANTS MaxEvents,     \* bound: events ever created (event ids are 1..MaxEvents)
          MaxSequence,   \* bound: sequence numbers ever assigned
          MaxCrashes,    \* bound: crashes
          UuidOrder,     \* how the random ids drawn compare (localeCompare)
          Kinds          \* the kinds of append the environment issues

(* "progress"    an event that only schedules a snapshot                    *)
(* "terminal"    an event flushed before append() resolves                  *)
(* "oversized"   createFleetEvent or appendFile throws: nothing is written, *)
(*               but the sequence number is already taken                   *)
(* "unreducible" the line is written, then applyEventMutation throws (its   *)
(*               result exceeds the summary bound of normalizeAgentRun)     *)
AllKinds == {"progress", "terminal", "oversized", "unreducible"}

EventIds == 1..MaxEvents
Fleets   == 0..MaxCrashes

ASSUME BoundsAssumption == /\ MaxEvents \in Nat
                           /\ MaxSequence \in Nat
                           /\ MaxCrashes \in Nat
                           /\ Kinds \subseteq AllKinds

\* The ids drawn are different UUIDs, in any order.
ASSUME UuidAssumption ==
  /\ UuidOrder \in [EventIds -> Nat]
  /\ \A i, j \in EventIds : UuidOrder[i] = UuidOrder[j] => i = j

\* A line of the log.
Event == [id : EventIds, seq : 1..MaxSequence, fleet : Fleets, kind : AllKinds]

\* A snapshot: what is applied, up to which sequence, and what waits for a gap.
Snapshot == [fleet : Fleets, last : 0..MaxSequence,
             applied : SUBSET Event, pending : SUBSET Event]

EmptySnapshot(f) == [fleet |-> f, last |-> 0, applied |-> {}, pending |-> {}]

\* How the event file ends: with a newline, inside a line, or with a whole
\* line whose newline was not written (such a line still parses).
Clean   == "clean"
Garbage == "garbage"
FileEnd == [end : {Clean, Garbage}, line : {{}}] \cup
           [end : {"unterminated"}, line : {{e} : e \in Event}]
CleanTail   == [end |-> Clean, line |-> {}]
GarbageTail == [end |-> Garbage, line |-> {}]

VARIABLES
  log,        \* disk: the parseable, newline-terminated lines of fleet.events.jsonl
  tail,       \* disk: how that file ends
  snap,       \* disk: fleet.snapshot.json (last = 0: there is no file)
  status,     \* "down", "up", "closing" or "failed" (initialize() rejected)
  snapshot,   \* memory: this.snapshot
  sequence,   \* memory: this.sequence
  op,         \* memory: the append that runs, by its next await
  timer,      \* memory: snapshotTimer is set
  chain,      \* memory: snapshotWrite, the writes not yet done, oldest first
  drawn,      \* event ids drawn so far
  crashes,    \* crashes so far
  acked,      \* history: events whose append resolved
  flushed,    \* history: those whose append resolved after its snapshot write
  glued       \* history: a line was appended to an unterminated one

disk   == <<log, tail, snap>>
memory == <<snapshot, sequence, op, timer, chain>>
ghosts == <<drawn, acked, flushed, glued>>
vars   == <<disk, status, memory, crashes, ghosts>>

Idle      == [phase |-> "idle", ev |-> {}]
InPhase(p, e) == [phase |-> p, ev |-> {e}]
Op        == {Idle} \cup [phase : {"appending", "recording", "flushing"},
                          ev : {{e} : e \in Event}]
Write     == [contents : Snapshot, awaited : BOOLEAN]
Lines     == {log[i] : i \in DOMAIN log}
EventOf(o) == CHOOSE e \in o.ev : TRUE

-----------------------------------------------------------------------------
(* reduceFleetEvents                                                        *)

\* The events that are neither of another fleet nor already applied.
Candidates(s, incoming) ==
  {e \in s.pending \cup incoming :
     e.fleet = s.fleet /\ e \notin s.applied /\ e.seq > s.last}

\* bySequence: of two events with one sequence number the lower id stays.
BySequence(evs) == {e \in evs : \A f \in evs : f.seq = e.seq => UuidOrder[e.id] <= UuidOrder[f.id]}

Seqs(evs) == {e.seq : e \in evs}

\* Mutant: the loop does not stop at a gap.
FrontierPastGap(last, seqs) ==
  CHOOSE n \in {last} \cup seqs : \A m \in {last} \cup seqs : m <= n

\* Where the loop that applies consecutive sequence numbers stops.
Frontier(last, seqs) ==
  CHOOSE n \in {last} \cup seqs : /\ n >= last
                                  /\ n + 1 \notin seqs
                                  /\ \A m \in (last + 1)..n : m \in seqs

NewLast(s, incoming) == Frontier(s.last, Seqs(BySequence(Candidates(s, incoming))))

\* The events one call applies, and whether applying one of them throws.
Applicable(s, incoming) ==
  {e \in BySequence(Candidates(s, incoming)) : e.seq <= NewLast(s, incoming)}

ReduceThrows(s, incoming) ==
  \E e \in Applicable(s, incoming) : e.kind = "unreducible"

Reduce(s, incoming) ==
  [fleet   |-> s.fleet,
   last    |-> NewLast(s, incoming),
   applied |-> s.applied \cup Applicable(s, incoming),
   pending |-> BySequence(Candidates(s, incoming)) \ Applicable(s, incoming)]

-----------------------------------------------------------------------------
(* load(): what a restart finds                                             *)

\* readJsonLines: the lines that parse, the last one with or without newline.
Readable == Lines \cup tail.line

MaxOf(S) == CHOOSE n \in S : \A m \in S : m <= n
MaxSequenceRead == MaxOf({0} \cup Seqs(Readable))

\* Replay starts at the snapshot file, or without one at the first fleet.created.
ReplayBase ==
  IF snap.last > 0 THEN snap
  ELSE IF log # <<>> THEN EmptySnapshot(log[1].fleet)
  ELSE EmptySnapshot((CHOOSE e \in tail.line : TRUE).fleet)
ReplayEvents == {e \in Readable : e.seq > ReplayBase.last}

NothingOnDisk == snap.last = 0 /\ Readable = {}
ReplayFails   == ~NothingOnDisk /\ ReduceThrows(ReplayBase, ReplayEvents)

-----------------------------------------------------------------------------
Init ==
  /\ log = <<>> /\ tail = CleanTail /\ snap = EmptySnapshot(0)
  /\ status = "down"
  /\ snapshot = EmptySnapshot(0) /\ sequence = 0 /\ op = Idle
  /\ timer = FALSE /\ chain = <<>>
  /\ drawn = 0 /\ crashes = 0 /\ acked = {} /\ flushed = {} /\ glued = FALSE

\* append(): a new event takes its sequence number and starts appendFile.
StartAppend(kind, seq, fleet) ==
  /\ seq <= MaxSequence /\ drawn < MaxEvents
  /\ drawn' = drawn + 1
  /\ op' = InPhase("appending",
                   [id |-> drawn + 1, seq |-> seq, fleet |-> fleet, kind |-> kind])

\* Mutant: the counter resumes after the snapshot only.
InitializeFromSnapshot ==
  /\ status = "down"
  /\ ~NothingOnDisk /\ ~ReplayFails
  /\ status' = "up"
  /\ snapshot' = Reduce(ReplayBase, ReplayEvents)
  /\ sequence' = ReplayBase.last
  /\ UNCHANGED <<disk, op, timer, chain, crashes, ghosts>>

\* Mutant: the counter adds what it read to what it replayed.
InitializeAdds ==
  /\ status = "down"
  /\ ~NothingOnDisk /\ ~ReplayFails
  /\ status' = "up"
  /\ snapshot' = Reduce(ReplayBase, ReplayEvents)
  /\ sequence' = MaxSequenceRead + snapshot'.last
  /\ UNCHANGED <<disk, op, timer, chain, crashes, ghosts>>

\* initialize() when the two files give a snapshot.
Initialize ==
  /\ status = "down"
  /\ ~NothingOnDisk /\ ~ReplayFails
  /\ status' = "up"
  /\ snapshot' = Reduce(ReplayBase, ReplayEvents)
  /\ sequence' = MaxOf({MaxSequenceRead, snapshot'.last})
  /\ UNCHANGED <<disk, op, timer, chain, crashes, ghosts>>

\* initialize() when the replay on top of a snapshot file throws.
InitializeFails ==
  /\ status = "down"
  /\ ReplayFails /\ snap.last > 0
  /\ status' = "failed"
  /\ UNCHANGED <<disk, memory, crashes, ghosts>>

\* initialize() without anything to load, or with a log that cannot be
\* replayed and no snapshot file: a new fleet appends fleet.created and flushes.
InitializeFresh ==
  /\ status = "down"
  /\ NothingOnDisk \/ (ReplayFails /\ snap.last = 0)
  /\ status' = "up"
  /\ snapshot' = EmptySnapshot(crashes)
  /\ sequence' = 1
  /\ StartAppend("terminal", 1, crashes)
  /\ UNCHANGED <<disk, timer, chain, crashes, acked, flushed, glued>>

\* append(): the next queued request starts.
BeginAppend(kind) ==
  /\ status = "up" /\ op = Idle
  /\ kind \in Kinds \ {"oversized"}
  /\ sequence' = sequence + 1
  /\ StartAppend(kind, sequence + 1, snapshot.fleet)
  /\ UNCHANGED <<disk, status, snapshot, timer, chain, crashes, acked, flushed, glued>>

\* append(): `sequence: ++this.sequence` is evaluated, then building or
\* writing the event throws.  The queue swallows the rejection.
BeginAppendThrows ==
  /\ status = "up" /\ op = Idle
  /\ "oversized" \in Kinds
  /\ sequence < MaxSequence
  /\ sequence' = sequence + 1
  /\ UNCHANGED <<disk, status, snapshot, op, timer, chain, crashes, ghosts>>

\* appendFile: the line lands after whatever the file ends with.  Behind an
\* unterminated line neither parses any more.
WriteLine(e) ==
  /\ log' = IF tail.end = Clean THEN Append(log, e) ELSE log
  /\ tail' = CleanTail
  /\ glued' = (glued \/ tail.end # Clean)

\* Mutant: the line is not written before the event is reduced.
LineSkipped ==
  /\ op.phase = "appending"
  /\ LET e == EventOf(op)
     IN  IF ReduceThrows(snapshot, {e})
           THEN op' = Idle /\ UNCHANGED snapshot
           ELSE op' = InPhase("recording", e) /\ snapshot' = Reduce(snapshot, {e})
  /\ UNCHANGED <<disk, status, sequence, timer, chain, crashes, ghosts>>

\* append(): appendFile is done and the event is reduced.
LineWritten ==
  /\ op.phase = "appending"
  /\ LET e == EventOf(op)
     IN  /\ WriteLine(e)
         /\ IF ReduceThrows(snapshot, {e})
              THEN op' = Idle /\ UNCHANGED snapshot
              ELSE op' = InPhase("recording", e) /\ snapshot' = Reduce(snapshot, {e})
  /\ UNCHANGED <<snap, status, sequence, timer, chain, crashes, drawn, acked, flushed>>

\* Mutant: a terminal event does not wait for its snapshot.
RecordNotAwaited ==
  /\ op.phase = "recording"
  /\ LET e == EventOf(op)
     IN  /\ op' = Idle
         /\ acked' = acked \cup {e}
         /\ IF e.kind = "terminal"
              THEN /\ chain' = Append(chain, [contents |-> snapshot, awaited |-> FALSE])
                   /\ flushed' = flushed \cup {e}
                   /\ UNCHANGED timer
              ELSE /\ timer' = TRUE
                   /\ UNCHANGED <<chain, flushed>>
  /\ UNCHANGED <<disk, status, snapshot, sequence, crashes, drawn, glued>>

\* Mutant: nothing starts the debounce timer.
RecordWithoutTimer ==
  /\ op.phase = "recording"
  /\ LET e == EventOf(op)
     IN  IF e.kind = "terminal"
           THEN /\ op' = InPhase("flushing", e)
                /\ chain' = Append(chain, [contents |-> snapshot, awaited |-> TRUE])
                /\ UNCHANGED acked
           ELSE /\ op' = Idle
                /\ acked' = acked \cup {e}
                /\ UNCHANGED chain
  /\ UNCHANGED <<disk, status, snapshot, sequence, timer, crashes, drawn, flushed, glued>>

\* append(): the per-agent record is written; a terminal event then waits for
\* a snapshot of the present state, any other event only starts the timer.
RecordWritten ==
  /\ op.phase = "recording"
  /\ LET e == EventOf(op)
     IN  IF e.kind = "terminal"
           THEN /\ op' = InPhase("flushing", e)
                /\ chain' = Append(chain, [contents |-> snapshot, awaited |-> TRUE])
                /\ UNCHANGED <<timer, acked>>
           ELSE /\ op' = Idle
                /\ timer' = TRUE
                /\ acked' = acked \cup {e}
                /\ UNCHANGED chain
  /\ UNCHANGED <<disk, status, snapshot, sequence, crashes, drawn, flushed, glued>>

\* scheduleSnapshot(): the debounce timer fires and captures the snapshot.
TimerFires ==
  /\ status = "up" /\ timer
  /\ timer' = FALSE
  /\ chain' = Append(chain, [contents |-> snapshot, awaited |-> FALSE])
  /\ UNCHANGED <<disk, status, snapshot, sequence, op, crashes, ghosts>>

\* Mutant: the newest captured snapshot is written first.
SnapshotNewestFirst ==
  /\ chain # <<>>
  /\ LET w == chain[Len(chain)]
     IN  /\ snap' = w.contents
         /\ chain' = SubSeq(chain, 1, Len(chain) - 1)
         /\ IF w.awaited
              THEN /\ op' = Idle
                   /\ acked' = acked \cup op.ev
                   /\ flushed' = flushed \cup op.ev
              ELSE UNCHANGED <<op, acked, flushed>>
  /\ UNCHANGED <<log, tail, status, snapshot, sequence, timer, crashes, drawn, glued>>

\* Mutant: the append that waits for the write is not resolved.
SnapshotUnresolved ==
  /\ chain # <<>>
  /\ snap' = Head(chain).contents
  /\ chain' = Tail(chain)
  /\ UNCHANGED <<log, tail, status, snapshot, sequence, op, timer, crashes, ghosts>>

\* atomicWrite: the oldest captured snapshot replaces the file.
SnapshotWritten ==
  /\ chain # <<>>
  /\ snap' = Head(chain).contents
  /\ chain' = Tail(chain)
  /\ IF Head(chain).awaited
       THEN /\ op' = Idle
            /\ acked' = acked \cup op.ev
            /\ flushed' = flushed \cup op.ev
       ELSE UNCHANGED <<op, acked, flushed>>
  /\ UNCHANGED <<log, tail, status, snapshot, sequence, timer, crashes, drawn, glued>>

\* flush(), the last call of a controller that is disposed.
Flush ==
  /\ status = "up" /\ op = Idle
  /\ status' = "closing"
  /\ timer' = FALSE
  /\ chain' = Append(chain, [contents |-> snapshot, awaited |-> FALSE])
  /\ UNCHANGED <<disk, snapshot, sequence, op, crashes, ghosts>>

ForgetMemory ==
  /\ status' = "down"
  /\ snapshot' = EmptySnapshot(0) /\ sequence' = 0 /\ op' = Idle
  /\ timer' = FALSE /\ chain' = <<>>

\* The process exits after flush() resolved.
Exit ==
  /\ status = "closing" /\ chain = <<>>
  /\ crashes < MaxCrashes /\ crashes' = crashes + 1
  /\ ForgetMemory
  /\ UNCHANGED <<disk, ghosts>>

\* A crash: of a line being written nothing, a part, all but the newline, or
\* everything may be in the file.
Crash ==
  /\ status \in {"up", "closing"}
  /\ crashes < MaxCrashes /\ crashes' = crashes + 1
  /\ ForgetMemory
  /\ \/ UNCHANGED <<log, tail, glued>>
     \/ /\ op.phase = "appending"
        /\ tail' = GarbageTail
        /\ UNCHANGED <<log, glued>>
     \/ /\ op.phase = "appending" /\ tail.end = Clean
        /\ tail' = [end |-> "unterminated", line |-> op.ev]
        /\ UNCHANGED <<log, glued>>
     \/ /\ op.phase = "appending"
        /\ WriteLine(EventOf(op))
  /\ UNCHANGED <<snap, drawn, acked, flushed>>

Next ==
  \/ Initialize \/ InitializeFails \/ InitializeFresh
  \/ \E kind \in Kinds : BeginAppend(kind)
  \/ BeginAppendThrows
  \/ LineWritten \/ RecordWritten
  \/ TimerFires \/ SnapshotWritten
  \/ Flush \/ Exit \/ Crash

\* File operations end and timers fire; crashes and requests need not happen.
Fairness ==
  /\ WF_vars(LineWritten) /\ WF_vars(RecordWritten)
  /\ WF_vars(TimerFires) /\ WF_vars(SnapshotWritten)

Spec == Init /\ [][Next]_vars /\ Fairness

-----------------------------------------------------------------------------
(* Properties                                                               *)

TypeOK ==
  /\ log \in Seq(Event) /\ tail \in FileEnd /\ snap \in Snapshot
  /\ status \in {"down", "up", "closing", "failed"}
  /\ snapshot \in Snapshot /\ sequence \in 0..MaxSequence /\ op \in Op
  /\ timer \in BOOLEAN /\ chain \in Seq(Write)
  /\ drawn \in 0..MaxEvents /\ crashes \in 0..MaxCrashes
  /\ acked \subseteq Event /\ flushed \subseteq Event /\ glued \in BOOLEAN

\* One event per sequence number 1..last, all of one fleet, none of them
\* unreducible, and nothing waits that could be applied.
Exact(s) ==
  /\ Seqs(s.applied) = 1..s.last
  /\ \A e, f \in s.applied : e.seq = f.seq => e = f
  /\ \A e \in s.applied : e.fleet = s.fleet /\ e.kind # "unreducible"
  /\ \A e \in s.pending : e.seq > s.last + 1

\* Every snapshot, in memory, captured for a write, or on disk, is the fold of
\* one event for each sequence number up to its last: no event is applied
\* twice, skipped or applied early, whatever was replayed after a crash
\* (reduceFleetEvents, load).
ExactlyOnceInOrder ==
  /\ Exact(snapshot)
  /\ Exact(snap)
  /\ \A i \in DOMAIN chain : Exact(chain[i].contents)

\* An append that waited for its snapshot survives every crash: the snapshot
\* file holds its event, applied or waiting behind a gap (append's flush,
\* flushSnapshot's chain), as long as no line was lost to an unterminated one.
FlushedSurvives ==
  ~glued => flushed \subseteq snap.applied \cup snap.pending

\* An append that resolved is found again by the next load, flushed or not:
\* in the snapshot file or as a readable line.  Again unless a line was glued.
AckedRecoverable ==
  ~glued => acked \subseteq snap.applied \cup snap.pending \cup Readable

\* The snapshot file never goes back to an older state of the same fleet
\* (flushSnapshot captures at the call and the chain keeps the calls' order).
SnapshotNeverRegresses ==
  [][snap'.fleet = snap.fleet =>
       snap'.last >= snap.last /\ snap.applied \subseteq snap'.applied]_snap

\* No two acknowledged events share a sequence number within a fleet, across
\* restarts: initialize() resumes above everything it can read.  Unless glued.
SequenceNeverReused ==
  ~glued => \A e, f \in acked : e.fleet = f.fleet /\ e.seq = f.seq => e = f

\* Every append settles: it resolves, rejects, or the process goes down.
AppendSettles == op # Idle ~> op = Idle

\* What an append reduced reaches the snapshot file without any further
\* request, unless the process goes down first (scheduleSnapshot's debounce).
ProgressPersists ==
  \A n \in 1..MaxSequence :
    (op.phase = "recording" /\ snapshot.last = n)
      ~> (snap.last >= n \/ status = "down")
-----------------------------------------------------------------------------
(* Two statements of the documentation that the code does not keep          *)

\* "Flush terminal states immediately": once the append of a terminal event
\* resolved, the snapshot file shows its state.  A gap in the sequence, left
\* by an append that threw, keeps every later event waiting instead.
TerminalStateIsOnDisk == flushed \subseteq snap.applied

\* "survives restart and ignores a truncated JSONL tail": an acknowledged
\* append is found again whatever the file ended with.  The first append
\* after the restart goes on the same line as the truncated tail.
TruncatedTailIsHarmless ==
  acked \subseteq snap.applied \cup snap.pending \cup Readable
=============================================================================
