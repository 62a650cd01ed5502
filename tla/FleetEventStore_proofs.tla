----------------------- MODULE FleetEventStore_proofs -----------------------
(***************************************************************************)
(* Proofs about FleetEventStore for every number of events, sequence       *)
(* numbers and crashes: the type invariant, and that every snapshot is the *)
(* fold of one event per sequence number (ExactlyOnceInOrder).             *)
(*                                                                         *)
(* The inductive invariant adds to these two that an event id names one    *)
(* event wherever the event is found, in the log, in a snapshot or in the  *)
(* append that runs: without it two events of one sequence number could    *)
(* both survive bySequence, which tells them apart by their ids only.      *)
(***************************************************************************)
EXTENDS FleetEventStore, FiniteSetTheorems, SequenceTheorems, WellFoundedInduction, TLAPS

(* The events a snapshot holds, all the snapshots, and all the events.      *)
Held(s) == s.applied \cup s.pending
Snapshots == {snapshot, snap} \cup {chain[i].contents : i \in DOMAIN chain}
Written == Lines \cup tail.line \cup op.ev
Known == Written \cup UNION {Held(s) : s \in Snapshots}

OneEventPerId ==
  /\ \A e, f \in Known : e.id = f.id => e = f
  /\ \A e \in Known : e.id <= drawn

IInv == TypeOK /\ OneEventPerId /\ ExactlyOnceInOrder

-----------------------------------------------------------------------------
(* Naturals                                                                 *)

(* A nonempty set of naturals has a least element (the minimal interval     *)
(* 0..n under strict inclusion; the library's own form needs an induction). *)
LEMMA LeastNat ==
  ASSUME NEW S \in SUBSET Nat, S # {}
  PROVE  \E n \in S : \A m \in S : n <= m
<1> DEFINE T == {0..n : n \in S}
<1>1. T \subseteq FiniteSubsetsOf(Nat) /\ T # {}
  <2>1. \A n \in S : IsFiniteSet(0..n) /\ 0..n \in SUBSET Nat
    BY FS_Interval
  <2>2. \A x \in T : x \in FiniteSubsetsOf(Nat)
    BY <2>1 DEF FiniteSubsetsOf
  <2>3. T # {}
    OBVIOUS
  <2> QED BY <2>2, <2>3
<1>2. \E x \in T : \A y \in T : ~ (<<y, x>> \in StrictSubsetOrdering(Nat))
  <2> HIDE DEF T
  <2> QED BY <1>1, WFMin, FS_StrictSubsetOrderingWellFounded
<1>3. PICK n \in S : \A m \in S : <<0..m, 0..n>> \notin StrictSubsetOrdering(Nat)
  BY <1>2
<1>4. ASSUME NEW m \in S, m < n PROVE FALSE
  <2>1. n \in 0..n /\ n \notin 0..m
    BY <1>4
  <2>2. 0..m \subseteq 0..n /\ 0..m # 0..n
    BY <1>4, <2>1
  <2>3. 0..m \in SUBSET Nat /\ 0..n \in SUBSET Nat
    OBVIOUS
  <2> QED BY <2>2, <2>3, <1>3 DEF StrictSubsetOrdering
<1> QED BY <1>4

(* So does a bounded one have a greatest.                                   *)
LEMMA MaxOfProperty ==
  ASSUME NEW N \in Nat, NEW S \in SUBSET (0..N), S # {}
  PROVE  MaxOf(S) \in S /\ \A m \in S : m <= MaxOf(S)
<1> DEFINE D == {N - n : n \in S}
<1>1. PICK d \in D : \A c \in D : d <= c
  <2>0. \A x \in D : x \in Nat
    OBVIOUS
  <2>1. D \in SUBSET Nat /\ D # {}
    BY <2>0
  <2> HIDE DEF D
  <2> QED BY <2>1, LeastNat
<1>2. PICK x \in S : d = N - x
  BY <1>1
<1>3. \A m \in S : m <= x
  BY <1>1, <1>2
<1> QED BY <1>2, <1>3 DEF MaxOf

(* The loop of reduceFleetEvents stops at the last number without a gap.    *)
LEMMA FrontierProperty ==
  ASSUME NEW last \in 0..MaxSequence, NEW seqs \in SUBSET (1..MaxSequence)
  PROVE  /\ Frontier(last, seqs) \in 0..MaxSequence
         /\ Frontier(last, seqs) >= last
         /\ Frontier(last, seqs) + 1 \notin seqs
         /\ \A m \in (last + 1)..Frontier(last, seqs) : m \in seqs
<1> DEFINE S == {n \in Nat : n >= last /\ n + 1 \notin seqs}
           Stops(n) == n >= last /\ n + 1 \notin seqs /\ \A m \in (last + 1)..n : m \in seqs
<1> USE BoundsAssumption
<1>1. PICK n \in S : \A m \in S : n <= m
  <2>1. MaxSequence \in S
    OBVIOUS
  <2>2. S \in SUBSET Nat /\ S # {}
    BY <2>1
  <2> HIDE DEF S
  <2> QED BY <2>2, LeastNat
<1>2. \A m \in (last + 1)..n : m \in seqs
  <2> SUFFICES ASSUME NEW m \in (last + 1)..n PROVE m \in seqs
    OBVIOUS
  <2>1. m - 1 \in Nat /\ m - 1 >= last /\ m - 1 < n
    BY <1>1
  <2>2. m - 1 \notin S
    BY <1>1, <2>1
  <2>3. (m - 1) + 1 = m
    BY <1>1
  <2> QED BY <2>1, <2>2, <2>3
<1>3. n \in {last} \cup seqs
  <2>1. n = last \/ n \in (last + 1)..n
    BY <1>1
  <2> QED BY <2>1, <1>2
<1>4. Stops(n)
  BY <1>1, <1>2
<1>5. Frontier(last, seqs) \in {last} \cup seqs /\ Stops(Frontier(last, seqs))
  BY <1>3, <1>4 DEF Frontier
<1>6. {last} \cup seqs \subseteq 0..MaxSequence
  <2>1. \A x \in seqs : x \in 0..MaxSequence
    OBVIOUS
  <2> QED BY <2>1
<1>7. Frontier(last, seqs) \in 0..MaxSequence
  <2> HIDE DEF Stops
  <2> QED BY <1>5, <1>6
<1> QED BY <1>5, <1>7

-----------------------------------------------------------------------------
(* reduceFleetEvents                                                        *)

LEMMA SeqsTyped ==
  ASSUME NEW evs \in SUBSET Event
  PROVE  Seqs(evs) \in SUBSET (1..MaxSequence)
BY DEF Seqs, Event

LEMMA CandidatesTyped ==
  ASSUME NEW s \in Snapshot, NEW incoming \in SUBSET Event
  PROVE  /\ Candidates(s, incoming) \in SUBSET Event
         /\ BySequence(Candidates(s, incoming)) \in SUBSET Event
         /\ s.last \in 0..MaxSequence
         /\ BySequence(Candidates(s, incoming)) \subseteq Held(s) \cup incoming
         /\ \A e \in BySequence(Candidates(s, incoming)) : e.fleet = s.fleet /\ e.seq > s.last
BY DEF Candidates, BySequence, Snapshot, Held

(* What NewLast is to the events that bySequence keeps.                     *)
LEMMA NewLastProperty ==
  ASSUME NEW s \in Snapshot, NEW incoming \in SUBSET Event
  PROVE  LET kept == BySequence(Candidates(s, incoming))
             n    == NewLast(s, incoming)
         IN  /\ n \in 0..MaxSequence /\ n >= s.last
             /\ n + 1 \notin Seqs(kept)
             /\ \A m \in (s.last + 1)..n : m \in Seqs(kept)
<1>1. Seqs(BySequence(Candidates(s, incoming))) \in SUBSET (1..MaxSequence)
  BY CandidatesTyped, SeqsTyped
<1> QED BY <1>1, CandidatesTyped, FrontierProperty DEF NewLast

(* A reduction gives a snapshot that holds nothing new but the incoming.    *)
LEMMA ReduceTyped ==
  ASSUME NEW s \in Snapshot, NEW incoming \in SUBSET Event
  PROVE  /\ Reduce(s, incoming) \in Snapshot
         /\ Held(Reduce(s, incoming)) \subseteq Held(s) \cup incoming
         /\ Applicable(s, incoming) \subseteq BySequence(Candidates(s, incoming))
<1> DEFINE kept == BySequence(Candidates(s, incoming))
<1>1. kept \in SUBSET Event /\ kept \subseteq Held(s) \cup incoming
  BY CandidatesTyped
<1>2. Applicable(s, incoming) \subseteq kept
  BY DEF Applicable
<1>3. NewLast(s, incoming) \in 0..MaxSequence
  BY NewLastProperty
<1> HIDE DEF kept
<1>4. /\ s.fleet \in Fleets /\ s.applied \in SUBSET Event
  BY DEF Snapshot
<1>5. Reduce(s, incoming) =
        [fleet |-> s.fleet, last |-> NewLast(s, incoming),
         applied |-> s.applied \cup Applicable(s, incoming),
         pending |-> kept \ Applicable(s, incoming)]
  BY DEF Reduce, kept
<1>6. Reduce(s, incoming) \in Snapshot
  BY <1>1, <1>2, <1>3, <1>4, <1>5 DEF Snapshot
<1>7. Held(Reduce(s, incoming)) \subseteq Held(s) \cup incoming
  BY <1>1, <1>2, <1>5 DEF Held
<1> QED BY <1>2, <1>6, <1>7 DEF kept

(* A reduction that does not throw keeps a snapshot exact, if an id names   *)
(* one event among those it looks at.                                       *)
LEMMA ReduceExact ==
  ASSUME NEW s \in Snapshot, NEW incoming \in SUBSET Event,
         Exact(s), ~ReduceThrows(s, incoming),
         \A e, f \in Held(s) \cup incoming : e.id = f.id => e = f
  PROVE  Exact(Reduce(s, incoming))
<1> DEFINE kept == BySequence(Candidates(s, incoming))
           app  == Applicable(s, incoming)
           n    == NewLast(s, incoming)
           r    == Reduce(s, incoming)
<1>1. /\ n \in 0..MaxSequence /\ n >= s.last /\ n + 1 \notin Seqs(kept)
      /\ \A m \in (s.last + 1)..n : m \in Seqs(kept)
  BY NewLastProperty
<1>2. /\ kept \in SUBSET Event /\ s.last \in 0..MaxSequence
      /\ kept \subseteq Held(s) \cup incoming
      /\ \A e \in kept : e.fleet = s.fleet /\ e.seq > s.last
  BY CandidatesTyped
<1>3. app = {e \in kept : e.seq <= n}
  BY DEF Applicable
<1>4. \A e, f \in kept : e.seq = f.seq => e = f
  <2> SUFFICES ASSUME NEW e \in kept, NEW f \in kept, e.seq = f.seq PROVE e = f
    OBVIOUS
  <2>1. UuidOrder[e.id] <= UuidOrder[f.id] /\ UuidOrder[f.id] <= UuidOrder[e.id]
    BY DEF BySequence
  <2>2. e.id \in EventIds /\ f.id \in EventIds
    BY <1>2 DEF Event
  <2>3. UuidOrder[e.id] \in Nat /\ UuidOrder[f.id] \in Nat
    BY <2>2, UuidAssumption
  <2>4. e.id = f.id
    BY <2>1, <2>2, <2>3, UuidAssumption
  <2> QED BY <2>4, <1>2
<1>5. \A e \in app : e.kind # "unreducible"
  BY DEF ReduceThrows
<1>6. /\ r.last = n /\ r.fleet = s.fleet /\ r.applied = s.applied \cup app
      /\ r.pending = kept \ app
  BY DEF Reduce
<1>7. \A e \in kept : e.seq \in 1..MaxSequence
  BY <1>2 DEF Event
<1>8. /\ Seqs(s.applied) = 1..s.last
      /\ \A e, f \in s.applied : e.seq = f.seq => e = f
      /\ \A e \in s.applied : e.fleet = s.fleet /\ e.kind # "unreducible"
  BY DEF Exact
<1> HIDE DEF kept, app, n, r
<1>9. Seqs(app) = (s.last + 1)..n
  <2>1. ASSUME NEW m \in (s.last + 1)..n PROVE m \in Seqs(app)
    <3>1. PICK e \in kept : e.seq = m
      BY <1>1 DEF Seqs
    <3>2. e \in app
      BY <3>1, <1>1, <1>3, <1>2
    <3> QED BY <3>1, <3>2 DEF Seqs
  <2>2. ASSUME NEW m \in Seqs(app) PROVE m \in (s.last + 1)..n
    <3>1. PICK e \in app : e.seq = m
      BY DEF Seqs
    <3>2. e.seq <= n /\ e.seq > s.last /\ e.seq \in 1..MaxSequence
      BY <1>2, <1>3, <1>7
    <3> QED BY <3>1, <3>2, <1>1, <1>2
  <2> QED BY <2>1, <2>2
<1>10. Seqs(r.applied) = 1..r.last
  <2>1. Seqs(r.applied) = Seqs(s.applied) \cup Seqs(app)
    BY <1>6 DEF Seqs
  <2>2. (1..s.last) \cup ((s.last + 1)..n) = 1..n
    BY <1>1, <1>2
  <2> QED BY <2>1, <2>2, <1>6, <1>8, <1>9
<1>11. \A e, f \in r.applied : e.seq = f.seq => e = f
  <2> SUFFICES ASSUME NEW e \in r.applied, NEW f \in r.applied, e.seq = f.seq PROVE e = f
    OBVIOUS
  <2>1. \A x \in s.applied : x.seq \in 1..s.last
    BY <1>8 DEF Seqs
  <2>2. \A x \in app : x.seq \notin 1..s.last
    BY <1>2, <1>3
  <2>3. CASE e \in s.applied /\ f \in s.applied
    BY <2>3, <1>8
  <2>4. CASE e \in app /\ f \in app
    BY <2>4, <1>3, <1>4
  <2> QED BY <2>1, <2>2, <2>3, <2>4, <1>6
<1>12. \A e \in r.applied : e.fleet = r.fleet /\ e.kind # "unreducible"
  BY <1>2, <1>3, <1>5, <1>6, <1>8
<1>13. \A e \in r.pending : e.seq > r.last + 1
  <2> SUFFICES ASSUME NEW e \in r.pending PROVE e.seq > n + 1
    BY <1>6
  <2>1. e \in kept /\ ~(e.seq <= n) /\ e.seq \in 1..MaxSequence
    BY <1>3, <1>6, <1>7
  <2>2. e.seq # n + 1
    BY <2>1, <1>1 DEF Seqs
  <2> QED BY <2>1, <2>2, <1>1
<1> QED BY <1>10, <1>11, <1>12, <1>13 DEF Exact, r

-----------------------------------------------------------------------------
(* Type correctness                                                         *)

LEMMA EmptyTyped ==
  ASSUME NEW f \in Fleets
  PROVE  EmptySnapshot(f) \in Snapshot /\ Exact(EmptySnapshot(f)) /\ Held(EmptySnapshot(f)) = {}
BY BoundsAssumption DEF EmptySnapshot, Snapshot, Exact, Seqs, Held

(* The events of the log, of its tail and of the running append.            *)
LEMMA WrittenTyped ==
  ASSUME TypeOK
  PROVE  /\ Lines \in SUBSET Event /\ tail.line \in SUBSET Event /\ op.ev \in SUBSET Event
         /\ op # Idle => EventOf(op) \in Event /\ op.ev = {EventOf(op)}
<1>1. Lines \in SUBSET Event
  BY DEF TypeOK, Lines
<1>2. tail.line \in SUBSET Event
  BY DEF TypeOK, FileEnd
<1>3. ASSUME op # Idle PROVE EventOf(op) \in Event /\ op.ev = {EventOf(op)}
  <2>1. PICK e \in Event : op.ev = {e}
    BY <1>3 DEF TypeOK, Op
  <2> QED BY <2>1 DEF EventOf
<1>4. op = Idle => op.ev = {}
  BY DEF Idle
<1> QED BY <1>1, <1>2, <1>3, <1>4

(* Replay starts from the snapshot file or from an empty snapshot.          *)
LEMMA ReplayTyped ==
  ASSUME TypeOK, ~NothingOnDisk
  PROVE  /\ ReplayBase \in Snapshot
         /\ ReplayBase = snap \/ \E f \in Fleets : ReplayBase = EmptySnapshot(f)
         /\ ReplayEvents \in SUBSET Event /\ ReplayEvents \subseteq Written
         /\ MaxSequenceRead \in 0..MaxSequence
<1> USE BoundsAssumption
<1>1. Readable \in SUBSET Event /\ Readable \subseteq Written
  BY WrittenTyped DEF Readable, Written
<1>2. ReplayBase = snap \/ \E f \in Fleets : ReplayBase = EmptySnapshot(f)
  <2>1. CASE snap.last > 0
    BY <2>1 DEF ReplayBase
  <2>2. CASE ~(snap.last > 0) /\ log # <<>>
    <3>1. log[1] \in Event
      BY <2>2 DEF TypeOK
    <3> QED BY <2>2, <3>1 DEF ReplayBase, Event
  <2>3. CASE ~(snap.last > 0) /\ log = <<>>
    <3>1. Lines = {}
      BY <2>3 DEF Lines
    <3>2. snap.last = 0
      BY <2>3 DEF TypeOK, Snapshot
    <3>3. tail.line # {}
      BY <3>1, <3>2 DEF NothingOnDisk, Readable
    <3>4. (CHOOSE e \in tail.line : TRUE) \in Event
      BY <3>3, WrittenTyped
    <3> QED BY <2>3, <3>4 DEF ReplayBase, Event
  <2> QED BY <2>1, <2>2, <2>3
<1>3. ReplayBase \in Snapshot
  BY <1>2, EmptyTyped DEF TypeOK
<1>4. MaxSequenceRead \in 0..MaxSequence
  <2>1. Seqs(Readable) \in SUBSET (1..MaxSequence)
    BY <1>1, SeqsTyped
  <2>2. {0} \cup Seqs(Readable) \in SUBSET (0..MaxSequence)
    BY <2>1
  <2> QED BY <2>2, MaxOfProperty DEF MaxSequenceRead
<1> QED BY <1>1, <1>2, <1>3, <1>4 DEF ReplayEvents

(* The event an append starts with is new.                                  *)
LEMMA StartAppendTyped ==
  ASSUME TypeOK, NEW kind \in AllKinds, NEW seq \in Nat \ {0}, NEW f \in Fleets,
         StartAppend(kind, seq, f)
  PROVE  /\ op' \in Op /\ drawn' = drawn + 1 /\ drawn' \in 0..MaxEvents
         /\ seq \in 0..MaxSequence
         /\ \A e \in op'.ev : e \in Event /\ e.id = drawn'
         /\ op'.ev # {} /\ \A e, g \in op'.ev : e = g
<1> DEFINE e == [id |-> drawn + 1, seq |-> seq, fleet |-> f, kind |-> kind]
<1> USE BoundsAssumption
<1>1. seq \in 1..MaxSequence /\ drawn + 1 \in 1..MaxEvents
  BY DEF StartAppend, TypeOK
<1>2. e \in Event
  BY <1>1 DEF Event, EventIds
<1>3. op' = InPhase("appending", e) /\ drawn' = drawn + 1
  BY DEF StartAppend
<1> HIDE DEF e
<1>4. op' \in Op /\ op'.ev = {e}
  BY <1>2, <1>3 DEF InPhase, Op
<1>5. e.id = drawn + 1
  BY DEF e
<1> QED BY <1>1, <1>2, <1>3, <1>4, <1>5

LEMMA MaxOfTwo ==
  ASSUME NEW m \in 0..MaxSequence, NEW n \in 0..MaxSequence
  PROVE  MaxOf({m, n}) \in 0..MaxSequence
<1> USE BoundsAssumption
<1>1. {m, n} \in SUBSET (0..MaxSequence) /\ {m, n} # {}
  OBVIOUS
<1> QED BY <1>1, MaxOfProperty

(* What writing a line leaves in the file.                                  *)
LEMMA WriteLineTyped ==
  ASSUME TypeOK, NEW e \in Event, WriteLine(e)
  PROVE  /\ log' \in Seq(Event) /\ tail' \in FileEnd /\ tail'.line = {}
         /\ glued' \in BOOLEAN
         /\ Lines' \subseteq Lines \cup {e}
<1>1. log' \in Seq(Event) /\ Lines' \subseteq Lines \cup {e}
  <2>1. CASE tail.end = Clean
    <3>1. log \in Seq(Event) /\ log' = Append(log, e)
      BY <2>1 DEF WriteLine, TypeOK
    <3>2. \A i \in DOMAIN log' : log'[i] = e \/ (i \in DOMAIN log /\ log'[i] = log[i])
      BY <3>1
    <3> QED BY <3>1, <3>2 DEF Lines
  <2>2. CASE tail.end # Clean
    BY <2>2 DEF WriteLine, TypeOK, Lines
  <2> QED BY <2>1, <2>2
<1>2. tail' \in FileEnd /\ tail'.line = {}
  BY DEF WriteLine, CleanTail, FileEnd
<1>3. glued' \in BOOLEAN
  BY DEF WriteLine, TypeOK
<1> QED BY <1>1, <1>2, <1>3

(* Forgetting the memory gives typed values.                                *)
LEMMA ForgetTyped ==
  ASSUME ForgetMemory
  PROVE  /\ status' = "down" /\ snapshot' = EmptySnapshot(0) /\ snapshot' \in Snapshot
         /\ sequence' \in 0..MaxSequence /\ op' = Idle /\ timer' \in BOOLEAN
         /\ chain' = <<>> /\ chain' \in Seq(Write)
<1>1. 0 \in Fleets
  BY BoundsAssumption DEF Fleets
<1>2. EmptySnapshot(0) \in Snapshot
  BY <1>1, EmptyTyped
<1>3. <<>> \in Seq(Write)
  OBVIOUS
<1>4. 0 \in 0..MaxSequence
  BY BoundsAssumption
<1> QED BY <1>2, <1>3, <1>4, Zenon DEF ForgetMemory

(* Capturing the present snapshot for a write.                              *)
LEMMA CaptureTyped ==
  ASSUME TypeOK, NEW b \in BOOLEAN
  PROVE  /\ Append(chain, [contents |-> snapshot, awaited |-> b]) \in Seq(Write)
         /\ \A i \in DOMAIN Append(chain, [contents |-> snapshot, awaited |-> b]) :
              LET w == Append(chain, [contents |-> snapshot, awaited |-> b])[i]
              IN  w.contents = snapshot \/ (i \in DOMAIN chain /\ w = chain[i])
<1> DEFINE new == [contents |-> snapshot, awaited |-> b]
<1>1. chain \in Seq(Write) /\ new \in Write /\ new.contents = snapshot
  BY DEF TypeOK, Write
<1> HIDE DEF new
<1>2. Append(chain, new) \in Seq(Write)
  BY <1>1
<1>3. \A i \in DOMAIN Append(chain, new) :
        Append(chain, new)[i] = new \/ (i \in DOMAIN chain /\ Append(chain, new)[i] = chain[i])
  BY <1>1
<1> QED BY <1>1, <1>2, <1>3 DEF new

(* What a crash leaves in the file.                                         *)
LEMMA CrashTyped ==
  ASSUME TypeOK, Crash
  PROVE  /\ log' \in Seq(Event) /\ tail' \in FileEnd /\ glued' \in BOOLEAN
         /\ Lines' \cup tail'.line \subseteq Written
<1>1. CASE UNCHANGED <<log, tail, glued>>
  BY <1>1 DEF TypeOK, Lines, Written
<1>2. CASE op.phase = "appending" /\ tail' = GarbageTail /\ UNCHANGED <<log, glued>>
  BY <1>2 DEF TypeOK, Lines, Written, GarbageTail, FileEnd
<1>3. CASE op.phase = "appending" /\ tail' = [end |-> "unterminated", line |-> op.ev]
             /\ UNCHANGED <<log, glued>>
  <2>1. PICK e \in Event : op.ev = {e}
    BY <1>3, WrittenTyped DEF Idle
  <2>2. tail' \in FileEnd /\ tail'.line = op.ev
    BY <1>3, <2>1 DEF FileEnd
  <2> QED BY <1>3, <2>2 DEF TypeOK, Lines, Written
<1>4. CASE op.phase = "appending" /\ WriteLine(EventOf(op))
  <2>1. EventOf(op) \in Event /\ op.ev = {EventOf(op)}
    BY <1>4, WrittenTyped DEF Idle
  <2> QED BY <1>4, <2>1, WriteLineTyped DEF Written
<1> QED BY <1>1, <1>2, <1>3, <1>4 DEF Crash

(* Every step keeps the types.                                              *)
LEMMA TypeStep == TypeOK /\ [Next]_vars => TypeOK'
<1> SUFFICES ASSUME TypeOK, [Next]_vars PROVE TypeOK'
  OBVIOUS
<1> USE BoundsAssumption
<1>1. CASE Initialize
  <2>1. ReplayBase \in Snapshot /\ ReplayEvents \in SUBSET Event /\ MaxSequenceRead \in 0..MaxSequence
    BY <1>1, ReplayTyped DEF Initialize
  <2>2. snapshot' \in Snapshot
    BY <1>1, <2>1, ReduceTyped DEF Initialize
  <2>3. snapshot'.last \in 0..MaxSequence
    BY <2>2 DEF Snapshot
  <2>4. sequence' \in 0..MaxSequence
    BY <1>1, <2>1, <2>3, MaxOfTwo DEF Initialize
  <2> QED BY <1>1, <2>2, <2>4 DEF Initialize, TypeOK, disk, ghosts
<1>2. CASE InitializeFails
  BY <1>2 DEF InitializeFails, TypeOK, disk, memory, ghosts
<1>3. CASE InitializeFresh
  <2>1. crashes \in Fleets /\ "terminal" \in AllKinds
    BY DEF TypeOK, Fleets, AllKinds
  <2>2. snapshot' \in Snapshot
    BY <1>3, <2>1, EmptyTyped DEF InitializeFresh
  <2>3. op' \in Op /\ drawn' \in 0..MaxEvents /\ 1 \in 0..MaxSequence
    BY <1>3, <2>1, StartAppendTyped DEF InitializeFresh
  <2> QED BY <1>3, <2>2, <2>3 DEF InitializeFresh, TypeOK, disk
<1>4. ASSUME NEW kind \in Kinds, BeginAppend(kind) PROVE TypeOK'
  <2>1. kind \in AllKinds /\ snapshot.fleet \in Fleets /\ sequence + 1 \in Nat \ {0}
    BY DEF TypeOK, Snapshot
  <2>2. op' \in Op /\ drawn' \in 0..MaxEvents /\ sequence + 1 \in 0..MaxSequence
    BY <1>4, <2>1, StartAppendTyped DEF BeginAppend
  <2> QED BY <1>4, <2>2 DEF BeginAppend, TypeOK, disk
<1>5. CASE BeginAppendThrows
  BY <1>5 DEF BeginAppendThrows, TypeOK, disk, ghosts
<1>6. CASE LineWritten
  <2>1. EventOf(op) \in Event
    BY <1>6, WrittenTyped DEF LineWritten, Idle
  <2>2. log' \in Seq(Event) /\ tail' \in FileEnd /\ glued' \in BOOLEAN
    BY <1>6, <2>1, WriteLineTyped DEF LineWritten
  <2>3. {EventOf(op)} \in SUBSET Event /\ snapshot \in Snapshot
    BY <2>1 DEF TypeOK
  <2>4. Reduce(snapshot, {EventOf(op)}) \in Snapshot
    BY <2>3, ReduceTyped
  <2>5. snapshot' \in Snapshot
    BY <1>6, <2>3, <2>4 DEF LineWritten
  <2>6. Idle \in Op /\ InPhase("recording", EventOf(op)) \in Op
    BY <2>1 DEF Op, InPhase
  <2>7. op' \in Op
    BY <1>6, <2>6 DEF LineWritten
  <2> QED BY <1>6, <2>2, <2>5, <2>7 DEF LineWritten, TypeOK
<1>7. CASE RecordWritten
  <2>1. EventOf(op) \in Event
    BY <1>7, WrittenTyped DEF RecordWritten, Idle
  <2>2. Idle \in Op /\ InPhase("flushing", EventOf(op)) \in Op
    BY <2>1 DEF Op, InPhase
  <2>3. op' \in Op
    BY <1>7, <2>2 DEF RecordWritten
  <2>4. chain' \in Seq(Write)
    BY <1>7, CaptureTyped DEF RecordWritten, TypeOK
  <2>5. timer' \in BOOLEAN /\ acked' \subseteq Event
    BY <1>7, <2>1 DEF RecordWritten, TypeOK
  <2> QED BY <1>7, <2>3, <2>4, <2>5 DEF RecordWritten, TypeOK, disk
<1>8. CASE TimerFires
  <2>1. chain' \in Seq(Write)
    BY <1>8, CaptureTyped DEF TimerFires
  <2> QED BY <1>8, <2>1 DEF TimerFires, TypeOK, disk, ghosts
<1>9. CASE SnapshotWritten
  <2>1. Head(chain) \in Write /\ Tail(chain) \in Seq(Write)
    BY <1>9, HeadTailProperties DEF SnapshotWritten, TypeOK
  <2>2. snap' \in Snapshot /\ chain' \in Seq(Write)
    BY <1>9, <2>1 DEF SnapshotWritten, Write
  <2>3. op' \in Op /\ acked' \subseteq Event /\ flushed' \subseteq Event
    BY <1>9, WrittenTyped DEF SnapshotWritten, TypeOK, Op
  <2> QED BY <1>9, <2>2, <2>3 DEF SnapshotWritten, TypeOK
<1>10. CASE Flush
  <2>1. chain' \in Seq(Write)
    BY <1>10, CaptureTyped DEF Flush
  <2> QED BY <1>10, <2>1 DEF Flush, TypeOK, disk, ghosts
<1>11. CASE Exit
  <2>1. crashes' \in 0..MaxCrashes
    BY <1>11 DEF Exit, TypeOK
  <2> QED BY <1>11, <2>1, ForgetTyped DEF Exit, TypeOK, disk, ghosts, Op
<1>12. CASE Crash
  <2>1. crashes' \in 0..MaxCrashes
    BY <1>12 DEF Crash, TypeOK
  <2>2. log' \in Seq(Event) /\ tail' \in FileEnd /\ glued' \in BOOLEAN
    BY <1>12, CrashTyped
  <2> QED BY <1>12, <2>1, <2>2, ForgetTyped DEF Crash, TypeOK, Op
<1>13. CASE UNCHANGED vars
  BY <1>13 DEF vars, disk, memory, ghosts, TypeOK
<1> QED BY <1>1, <1>2, <1>3, <1>4, <1>5, <1>6, <1>7, <1>8, <1>9, <1>10, <1>11, <1>12, <1>13 DEF Next

-----------------------------------------------------------------------------
(* Where the snapshots and the events of a next state come from             *)

(* A snapshot of the next state is one of this state's, an empty one, or    *)
(* the reduction, that does not throw, of one of those by events written.   *)
Origin(s) ==
  \/ s \in Snapshots
  \/ \E f \in Fleets : s = EmptySnapshot(f)
  \/ \E b \in Snapshots \cup {EmptySnapshot(f) : f \in Fleets}, inc \in SUBSET Written :
       ~ReduceThrows(b, inc) /\ s = Reduce(b, inc)

LEMMA SnapshotsTyped == ASSUME TypeOK PROVE Snapshots \in SUBSET Snapshot
<1>1. snapshot \in Snapshot /\ snap \in Snapshot
  BY DEF TypeOK
<1>2. ASSUME NEW i \in DOMAIN chain PROVE chain[i].contents \in Snapshot
  <2>1. chain[i] \in Write
    BY DEF TypeOK
  <2> QED BY <2>1 DEF Write
<1> QED BY <1>1, <1>2 DEF Snapshots

(* The steps that move snapshots but do not make one.                       *)
LEMMA SnapshotsCaptured ==
  ASSUME TypeOK, snapshot' = snapshot, snap' = snap, NEW b \in BOOLEAN,
         chain' = Append(chain, [contents |-> snapshot, awaited |-> b])
  PROVE  Snapshots' \subseteq Snapshots
<1>1. \A i \in DOMAIN chain' : chain'[i].contents \in Snapshots
  BY CaptureTyped DEF Snapshots
<1> QED BY <1>1 DEF Snapshots

LEMMA SnapshotsOrigin ==
  ASSUME TypeOK, [Next]_vars
  PROVE  \A s \in Snapshots' : Origin(s)
<1>1. CASE Initialize
  <2>1. /\ ReplayBase \in Snapshots \cup {EmptySnapshot(f) : f \in Fleets}
        /\ ReplayEvents \in SUBSET Written
    BY <1>1, ReplayTyped DEF Initialize, Snapshots
  <2>2. snapshot' = Reduce(ReplayBase, ReplayEvents) /\ ~ReduceThrows(ReplayBase, ReplayEvents)
    <3>1. snapshot' = Reduce(ReplayBase, ReplayEvents) /\ ~ReplayFails /\ ~NothingOnDisk
      BY <1>1 DEF Initialize
    <3> QED BY <3>1 DEF ReplayFails
  <2>3. snap' = snap /\ chain' = chain
    BY <1>1 DEF Initialize, disk
  <2>4. Origin(snapshot')
    BY <2>1, <2>2 DEF Origin
  <2>5. \A s \in Snapshots' : s = snapshot' \/ s \in Snapshots
    BY <2>3 DEF Snapshots
  <2> QED BY <2>4, <2>5 DEF Origin
<1>2. CASE InitializeFails
  <2>1. UNCHANGED <<snapshot, snap, chain>>
    BY <1>2 DEF InitializeFails, disk, memory
  <2> QED BY <2>1 DEF Snapshots, Origin
<1>3. CASE InitializeFresh
  <2>1. snap' = snap /\ chain' = chain /\ snapshot' = EmptySnapshot(crashes)
    BY <1>3 DEF InitializeFresh, disk
  <2>2. crashes \in Fleets
    BY DEF TypeOK, Fleets
  <2> QED BY <2>1, <2>2 DEF Snapshots, Origin
<1>4. ASSUME NEW kind \in Kinds, BeginAppend(kind) PROVE \A s \in Snapshots' : Origin(s)
  <2>1. UNCHANGED <<snapshot, snap, chain>>
    BY <1>4 DEF BeginAppend, disk
  <2> QED BY <2>1 DEF Snapshots, Origin
<1>5. CASE BeginAppendThrows
  <2>1. UNCHANGED <<snapshot, snap, chain>>
    BY <1>5 DEF BeginAppendThrows, disk
  <2> QED BY <2>1 DEF Snapshots, Origin
<1>6. CASE LineWritten
  <2>1. snap' = snap /\ chain' = chain
    BY <1>6 DEF LineWritten
  <2>2. {EventOf(op)} \in SUBSET Written
    BY <1>6, WrittenTyped DEF LineWritten, Idle, Written
  <2>3. \/ snapshot' = snapshot
        \/ ~ReduceThrows(snapshot, {EventOf(op)}) /\ snapshot' = Reduce(snapshot, {EventOf(op)})
    BY <1>6 DEF LineWritten
  <2>4. Origin(snapshot')
    BY <2>2, <2>3 DEF Origin, Snapshots
  <2>5. \A s \in Snapshots' : s = snapshot' \/ s \in Snapshots
    BY <2>1 DEF Snapshots
  <2> QED BY <2>4, <2>5 DEF Origin
<1>7. CASE RecordWritten
  <2>1. snapshot' = snapshot /\ snap' = snap
    BY <1>7 DEF RecordWritten, disk
  <2>2. chain' = chain \/ chain' = Append(chain, [contents |-> snapshot, awaited |-> TRUE])
    BY <1>7 DEF RecordWritten
  <2>3. CASE chain' = chain
    BY <2>1, <2>3 DEF Snapshots, Origin
  <2>4. CASE chain' = Append(chain, [contents |-> snapshot, awaited |-> TRUE])
    BY <2>1, <2>4, SnapshotsCaptured DEF Origin
  <2> QED BY <2>2, <2>3, <2>4
<1>8. CASE TimerFires
  <2>1. /\ snapshot' = snapshot /\ snap' = snap
        /\ chain' = Append(chain, [contents |-> snapshot, awaited |-> FALSE])
    BY <1>8 DEF TimerFires, disk
  <2> QED BY <2>1, SnapshotsCaptured DEF Origin
<1>9. CASE SnapshotWritten
  <2>1. snapshot' = snapshot /\ chain # <<>> /\ snap' = Head(chain).contents /\ chain' = Tail(chain)
    BY <1>9 DEF SnapshotWritten
  <2>2. 1 \in DOMAIN chain /\ snap' = chain[1].contents
    BY <2>1 DEF TypeOK
  <2>3. \A i \in DOMAIN chain' : i + 1 \in DOMAIN chain /\ chain'[i] = chain[i + 1]
    BY <2>1 DEF TypeOK
  <2>4. Snapshots' \subseteq Snapshots
    BY <2>1, <2>2, <2>3 DEF Snapshots
  <2> QED BY <2>4 DEF Origin
<1>10. CASE Flush
  <2>1. /\ snapshot' = snapshot /\ snap' = snap
        /\ chain' = Append(chain, [contents |-> snapshot, awaited |-> FALSE])
    BY <1>10 DEF Flush, disk
  <2> QED BY <2>1, SnapshotsCaptured DEF Origin
<1>11. CASE ForgetMemory /\ snap' = snap
  <2>1. snapshot' = EmptySnapshot(0) /\ DOMAIN chain' = {}
    BY <1>11 DEF ForgetMemory
  <2>2. 0 \in Fleets
    BY BoundsAssumption DEF Fleets
  <2>3. \A s \in Snapshots' : s = EmptySnapshot(0) \/ s = snap
    BY <1>11, <2>1 DEF Snapshots
  <2>4. snap \in Snapshots
    BY DEF Snapshots
  <2> QED BY <2>2, <2>3, <2>4 DEF Origin
<1>12. Exit => ForgetMemory /\ snap' = snap
  BY DEF Exit, disk
<1>13. Crash => ForgetMemory /\ snap' = snap
  BY DEF Crash
<1>14. CASE UNCHANGED vars
  <2>1. UNCHANGED <<snapshot, snap, chain>>
    BY <1>14 DEF vars, disk, memory
  <2> QED BY <2>1 DEF Snapshots, Origin
<1> QED BY <1>1, <1>2, <1>3, <1>4, <1>5, <1>6, <1>7, <1>8, <1>9, <1>10, <1>11, <1>12, <1>13, <1>14 DEF Next

(* The written events of the next state are this state's and, when one is   *)
(* drawn, a single new one.                                                 *)
LEMMA WrittenOrigin ==
  ASSUME TypeOK, [Next]_vars
  PROVE  \/ Written' \subseteq Written /\ drawn' = drawn
         \/ /\ drawn' = drawn + 1
            /\ \E new : new.id = drawn' /\ Written' \subseteq Written \cup {new}
<1>1. CASE Initialize
  BY <1>1 DEF Initialize, disk, ghosts, Written, Lines
<1>2. CASE InitializeFails
  BY <1>2 DEF InitializeFails, disk, memory, ghosts, Written, Lines
<1>3. ASSUME NEW kind \in AllKinds, NEW seq \in Nat \ {0}, NEW f \in Fleets,
             StartAppend(kind, seq, f), UNCHANGED disk
      PROVE  drawn' = drawn + 1 /\ \E new : new.id = drawn' /\ Written' \subseteq Written \cup {new}
  <2>1. PICK new \in op'.ev : TRUE
    BY <1>3, StartAppendTyped
  <2>2. new.id = drawn' /\ op'.ev \subseteq {new} /\ drawn' = drawn + 1
    BY <1>3, StartAppendTyped
  <2>3. Lines' = Lines /\ tail' = tail
    BY <1>3 DEF disk, Lines
  <2>4. Written' \subseteq Written \cup {new}
    BY <2>2, <2>3 DEF Written
  <2> QED BY <2>2, <2>4
<1>4. CASE InitializeFresh
  <2>1. crashes \in Fleets /\ "terminal" \in AllKinds
    BY DEF TypeOK, Fleets, AllKinds
  <2> QED BY <1>3, <1>4, <2>1 DEF InitializeFresh
<1>5. ASSUME NEW kind \in Kinds, BeginAppend(kind)
      PROVE  drawn' = drawn + 1 /\ \E new : new.id = drawn' /\ Written' \subseteq Written \cup {new}
  <2>1. kind \in AllKinds /\ snapshot.fleet \in Fleets /\ sequence + 1 \in Nat \ {0}
    BY BoundsAssumption DEF TypeOK, Snapshot
  <2> QED BY <1>3, <1>5, <2>1 DEF BeginAppend
<1>6. CASE BeginAppendThrows
  BY <1>6 DEF BeginAppendThrows, disk, ghosts, Written, Lines
<1>7. CASE LineWritten
  <2>1. EventOf(op) \in Event /\ op.ev = {EventOf(op)}
    BY <1>7, WrittenTyped DEF LineWritten, Idle
  <2>2. tail'.line = {} /\ Lines' \subseteq Lines \cup {EventOf(op)} /\ drawn' = drawn
    BY <1>7, <2>1, WriteLineTyped DEF LineWritten
  <2>3. op'.ev \subseteq {EventOf(op)}
    BY <1>7 DEF LineWritten, Idle, InPhase
  <2> QED BY <2>1, <2>2, <2>3 DEF Written
<1>8. CASE RecordWritten
  <2>1. op.ev = {EventOf(op)}
    BY <1>8, WrittenTyped DEF RecordWritten, Idle
  <2>2. op'.ev \subseteq {EventOf(op)}
    BY <1>8 DEF RecordWritten, Idle, InPhase
  <2> QED BY <1>8, <2>1, <2>2 DEF RecordWritten, disk, Written, Lines
<1>9. CASE TimerFires
  BY <1>9 DEF TimerFires, disk, ghosts, Written, Lines
<1>10. CASE SnapshotWritten
  BY <1>10 DEF SnapshotWritten, Written, Lines, Idle
<1>11. CASE Flush
  BY <1>11 DEF Flush, disk, ghosts, Written, Lines
<1>12. CASE Exit
  BY <1>12 DEF Exit, ForgetMemory, Idle, disk, ghosts, Written, Lines
<1>13. CASE Crash
  <2>1. op'.ev = {} /\ drawn' = drawn
    BY <1>13 DEF Crash, ForgetMemory, Idle
  <2> QED BY <1>13, <2>1, CrashTyped DEF Written
<1>14. CASE UNCHANGED vars
  BY <1>14 DEF vars, disk, memory, ghosts, Written, Lines
<1> QED BY <1>1, <1>2, <1>4, <1>5, <1>6, <1>7, <1>8, <1>9, <1>10, <1>11, <1>12, <1>13, <1>14 DEF Next

-----------------------------------------------------------------------------
(* The inductive invariant                                                  *)

LEMMA Initially == Init => IInv
<1> SUFFICES ASSUME Init PROVE IInv
  OBVIOUS
<1>1. 0 \in Fleets /\ 0 \in 0..MaxSequence /\ 0 \in 0..MaxEvents /\ 0 \in 0..MaxCrashes
  BY BoundsAssumption DEF Fleets
<1>2. EmptySnapshot(0) \in Snapshot /\ Exact(EmptySnapshot(0)) /\ Held(EmptySnapshot(0)) = {}
  BY <1>1, EmptyTyped
<1>3. Idle \in Op /\ CleanTail \in FileEnd /\ Idle.ev = {} /\ CleanTail.line = {}
  BY DEF Idle, Op, CleanTail, FileEnd
<1>4. TypeOK
  <2>1. log \in Seq(Event) /\ chain \in Seq(Write)
    BY DEF Init
  <2>2. /\ tail \in FileEnd /\ snap \in Snapshot /\ snapshot \in Snapshot /\ op \in Op
        /\ timer \in BOOLEAN /\ glued \in BOOLEAN
    BY <1>2, <1>3, Zenon DEF Init
  <2>3. /\ status = "down" /\ sequence \in 0..MaxSequence /\ drawn \in 0..MaxEvents
        /\ crashes \in 0..MaxCrashes /\ acked \subseteq Event /\ flushed \subseteq Event
    BY <1>1 DEF Init
  <2> QED BY <2>1, <2>2, <2>3 DEF TypeOK
<1>5. ExactlyOnceInOrder
  BY <1>2 DEF Init, ExactlyOnceInOrder
<1>6. Known = {}
  <2>1. Lines = {} /\ DOMAIN chain = {}
    BY DEF Init, Lines
  <2>2. \A s \in Snapshots : Held(s) = {}
    BY <1>2, <2>1 DEF Init, Snapshots
  <2> QED BY <1>3, <2>1, <2>2 DEF Init, Known, Written
<1>7. OneEventPerId
  BY <1>6 DEF OneEventPerId
<1> QED BY <1>4, <1>5, <1>7 DEF IInv

(* No step gives an id to a second event.                                   *)
LEMMA OneEventStep ==
  ASSUME TypeOK, OneEventPerId, [Next]_vars
  PROVE  OneEventPerId'
<1>1. \A s \in Snapshots' : Held(s) \subseteq Known
  <2> SUFFICES ASSUME NEW s \in Snapshots' PROVE Held(s) \subseteq Known
    OBVIOUS
  <2>1. Origin(s)
    BY SnapshotsOrigin
  <2>2. CASE s \in Snapshots
    BY <2>2 DEF Known
  <2>3. CASE \E f \in Fleets : s = EmptySnapshot(f)
    BY <2>3, EmptyTyped
  <2>4. ASSUME NEW b \in Snapshots \cup {EmptySnapshot(f) : f \in Fleets},
               NEW inc \in SUBSET Written, s = Reduce(b, inc)
        PROVE  Held(s) \subseteq Known
    <3>1. b \in Snapshot /\ Held(b) \subseteq Known
      BY SnapshotsTyped, EmptyTyped DEF Known
    <3>2. inc \in SUBSET Event
      BY WrittenTyped DEF Written
    <3>3. Held(s) \subseteq Held(b) \cup inc
      BY <2>4, <3>1, <3>2, ReduceTyped
    <3> QED BY <3>1, <3>3 DEF Known
  <2> QED BY <2>1, <2>2, <2>3, <2>4 DEF Origin
<1>2. Known' \subseteq Known \cup Written'
  BY <1>1 DEF Known
<1>3. Written \subseteq Known
  BY DEF Known
<1>4. \A e \in Known : e.id \in Nat /\ e.id <= drawn
  <2>1. Known \in SUBSET Event
    <3>1. \A s \in Snapshots : Held(s) \in SUBSET Event
      BY SnapshotsTyped DEF Held, Snapshot
    <3> QED BY <3>1, WrittenTyped DEF Known, Written
  <2> QED BY <2>1 DEF Event, EventIds, OneEventPerId
<1>5. drawn \in Nat
  BY DEF TypeOK
<1>6. CASE Written' \subseteq Written /\ drawn' = drawn
  <2>1. Known' \subseteq Known
    BY <1>2, <1>3, <1>6
  <2> QED BY <1>6, <2>1 DEF OneEventPerId
<1>7. ASSUME drawn' = drawn + 1, NEW new, new.id = drawn', Written' \subseteq Written \cup {new}
      PROVE  OneEventPerId'
  <2>1. Known' \subseteq Known \cup {new}
    BY <1>2, <1>3, <1>7
  <2>2. \A e \in Known' : e.id <= drawn' /\ (e.id = drawn' => e = new)
    BY <1>4, <1>5, <1>7, <2>1
  <2>3. \A e, f \in Known' : e.id = f.id => e = f
    <3> SUFFICES ASSUME NEW e \in Known', NEW f \in Known', e.id = f.id PROVE e = f
      OBVIOUS
    <3>1. CASE e.id = drawn'
      BY <2>2, <3>1
    <3>2. CASE e.id # drawn'
      BY <1>7, <2>1, <3>2 DEF OneEventPerId
    <3> QED BY <3>1, <3>2
  <2> QED BY <2>2, <2>3 DEF OneEventPerId
<1> QED BY <1>6, <1>7, WrittenOrigin

(* Every snapshot of the next state is exact.                               *)
LEMMA ExactStep ==
  ASSUME IInv, [Next]_vars
  PROVE  ExactlyOnceInOrder'
<1> USE DEF IInv
<1>1. \A s \in Snapshots : Exact(s)
  BY DEF ExactlyOnceInOrder, Snapshots
<1>2. ASSUME NEW s \in Snapshots' PROVE Exact(s)
  <2>1. Origin(s)
    BY SnapshotsOrigin
  <2>2. CASE s \in Snapshots
    BY <1>1, <2>2
  <2>3. CASE \E f \in Fleets : s = EmptySnapshot(f)
    BY <2>3, EmptyTyped
  <2>4. ASSUME NEW b \in Snapshots \cup {EmptySnapshot(f) : f \in Fleets},
               NEW inc \in SUBSET Written, ~ReduceThrows(b, inc), s = Reduce(b, inc)
        PROVE  Exact(s)
    <3>1. b \in Snapshot /\ Exact(b) /\ Held(b) \subseteq Known
      BY <1>1, SnapshotsTyped, EmptyTyped DEF Known
    <3>2. inc \in SUBSET Event /\ inc \subseteq Known
      BY WrittenTyped DEF Written, Known
    <3>3. \A e, f \in Held(b) \cup inc : e.id = f.id => e = f
      BY <3>1, <3>2 DEF OneEventPerId
    <3> QED BY <2>4, <3>1, <3>2, <3>3, ReduceExact
  <2> QED BY <2>1, <2>2, <2>3, <2>4 DEF Origin
<1> QED BY <1>2 DEF ExactlyOnceInOrder, Snapshots

-----------------------------------------------------------------------------
(* Every variable holds a value of its type in every reachable state of the *)
(* event store, whatever crashes, gaps and torn lines it meets.             *)
THEOREM TypeCorrect == Spec => []TypeOK
<1>1. Init => TypeOK
  BY Initially DEF IInv
<1> QED BY <1>1, TypeStep, PTL DEF Spec

(* Every snapshot, in memory, captured for a write or on disk, is the fold  *)
(* of exactly one event for each sequence number up to its last: append(),  *)
(* replay and snapshot writes apply no event twice, early, or not at all.   *)
THEOREM ExactlyOnce == Spec => []ExactlyOnceInOrder
<1>1. IInv /\ [Next]_vars => IInv'
  BY TypeStep, OneEventStep, ExactStep DEF IInv
<1>2. IInv => ExactlyOnceInOrder
  BY DEF IInv
<1> QED BY Initially, <1>1, <1>2, PTL DEF Spec
=============================================================================
