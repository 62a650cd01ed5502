--------------------------- MODULE AgentFleet_proofs ---------------------------
(***************************************************************************)
(* Proofs about AgentFleet for every set of runs, ownership, isolation,    *)
(* conflicts and bounds: TypeOK, NothingLeaks, DisposedIsQuiet and         *)
(* QuiescentIsTerminal.  They do not assume that callers wait for a run    *)
(* before they retry it.                                                   *)
(*                                                                         *)
(* drain() is described once (DrainEffect): it launches a first part of    *)
(* the queue, and only while there is room.  What each step does to        *)
(* attempts, slots, locks and follow-ups is put into a few kinds           *)
(* (StepKinds), and the invariant Kept is proved kind by kind: whatever    *)
(* takes a slot, a lock or a place in the queue has an actor that is still *)
(* to give it back.                                                        *)
(*                                                                         *)
(* For QuiescentIsTerminal every step is one of the queue of appends       *)
(* (QueueStep): its first append is over or not, what is behind it stays   *)
(* in order, and what is added is said by who moves.  So an append in the  *)
(* queue is the one its actor waits for (AppendsOK), and a run without a   *)
(* terminal state has its end in the queue, or somebody who still owes it  *)
(* (ReportsOK); a heartbeat that is reduced late is followed by the end.   *)
(* A follow-up that finds its host disposed is excepted: it leaves a run   *)
(* that nobody ends (followUp[r].abandoned).                               *)
(***************************************************************************)
EXTENDS AgentFleet, FiniteSetTheorems, SequenceTheorems, TLAPS

Ids == Runs \cup RootIds

-----------------------------------------------------------------------------
(* Names                                                                    *)

LEMMA AttemptFacts ==
  /\ \A a \in Attempts : a[1] \in Runs /\ a[2] \in 1..MaxAttempts /\ a = <<a[1], a[2]>>
  /\ \A r \in Runs, k \in 1..MaxAttempts : <<r, k>> \in Attempts
BY DEF Attempts

LEMMA ActorFacts ==
  /\ \A a \in Attempts : Exec(a) \in Actors /\ Exec(a).run = a[1]
  /\ \A r \in Runs : FollowUp(r) \in Actors /\ FollowUp(r).run = r
  /\ \A r \in Runs : NoOne(r) \in Actors /\ NoOne(r).run = r
  /\ \A s \in StopIds : s \in Actors /\ s.run \in Runs /\ s.from \in Runs
<1>1. \A a \in Attempts : Exec(a).run = a[1]
  BY DEF Exec
<1>2. \A r \in Runs : FollowUp(r).run = r /\ NoOne(r).run = r
  BY DEF FollowUp, NoOne
<1>3. \A s \in StopIds : s.run \in Runs /\ s.from \in Runs
  BY DEF StopIds
<1> QED BY <1>1, <1>2, <1>3 DEF Actors

LEMMA EventFacts ==
  ASSUME NEW actor \in Actors, actor.run \in Runs, NEW st \in Statuses \cup {"same"}
  PROVE  Event(actor, st) \in Events
BY DEF Event, Events

(* The parts of TypeOK that the type of a step's other parts depends on.    *)
LEMMA IdFacts ==
  /\ NoId \notin Ids /\ Runs \subseteq Ids /\ RootIds \subseteq Ids
  /\ \A r \in Runs : r \notin RootIds
  /\ \A g \in 0..MaxCancels : RootId(g) \in RootIds
  /\ \A id \in RootIds : <<id, 1>> \in NodeObjects
  /\ Attempts \subseteq NodeObjects
  /\ \A b \in NodeObjects : b[1] \in Ids /\ b = <<b[1], b[2]>>
<1> USE FleetAssumption DEF Ids
<1>1. \A g \in 0..MaxCancels : RootId(g) \in RootIds
  BY DEF RootIds
<1>2. \A b \in NodeObjects : b[1] \in Ids /\ b = <<b[1], b[2]>>
  BY AttemptFacts DEF NodeObjects
<1> QED BY <1>1, <1>2 DEF NodeObjects

-----------------------------------------------------------------------------
(* drain()                                                                  *)

(* A set of positive numbers without a gap is an interval.                  *)
LEMMA Prefix ==
  ASSUME NEW N \in Nat, NEW S \in SUBSET (1..N),
         \A m \in S : 1..m \subseteq S
  PROVE  /\ Cardinality(S) \in 0..N
         /\ S = 1..Cardinality(S)
<1>1. IsFiniteSet(S) /\ Cardinality(S) \in Nat /\ Cardinality(S) <= N
  <2>1. IsFiniteSet(1..N) /\ Cardinality(1..N) = N
    BY FS_Interval
  <2>2. IsFiniteSet(S) /\ Cardinality(S) <= N
    BY ZenonT(60), <2>1, FS_Subset
  <2> QED BY <2>2, FS_CardinalityType
<1>2. \A m \in S : m <= Cardinality(S)
  <2> TAKE m \in S
  <2>1. Cardinality(1..m) = m
    BY FS_Interval
  <2> QED BY <1>1, <2>1, FS_Subset
<1>3. S \in SUBSET (1..Cardinality(S))
  BY <1>1, <1>2
<1>4. IsFiniteSet(1..Cardinality(S)) /\ Cardinality(1..Cardinality(S)) = Cardinality(S)
  BY <1>1, FS_Interval
<1>5. S = 1..Cardinality(S)
  BY <1>3, <1>4, FS_Subset
<1> QED BY <1>1, <1>5

LEMMA LeastIndex ==
  ASSUME NEW N \in Nat, NEW S \in SUBSET (1..N), S # {}
  PROVE  \E m \in S : \A k \in S : m <= k
<1> DEFINE P == {m \in 1..N : \A k \in 1..m : k \notin S}
           c == Cardinality(P)
<1>1. c \in 0..N /\ P = 1..c
  <2>1. P \in SUBSET (1..N) /\ \A m \in P : 1..m \subseteq P
    OBVIOUS
  <2> HIDE DEF P
  <2> QED BY <2>1, Prefix
<1> HIDE DEF c
<1>2. \A k \in S : k \notin P /\ k > c
  BY <1>1
<1>3. c + 1 \in 1..N /\ c + 1 \notin P
  <2>1. PICK k \in S : TRUE
    OBVIOUS
  <2>2. k \in 1..N /\ k > c
    BY <1>2, <2>1
  <2> HIDE DEF P
  <2> QED BY <1>1, <2>2
<1>4. c + 1 \in S
  <2>1. PICK k \in 1..(c + 1) : k \in S
    BY <1>3
  <2>2. k > c
    BY <1>2, <2>1
  <2> QED BY <1>1, <2>1, <2>2
<1>5. \A k \in S : c + 1 <= k
  BY <1>1, <1>2
<1> QED BY <1>4, <1>5

LEMMA AtMostOneMore ==
  ASSUME NEW S, NEW x, IsFiniteSet(S)
  PROVE  /\ Cardinality(S) \in Nat /\ Cardinality(S \cup {x}) \in Nat
         /\ Cardinality(S \cup {x}) <= Cardinality(S) + 1
<1>1. IsFiniteSet(S \cup {x})
      /\ Cardinality(S \cup {x}) = IF x \in S THEN Cardinality(S) ELSE Cardinality(S) + 1
  BY FS_AddElement
<1>2. Cardinality(S) \in Nat
  BY FS_CardinalityType
<1> QED BY <1>1, <1>2

(* What drain() may launch is the first part of the queue.                  *)
LEMMA LaunchableFirst ==
  ASSUME NEW q \in Seq(Attempts), NEW l, NEW act, NEW fu
  PROVE  /\ Cardinality(Launchable(q, l, act, fu)) \in 0..Len(q)
         /\ Launchable(q, l, act, fu) = 1..Cardinality(Launchable(q, l, act, fu))
<1> DEFINE L == Launchable(q, l, act, fu)
           taken(i) == {q[j][1] : j \in 1..i}
<1>1. Len(q) \in Nat /\ L \in SUBSET (1..Len(q))
  BY DEF Launchable
<1>2. \A m \in L : 1..m \subseteq L
  <2> SUFFICES ASSUME NEW m \in L, NEW k \in 1..m PROVE k \in L
    OBVIOUS
  <2>1. m \in 1..Len(q) /\ ~disposed /\ k \in 1..Len(q) /\ 1..k \subseteq 1..m
    BY <1>1 DEF Launchable
  <2>2. \A i \in 1..m : Slots(l \cup taken(i - 1), act, fu) < Capacity
    BY DEF Launchable
  <2> QED BY <2>1, <2>2 DEF Launchable
<1> HIDE DEF L
<1>3. Cardinality(L) \in 0..Len(q) /\ L = 1..Cardinality(L)
  BY <1>1, <1>2, Prefix
<1> QED BY <1>3 DEF L

(* What drain() does: it launches the first n items, none after dispose(),  *)
(* and does not exceed the capacity.                                        *)
Drained(n, q, l, act, fu, ph, ap) ==
  /\ queue' = SubSeq(q, n + 1, Len(q))
  /\ queue' \in Seq(Attempts) /\ Len(queue') = Len(q) - n
  /\ \A i \in 1..(Len(q) - n) : queue'[i] = q[n + i]
  /\ launching' = l \cup {q[i][1] : i \in 1..n}
  /\ active' = act /\ followUps' = fu
  /\ phase' \in [Attempts -> Phases]
  /\ \A i \in 1..n : phase'[q[i]] \in {"starting", "failing"}
  /\ \A a \in Attempts : (\A i \in 1..n : q[i] # a) => phase'[a] = ph[a]
  /\ appends' \in Seq(Events) /\ (ap # <<>> => appends' # <<>>)
  /\ disposed => n = 0
  /\ Slots(l, act, fu) <= Capacity => Slots(launching', active', followUps') <= Capacity

LEMMA DrainEffect ==
  ASSUME NEW q \in Seq(Attempts), NEW l \in SUBSET Runs, NEW act \in [Runs -> 0..MaxAttempts],
         NEW fu \in SUBSET Runs, NEW ph \in [Attempts -> Phases], NEW ap \in Seq(Events),
         Drain(q, l, act, fu, ph, ap)
  PROVE  \E n \in 0..Len(q) : Drained(n, q, l, act, fu, ph, ap)
<1> DEFINE L == Launchable(q, l, act, fu)
           n == Cardinality(L)
           taken(i) == {q[j][1] : j \in 1..i}
           first(a) == IF Has(tree', a[1]) /\ Object(tree', a[1]) \in aborted'
                         THEN "failing" ELSE "starting"
<1>1. Len(q) \in Nat /\ \A i \in 1..Len(q) : q[i] \in Attempts /\ q[i][1] \in Runs
  BY AttemptFacts
<1>2. n \in 0..Len(q) /\ L = 1..n
  BY LaunchableFirst
<1>3. /\ queue' = SubSeq(q, n + 1, Len(q))
      /\ launching' = l \cup {a[1] : a \in {q[i] : i \in 1..n}}
      /\ active' = act /\ followUps' = fu
      /\ phase' = [a \in Attempts |-> IF a \in {q[i] : i \in 1..n} THEN first(a) ELSE ph[a]]
      /\ appends' = ap \o [i \in 1..n |->
           Event(Exec(q[i]), IF first(q[i]) = "failing" THEN "failed" ELSE "starting")]
  BY DEF Drain
<1> HIDE DEF n, L
<1>4. /\ queue' \in Seq(Attempts) /\ Len(queue') = Len(q) - n
      /\ \A i \in 1..(Len(q) - n) : queue'[i] = q[n + i]
  BY <1>1, <1>2, <1>3
<1>5. launching' = l \cup taken(n)
  BY <1>3
<1>6. \A a : first(a) \in {"starting", "failing"}
  OBVIOUS
<1>7. /\ phase' \in [Attempts -> Phases]
      /\ \A i \in 1..n : phase'[q[i]] \in {"starting", "failing"}
      /\ \A a \in Attempts : (\A i \in 1..n : q[i] # a) => phase'[a] = ph[a]
  <2> HIDE DEF first
  <2>1. {"starting", "failing"} \subseteq Phases
    BY DEF Phases, Executing
  <2>2. phase' = [a \in Attempts |-> IF \E i \in 1..n : q[i] = a THEN first(a) ELSE ph[a]]
    BY <1>3
  <2>3. \A i \in 1..n : q[i] \in Attempts
    BY <1>1, <1>2
  <2>4. phase' \in [Attempts -> Phases]
    BY <2>1, <2>2, <1>6
  <2> QED BY <2>2, <2>3, <2>4, <1>6
<1>8. appends' \in Seq(Events) /\ (ap # <<>> => appends' # <<>>)
  <2> DEFINE started == [i \in 1..n |->
           Event(Exec(q[i]), IF first(q[i]) = "failing" THEN "failed" ELSE "starting")]
  <2>1. \A i \in 1..n : started[i] \in Events
    <3> TAKE i \in 1..n
    <3>1. (IF first(q[i]) = "failing" THEN "failed" ELSE "starting") \in Statuses \cup {"same"}
      BY DEF Statuses, Terminal
    <3>2. q[i] \in Attempts
      BY <1>1, <1>2
    <3>3. Exec(q[i]) \in Actors /\ Exec(q[i]).run \in Runs
      BY <3>2, ActorFacts, AttemptFacts
    <3> HIDE DEF first
    <3> QED BY <3>1, <3>3, EventFacts
  <2>2. started \in Seq(Events)
    <3> HIDE DEF first
    <3>1. started \in [1..n -> Events]
      BY <2>1
    <3> QED BY <3>1, <1>1, <1>2
  <2> HIDE DEF started
  <2>3. appends' = ap \o started
    BY <1>3 DEF started
  <2> QED BY <2>2, <2>3
<1>9. disposed => n = 0
  <2>1. disposed => L = {}
    BY DEF L, Launchable
  <2> QED BY <2>1, <1>2
<1>10. ASSUME Slots(l, act, fu) <= Capacity
       PROVE  Slots(launching', active', followUps') <= Capacity
  <2>1. CASE n = 0
    <3>1. launching' = l
      BY <1>5, <2>1
    <3> QED BY <3>1, <1>3, <1>10
  <2>2. CASE n # 0
    <3> DEFINE before == l \cup taken(n - 1)
               c == Cardinality({r \in Runs : act[r] # 0})
               d == Cardinality(fu)
    <3>1. Slots(before, act, fu) < Capacity
      <4>1. n \in L
        BY <1>2, <2>2
      <4> QED BY <4>1, <1>2, <2>2 DEF L, Launchable
    <3>2. launching' = before \cup {q[n][1]}
      BY <1>2, <1>5, <2>2
    <3>3. IsFiniteSet(Runs)
      BY FleetAssumption
    <3>4. before \in SUBSET Runs
      BY <1>1, <1>2
    <3> HIDE DEF before
    <3>5. Cardinality(before \cup {q[n][1]}) <= Cardinality(before) + 1
          /\ Cardinality(before) \in Nat /\ Cardinality(before \cup {q[n][1]}) \in Nat
      <4>1. IsFiniteSet(before)
        BY <3>3, <3>4, FS_Subset
      <4> QED BY <4>1, AtMostOneMore
    <3>6. c \in Nat /\ d \in Nat
      BY <3>3, FS_Subset, FS_CardinalityType
    <3>7. Slots(before, act, fu) = Cardinality(before) + c + d
          /\ Slots(launching', active', followUps') = Cardinality(before \cup {q[n][1]}) + c + d
      BY <1>3, <3>2 DEF Slots
    <3> HIDE DEF c, d
    <3>8. Capacity \in Nat
      BY FleetAssumption DEF Capacity
    <3> QED BY <3>1, <3>5, <3>6, <3>7, <3>8
  <2> QED BY <2>1, <2>2
<1> QED BY <1>2, <1>3, <1>4, <1>5, <1>7, <1>8, <1>9, <1>10 DEF Drained

-----------------------------------------------------------------------------
(* The type invariant                                                       *)

Roots == \A id \in RootIds : tree[id].n \in {0, 1} /\ tree[id].up = NoId
Shape == TypeOK /\ Roots /\ (reduced => appends # <<>>)

FollowUpRecords == [phase : FollowUpPhases, host : 0..MaxAttempts, abandoned : BOOLEAN]

(* Only the hosts of follow-ups change, or whether one was abandoned.       *)
PhasesStay == \A r \in Runs : followUp'[r].phase = followUp[r].phase

LEMMA DisposeHostType ==
  ASSUME Shape, NEW r \in Runs, DisposeHost(r)
  PROVE  /\ completedHosts' = [completedHosts EXCEPT ![r] = 0]
         /\ completedHosts' \in [Runs -> 0..MaxAttempts]
         /\ followUp' \in [Runs -> FollowUpRecords] /\ PhasesStay
         /\ \A o \in Runs \ {r} : followUp'[o] = followUp[o]
<1>1. /\ completedHosts \in [Runs -> 0..MaxAttempts] /\ 0 \in 0..MaxAttempts
      /\ followUp \in [Runs -> FollowUpRecords]
  BY FleetAssumption DEF Shape, TypeOK, FollowUpRecords
<1>2. /\ completedHosts' = [completedHosts EXCEPT ![r] = 0]
      /\ followUp' = [followUp EXCEPT ![r].host = IF @ = completedHosts[r] THEN 0 ELSE @,
                                      ![r].abandoned = FALSE]
  BY DEF DisposeHost
<1>3. PICK h \in 0..MaxAttempts :
        followUp' = [followUp EXCEPT ![r] = [@ EXCEPT !.host = h, !.abandoned = FALSE]]
  <2> DEFINE h == IF followUp[r].host = completedHosts[r] THEN 0 ELSE followUp[r].host
  <2>1. h \in 0..MaxAttempts
    BY <1>1 DEF FollowUpRecords
  <2>2. followUp' = [followUp EXCEPT ![r] = [@ EXCEPT !.host = h, !.abandoned = FALSE]]
    BY <1>1, <1>2
  <2> QED BY <2>1, <2>2
<1>4. /\ followUp[r] \in FollowUpRecords
      /\ followUp'[r] = [followUp[r] EXCEPT !.host = h, !.abandoned = FALSE]
      /\ \A o \in Runs \ {r} : followUp'[o] = followUp[o]
  BY <1>1, <1>3
<1>5. followUp'[r] \in FollowUpRecords /\ followUp'[r].phase = followUp[r].phase
  BY <1>4 DEF FollowUpRecords
<1>6. followUp' \in [Runs -> FollowUpRecords]
  BY <1>1, <1>3, <1>4, <1>5
<1> QED BY <1>1, <1>2, <1>4, <1>5, <1>6 DEF PhasesStay

LEMMA EmitType ==
  ASSUME NEW ap \in Seq(Events), NEW actor \in Actors, actor.run \in Runs,
         NEW st \in Statuses \cup {"same"}, Emit(ap, actor, st)
  PROVE  appends' \in Seq(Events) /\ appends' # <<>>
<1>1. Event(actor, st) \in Events
  BY EventFacts
<1> QED BY <1>1 DEF Emit

LEMMA TailType ==
  ASSUME Shape, NEW actor, Settled(actor)
  PROVE  appends # <<>> /\ Tail(appends) \in Seq(Events)
BY DEF Shape, TypeOK, Settled

LEMMA FailType ==
  ASSUME Shape, NEW a \in Attempts, NEW ap \in Seq(Events), Fail(a, ap)
  PROVE  phase' \in [Attempts -> Phases] /\ appends' \in Seq(Events) /\ appends' # <<>>
<1>1. Exec(a) \in Actors /\ Exec(a).run \in Runs /\ "failed" \in Statuses \cup {"same"}
  BY AttemptFacts, ActorFacts DEF Statuses, Terminal
<1>2. phase' \in [Attempts -> Phases]
  BY DEF Fail, MoveTo, Shape, TypeOK, Phases, Executing
<1> QED BY <1>1, <1>2, EmitType DEF Fail

LEMMA AnnounceType ==
  ASSUME Shape, NEW a \in Attempts, NEW ap \in Seq(Events), Announce(a, ap)
  PROVE  /\ phase' \in [Attempts -> Phases] /\ appends' \in Seq(Events) /\ appends' # <<>>
         /\ active' \in [Runs -> 0..MaxAttempts] /\ launching' \in SUBSET Runs
<1>1. Exec(a) \in Actors /\ Exec(a).run \in Runs /\ "running" \in Statuses \cup {"same"}
  BY AttemptFacts, ActorFacts DEF Statuses, Terminal
<1>2. phase' \in [Attempts -> Phases]
  BY DEF Announce, MoveTo, Shape, TypeOK, Phases, Executing
<1>3. active' \in [Runs -> 0..MaxAttempts] /\ launching' \in SUBSET Runs
  BY AttemptFacts DEF Announce, Shape, TypeOK
<1> QED BY <1>1, <1>2, <1>3, EmitType DEF Announce

LEMMA AttemptShape ==
  ASSUME Shape, NEW a \in Attempts,
         \/ CatalogReady(a) \/ Started(a) \/ Isolated(a) \/ IsolationFails(a) \/ Announced(a)
         \/ Opened(a) \/ OpenFails(a) \/ Linked(a) \/ WorkDone(a) \/ WorkFails(a)
         \/ Heartbeat(a) \/ Reported(a)
  PROVE  Shape'
<1> USE DEF Shape, TypeOK, Roots, store, attempts, admission, guard, ownership, counters, calls
<1>f. /\ a[1] \in Runs /\ a[2] \in 1..MaxAttempts /\ a[2] \in 0..MaxAttempts
      /\ a \in Runs \X (0..MaxAttempts)
      /\ Exec(a) \in Actors /\ Exec(a).run \in Runs /\ NoOne(a[1]) \in Actors /\ NoOne(a[1]).run \in Runs
      /\ a[1] \in Runs \cup RootIds
  BY AttemptFacts, ActorFacts
<1>p. Executing \cup {"creating"} \subseteq Phases
  BY DEF Phases, Executing
<1>s. {"queued", "starting", "running", "completed", "failed", "same"} \subseteq Statuses \cup {"same"}
  BY DEF Statuses, Terminal
<1>1. CASE CatalogReady(a)
  BY <1>1, <1>f, <1>p, <1>s, EmitType, FailType, AnnounceType, TailType DEF CatalogReady, Emit, Executing
<1>2. CASE Started(a)
  <2>t. Tail(appends) \in Seq(Events) /\ ~reduced'
    BY <1>2, TailType DEF Started
  <2>1. CASE SignalAborted(a[1])
    BY <2>1, <2>t, <1>2, FailType DEF Started
  <2>2. CASE ~SignalAborted(a[1]) /\ Isolation[a[1]] = "read-only"
    BY <2>2, <2>t, <1>2, AnnounceType DEF Started
  <2>3. CASE ~SignalAborted(a[1]) /\ Isolation[a[1]] # "read-only"
    <3>1. phase' \in [Attempts -> Phases]
      BY <2>3, <1>2, <1>p DEF Started, MoveTo, Executing
    <3>2. signal' \in [Attempts -> 0..MaxAttempts]
      BY ZenonT(60), <2>3, <1>2, <1>f DEF Started
    <3> QED BY <3>1, <3>2, <2>3, <2>t, <1>2 DEF Started
  <2> QED BY <2>1, <2>2, <2>3
<1>3. CASE Isolated(a)
  <2>1. lock' \subseteq Runs \X (0..MaxAttempts) /\ locks' \subseteq Runs
    BY SMTT(30), <1>3, <1>f DEF Isolated
  <2>2. CASE SignalAborted(a[1])
    BY <2>1, <2>2, <1>3, FailType DEF Isolated
  <2>3. CASE ~SignalAborted(a[1])
    BY <2>1, <2>3, <1>3, AnnounceType DEF Isolated
  <2> QED BY <2>2, <2>3
<1>4. CASE IsolationFails(a)
  BY <1>4, <1>f, <1>p, <1>s, EmitType, FailType, AnnounceType, TailType DEF IsolationFails, MoveTo, Executing
<1>5. CASE Announced(a)
  BY <1>5, <1>f, <1>p, <1>s, EmitType, FailType, AnnounceType, TailType DEF Announced, MoveTo, Executing
<1>6. CASE Opened(a)
  <2>1. CASE CapturedAborted(a) \/ ~Has(tree, a[1])
    BY <2>1, <1>6, FailType DEF Opened
  <2>2. CASE ~(CapturedAborted(a) \/ ~Has(tree, a[1]))
    <3>1. appends' \in Seq(Events) /\ appends' # <<>>
      BY <2>2, <1>6, <1>f, <1>s, EmitType DEF Opened
    <3> QED BY ZenonT(60), <3>1, <2>2, <1>6, <1>p DEF Opened, MoveTo, Executing
  <2> QED BY <2>1, <2>2
<1>7. CASE OpenFails(a)
  BY <1>7, <1>f, <1>p, <1>s, EmitType, FailType, AnnounceType, TailType DEF OpenFails, MoveTo, Executing
<1>8. CASE Linked(a)
  BY <1>8, <1>f, <1>p, <1>s, EmitType, FailType, AnnounceType, TailType DEF Linked, MoveTo, Executing
<1>9. CASE WorkDone(a)
  BY <1>9, <1>f, <1>p, <1>s, EmitType, FailType, AnnounceType, TailType DEF WorkDone, MoveTo, Executing
<1>10. CASE WorkFails(a)
  BY <1>10, <1>f, <1>p, <1>s, EmitType, FailType, AnnounceType, TailType DEF WorkFails, MoveTo, Executing
<1>11. CASE Heartbeat(a)
  BY <1>11, <1>f, <1>p, <1>s, EmitType, FailType, AnnounceType, TailType DEF Heartbeat, Executing
<1>12. CASE Reported(a)
  BY <1>12, <1>f, <1>p, <1>s, EmitType, FailType, AnnounceType, TailType DEF Reported, MoveTo, Release, Executing
<1> QED BY <1>1, <1>2, <1>3, <1>4, <1>5, <1>6, <1>7, <1>8, <1>9, <1>10, <1>11, <1>12

(* The tree: what create() and remove() return.                             *)
TreeOK(t) ==
  /\ t \in [Runs \cup RootIds -> [n : 0..MaxAttempts, up : Runs \cup RootIds \cup {NoId}]]
  /\ \A id \in RootIds : t[id].n \in {0, 1} /\ t[id].up = NoId

LEMMA TreeType ==
  ASSUME NEW t, TreeOK(t)
  PROVE  /\ \A id \in Runs \cup RootIds : TreeOK(Remove(t, id))
         /\ \A id \in Runs, n \in 0..MaxAttempts, up \in Runs \cup RootIds \cup {NoId} :
              TreeOK(Create(t, id, n, up))
         /\ \A g \in 0..MaxCancels : TreeOK(Create(t, RootId(g), 1, NoId))
         /\ \A id \in Runs \cup RootIds : Has(t, id) => Object(t, id) \in NodeObjects
         /\ \A id \in Runs : Children(t, id) \subseteq Runs
         /\ \A id : Subtree(t, id) \subseteq Runs \cup RootIds
<1>a. FleetAssumption
  BY FleetAssumption
<1>1. ASSUME NEW id \in Runs \cup RootIds PROVE TreeOK(Remove(t, id))
  <2>1. CASE ~Has(t, id)
    BY <2>1 DEF Remove
  <2>2. CASE Has(t, id)
    <3>1. \A c \in Children(t, id) : c \in Runs
      BY IdFacts DEF TreeOK, Children, Ids
    <3>2. Absent \in [n : 0..MaxAttempts, up : Runs \cup RootIds \cup {NoId}]
      BY <1>a DEF Absent, FleetAssumption
    <3> QED BY <3>1, <3>2, <2>2, <1>a DEF Remove, TreeOK, Absent, FleetAssumption
  <2> QED BY <2>1, <2>2
<1>2. ASSUME NEW id \in Runs, NEW n \in 0..MaxAttempts, NEW up \in Runs \cup RootIds \cup {NoId}
      PROVE  TreeOK(Create(t, id, n, up))
  BY <1>a DEF TreeOK, Create, FleetAssumption
<1>3. ASSUME NEW g \in 0..MaxCancels PROVE TreeOK(Create(t, RootId(g), 1, NoId))
  BY IdFacts, <1>a DEF TreeOK, Create, FleetAssumption
<1>4. ASSUME NEW id \in Runs \cup RootIds, Has(t, id) PROVE Object(t, id) \in NodeObjects
  BY <1>4, IdFacts, AttemptFacts DEF TreeOK, Has, Object
<1>5. ASSUME NEW id \in Runs PROVE Children(t, id) \subseteq Runs
  BY <1>a DEF Children, TreeOK, FleetAssumption
<1>6. ASSUME NEW id PROVE Subtree(t, id) \subseteq Runs \cup RootIds
  BY DEF Subtree, TreeOK
<1> QED BY <1>1, <1>2, <1>3, <1>4, <1>5, <1>6

LEMMA DrainType ==
  ASSUME NEW q \in Seq(Attempts), NEW l \in SUBSET Runs, NEW act \in [Runs -> 0..MaxAttempts],
         NEW fu \in SUBSET Runs, NEW ph \in [Attempts -> Phases], NEW ap \in Seq(Events),
         Drain(q, l, act, fu, ph, ap)
  PROVE  /\ queue' \in Seq(Attempts) /\ launching' \subseteq Runs
         /\ active' \in [Runs -> 0..MaxAttempts] /\ followUps' \subseteq Runs
         /\ phase' \in [Attempts -> Phases]
         /\ appends' \in Seq(Events) /\ (ap # <<>> => appends' # <<>>)
<1>1. PICK n \in 0..Len(q) : Drained(n, q, l, act, fu, ph, ap)
  BY DrainEffect
<1>2. \A i \in 1..n : q[i][1] \in Runs
  BY AttemptFacts
<1>3. /\ queue' \in Seq(Attempts) /\ active' \in [Runs -> 0..MaxAttempts]
      /\ followUps' \subseteq Runs
  BY <1>1 DEF Drained
<1>4. launching' \subseteq Runs
  BY <1>1, <1>2 DEF Drained
<1>5. phase' \in [Attempts -> Phases]
  BY <1>1 DEF Drained
<1>6. appends' \in Seq(Events) /\ (ap # <<>> => appends' # <<>>)
  BY <1>1 DEF Drained
<1> QED BY <1>3, <1>4, <1>5, <1>6

LEMMA ShapeTree ==
  ASSUME Shape
  PROVE  TreeOK(tree)
BY DEF Shape, TypeOK, Roots, TreeOK

LEMMA AttachType ==
  ASSUME Shape, NEW a \in Attempts, NEW ap \in Seq(Events), AttachTo(a, ap)
  PROVE  /\ TreeOK(tree') /\ aborted' \subseteq NodeObjects /\ linked' \subseteq Attempts
         /\ queue' \in Seq(Attempts) /\ launching' \subseteq Runs
         /\ active' \in [Runs -> 0..MaxAttempts] /\ followUps' \subseteq Runs
         /\ phase' \in [Attempts -> Phases]
         /\ appends' \in Seq(Events) /\ (ap # <<>> => appends' # <<>>)
<1> DEFINE t == Remove(tree, a[1])
           adopted == Has(t, owner[a][1]) /\ Object(t, owner[a][1]) = owner[a]
           up == IF adopted THEN owner[a][1] ELSE NoId
<1>1. a[1] \in Runs /\ a[2] \in 0..MaxAttempts /\ owner[a] \in NodeObjects /\ a \in NodeObjects
  BY AttemptFacts, IdFacts DEF Shape, TypeOK
<1>2. TreeOK(t)
  BY <1>1, ShapeTree, TreeType
<1>3. TreeOK(tree')
  <2>1. up \in Runs \cup RootIds \cup {NoId}
    BY <1>1, IdFacts DEF Ids
  <2>2. tree' = Create(t, a[1], a[2], up)
    BY DEF AttachTo
  <2> HIDE DEF t, up
  <2> QED BY <2>1, <2>2, <1>1, <1>2, TreeType
<1>4. aborted' \subseteq NodeObjects /\ linked' \subseteq Attempts
  <2>1. aborted \subseteq NodeObjects /\ linked \subseteq Attempts
    BY DEF Shape, TypeOK
  <2>2. aborted' \in {aborted, aborted \cup {a}} /\ linked' \subseteq linked
    BY DEF AttachTo, LinkedWithout
  <2> QED BY <2>1, <2>2, <1>1
<1>5. /\ Append(queue, a) \in Seq(Attempts) /\ launching \in SUBSET Runs
      /\ active \in [Runs -> 0..MaxAttempts] /\ followUps \in SUBSET Runs
      /\ [phase EXCEPT ![a] = "queued"] \in [Attempts -> Phases]
  BY DEF Shape, TypeOK, Phases
<1>6. Drain(Append(queue, a), launching, active, followUps, [phase EXCEPT ![a] = "queued"], ap)
  BY DEF AttachTo
<1>7. /\ queue' \in Seq(Attempts) /\ launching' \subseteq Runs
      /\ active' \in [Runs -> 0..MaxAttempts] /\ followUps' \subseteq Runs
      /\ phase' \in [Attempts -> Phases]
      /\ appends' \in Seq(Events) /\ (ap # <<>> => appends' # <<>>)
  BY ZenonT(60), <1>5, <1>6, DrainType
<1> QED BY <1>3, <1>4, <1>7

LEMMA AbortedSubtree ==
  ASSUME Shape, NEW id
  PROVE  Objects(tree, Subtree(tree, id)) \subseteq NodeObjects
<1>1. \A c \in Subtree(tree, id) : c \in Runs \cup RootIds /\ Has(tree, c)
  BY ShapeTree, TreeType DEF Subtree
<1> QED BY <1>1, ShapeTree, TreeType DEF Objects

LEMMA BoundaryShape ==
  ASSUME Shape, NEW a \in Attempts,
         Created(a) \/ Attach(a) \/ Unwound(a)
  PROVE  Shape'
<1>f. a[1] \in Runs
  BY AttemptFacts
<1>1. CASE Created(a)
  <2>t. Tail(appends) \in Seq(Events) /\ ~reduced'
    BY <1>1, TailType DEF Created
  <2>c. completedHosts' \in [Runs -> 0..MaxAttempts] /\ followUp' \in [Runs -> FollowUpRecords]
    BY <1>1, <1>f, DisposeHostType DEF Created
  <2>1. CASE Has(tree, a[1])
    <3>1. phase' \in [Attempts -> Phases]
      BY <1>1, <2>1 DEF Created, Shape, TypeOK, Phases
    <3>2. aborted' \subseteq NodeObjects
      BY <1>1, <2>1, AbortedSubtree DEF Created, Shape, TypeOK
    <3> QED BY <3>1, <3>2, <1>1, <2>1, <2>t, <2>c
            DEF Created, Shape, TypeOK, Roots, FollowUpRecords, admission, guard, calls, counters
  <2>2. CASE ~Has(tree, a[1])
    <3>1. AttachTo(a, Tail(appends))
      BY <1>1, <2>2 DEF Created
    <3> QED BY <3>1, <1>1, <2>2, <2>t, <2>c, AttachType
            DEF Created, Shape, TypeOK, Roots, FollowUpRecords, TreeOK, guard, calls, counters
  <2> QED BY <2>1, <2>2
<1>2. CASE Attach(a)
  <2>1. AttachTo(a, appends) /\ appends \in Seq(Events)
    BY <1>2 DEF Attach, Shape, TypeOK
  <2> QED BY ZenonT(60), <1>2, <2>1, AttachType
          DEF Attach, Shape, TypeOK, Roots, TreeOK, guard, calls, counters
<1>3. CASE Unwound(a)
  <2> DEFINE act == [active EXCEPT ![a[1]] = 0]
             ph == [phase EXCEPT ![a] = "done"]
  <2>1. TreeOK(tree') /\ linked' \subseteq Attempts
    <3>1. tree' = tree \/ tree' = Remove(tree, a[1])
      BY <1>3 DEF Unwound
    <3>2. linked' \subseteq linked
      BY <1>3 DEF Unwound, LinkedWithout
    <3>3. TreeOK(tree) /\ TreeOK(Remove(tree, a[1]))
      BY <1>f, ShapeTree, TreeType
    <3> QED BY <3>1, <3>2, <3>3 DEF Shape, TypeOK
  <2>2. Drain(queue, launching \ {a[1]}, act, followUps, ph, appends)
    BY <1>3 DEF Unwound
  <2>3. act \in [Runs -> 0..MaxAttempts] /\ ph \in [Attempts -> Phases]
    <3>1. 0 \in 0..MaxAttempts /\ "done" \in Phases
      BY FleetAssumption DEF Phases
    <3>2. active \in [Runs -> 0..MaxAttempts] /\ phase \in [Attempts -> Phases]
      BY DEF Shape, TypeOK
    <3> QED BY <3>1, <3>2
  <2>4. signal' \in [Attempts -> 0..MaxAttempts]
    BY <1>3, FleetAssumption DEF Unwound, Shape, TypeOK
  <2>5. /\ queue' \in Seq(Attempts) /\ launching' \subseteq Runs
        /\ active' \in [Runs -> 0..MaxAttempts] /\ followUps' \subseteq Runs
        /\ phase' \in [Attempts -> Phases]
        /\ appends' \in Seq(Events) /\ (appends # <<>> => appends' # <<>>)
    <3> HIDE DEF act, ph
    <3>1. /\ queue \in Seq(Attempts) /\ launching \ {a[1]} \in SUBSET Runs
          /\ followUps \in SUBSET Runs /\ appends \in Seq(Events)
      BY DEF Shape, TypeOK
    <3> QED BY <2>2, <2>3, <3>1, DrainType
  <2> QED BY <1>3, <2>1, <2>4, <2>5
          DEF Unwound, Shape, TypeOK, Roots, TreeOK, guard, calls, counters
<1> QED BY <1>1, <1>2, <1>3

LEMMA SpawnShape ==
  ASSUME Shape, NEW r \in Runs, NEW k \in 1..MaxAttempts, BeginSpawn(r, k)
  PROVE  Shape'
<1>1. <<r, k>> \in Attempts /\ ParentId(r) \in Runs \cup RootIds
  <2>1. root \in 0..MaxCancels
    BY DEF Shape, TypeOK
  <2> QED BY <2>1, AttemptFacts, IdFacts, FleetAssumption DEF ParentId, Ids
<1>2. Object(tree, ParentId(r)) \in NodeObjects
  BY <1>1, ShapeTree, TreeType DEF BeginSpawn
<1>3. owner' \in [Attempts -> NodeObjects]
  BY <1>2 DEF BeginSpawn, Shape, TypeOK
<1>4. phase' \in [Attempts -> Phases]
  BY DEF BeginSpawn, Shape, TypeOK, Phases
<1> QED BY <1>3, <1>4
        DEF BeginSpawn, Shape, TypeOK, Roots, store, admission, guard, ownership, calls, counters

LEMMA StoreShape ==
  ASSUME Shape, Reduce \/ \E r \in Runs : Wait(r)
  PROVE  Shape'
<1>1. CASE Reduce
  <2>1. Head(appends) \in Events /\ Tail(appends) \in Seq(Events) /\ appends \in Seq(Events)
    BY <1>1 DEF Reduce, Shape, TypeOK
  <2>2. status' \in [Runs -> Statuses]
    <3>1. CASE Head(appends).status = "same"
      BY <1>1, <3>1 DEF Reduce, Shape, TypeOK
    <3>2. CASE Head(appends).status # "same"
      <4>1. Head(appends).run \in Runs /\ Head(appends).status \in Statuses
        BY <2>1, <3>2 DEF Events
      <4> QED BY <1>1, <3>2, <4>1 DEF Reduce, Shape, TypeOK
    <3> QED BY <3>1, <3>2
  <2> QED BY <1>1, <2>1, <2>2
          DEF Reduce, Shape, TypeOK, Roots, attempts, admission, guard, ownership, calls, counters
<1>2. ASSUME NEW r \in Runs, Wait(r) PROVE Shape'
  BY <1>2 DEF Wait, Shape, TypeOK, Roots, store, attempts, admission, guard, ownership, calls, counters
<1> QED BY <1>1, <1>2

LEMMA FollowUpType ==
  ASSUME Shape, NEW r \in Runs
  PROVE  /\ \A p \in FollowUpPhases : FollowUpAt(r, p) =>
              followUp' \in [Runs -> FollowUpRecords]
         /\ [followUp EXCEPT ![r] = NoFollowUp]
              \in [Runs -> FollowUpRecords]
         /\ \A st \in {"running", "completed", "failed"} :
              Event(FollowUp(r), st) \in Events
<1>1. followUp \in [Runs -> FollowUpRecords]
  BY DEF Shape, TypeOK, FollowUpRecords
<1>2. ASSUME NEW p \in FollowUpPhases, FollowUpAt(r, p)
      PROVE  followUp' \in [Runs -> FollowUpRecords]
  BY <1>1, <1>2 DEF FollowUpAt, FollowUpRecords
<1>3. NoFollowUp \in FollowUpRecords
  BY FleetAssumption DEF NoFollowUp, FollowUpPhases, FollowUpRecords
<1>4. \A st \in {"running", "completed", "failed"} : Event(FollowUp(r), st) \in Events
  BY ActorFacts, EventFacts DEF Statuses, Terminal
<1> QED BY <1>1, <1>2, <1>3, <1>4

LEMMA FollowUpShape ==
  ASSUME Shape, NEW r \in Runs, FollowUpStep(r) \/ Send(r)
  PROVE  Shape'
<1> DEFINE F == followUp' \in [Runs -> FollowUpRecords]
           A == appends' \in Seq(Events) /\ (reduced' => appends' # <<>>)
           C == completedHosts' \in [Runs -> 0..MaxAttempts]
           L == lock' \subseteq Runs \X (0..MaxAttempts) /\ locks' \subseteq Runs
           D == /\ queue' \in Seq(Attempts) /\ launching' \subseteq Runs
                /\ active' \in [Runs -> 0..MaxAttempts] /\ followUps' \subseteq Runs
                /\ phase' \in [Attempts -> Phases]
<1>p. {"none", "slot", "locking", "announcing", "working", "reporting", "failing"} \subseteq FollowUpPhases
  BY DEF FollowUpPhases
<1>r. <<r, 0>> \in Runs \X (0..MaxAttempts) /\ 0 \in 0..MaxAttempts
  BY FleetAssumption
<1>t. /\ appends \in Seq(Events) /\ (reduced => appends # <<>>)
      /\ lock \subseteq Runs \X (0..MaxAttempts) /\ locks \subseteq Runs
      /\ completedHosts \in [Runs -> 0..MaxAttempts]
      /\ queue \in Seq(Attempts) /\ launching \subseteq Runs /\ followUps \subseteq Runs
      /\ active \in [Runs -> 0..MaxAttempts] /\ phase \in [Attempts -> Phases]
      /\ followUp \in [Runs -> FollowUpRecords]
  BY DEF Shape, TypeOK, FollowUpRecords
<1>e. \A e \in Events : Append(appends, e) \in Seq(Events) /\ Append(appends, e) # <<>>
  <2> TAKE e \in Events
  <2>1. appends \in Seq(Events)
    BY <1>t
  <2>2. Append(appends, e) \in Seq(Events) /\ Len(Append(appends, e)) = Len(appends) + 1
    BY <2>1
  <2>3. Len(appends) \in Nat /\ Len(<<>>) = 0
    BY <2>1
  <2> QED BY <2>2, <2>3
<1>d. ASSUME NEW ap \in Seq(Events), Drain(queue, launching, active, followUps \ {r}, phase, ap)
      PROVE  D /\ appends' \in Seq(Events) /\ (ap # <<>> => appends' # <<>>)
  BY <1>d, <1>t, DrainType
<1>1. CASE Send(r)
  <2>1. F
    <3>1. followUp' = [followUp EXCEPT ![r].phase = "slot", ![r].host = completedHosts[r]]
      BY <1>1 DEF Send
    <3> QED BY <3>1, <1>p, <1>t DEF FollowUpRecords
  <2> QED BY <1>1, <2>1 DEF Send, Shape, TypeOK, Roots, FollowUpRecords,
                            store, attempts, admission, guard, ownership, calls
<1>2. CASE FollowUpAdmitted(r)
  <2>1. F /\ A
    BY <1>2, <1>p, <1>t, <1>e, FollowUpType DEF FollowUpAdmitted, Emit
  <2> QED BY <1>2, <2>1 DEF FollowUpAdmitted, Shape, TypeOK, Roots, FollowUpRecords,
                            attempts, guard, ownership, calls, counters
<1>3. CASE FollowUpDropped(r)
  <2>1. F
    <3>1. followUp' = [followUp EXCEPT ![r].phase = "none", ![r].host = 0]
      BY <1>3 DEF FollowUpDropped
    <3> QED BY <3>1, <1>p, <1>r, <1>t DEF FollowUpRecords
  <2> QED BY <1>3, <2>1 DEF FollowUpDropped, Shape, TypeOK, Roots, FollowUpRecords,
                            store, attempts, admission, guard, ownership, calls, counters
<1>4. CASE FollowUpLocked(r)
  <2>1. F /\ A
    BY <1>4, <1>p, <1>t, <1>e, FollowUpType DEF FollowUpLocked, Emit
  <2>2. L
    BY <1>4, <1>t, <1>r DEF FollowUpLocked
  <2> QED BY <1>4, <2>1, <2>2 DEF FollowUpLocked, Shape, TypeOK, Roots, FollowUpRecords,
                                  attempts, admission, ownership, calls, counters
<1>5. CASE FollowUpLockFails(r)
  <2>1. F /\ A
    BY <1>5, <1>p, <1>t, <1>e, FollowUpType DEF FollowUpLockFails, Emit
  <2> QED BY <1>5, <2>1 DEF FollowUpLockFails, Shape, TypeOK, Roots, FollowUpRecords,
                            attempts, admission, guard, ownership, calls, counters
<1>6. CASE FollowUpStarts(r)
  <2>1. F /\ A
    BY <1>6, <1>p, TailType, FollowUpType DEF FollowUpStarts
  <2> QED BY <1>6, <2>1 DEF FollowUpStarts, Shape, TypeOK, Roots, FollowUpRecords,
                            attempts, admission, guard, ownership, calls, counters
<1>7. CASE FollowUpDone(r)
  <2> DEFINE ap == Append(appends, Event(FollowUp(r), "completed"))
  <2>1. ap \in Seq(Events) /\ ap # <<>>
    BY <1>e, FollowUpType
  <2>2. Drain(queue, launching, active, followUps \ {r}, phase, ap)
    BY <1>7 DEF FollowUpDone
  <2> HIDE DEF ap
  <2>3. D /\ A
    BY <2>1, <2>2, <1>d
  <2>4. F
    BY <1>7, <1>p, FollowUpType DEF FollowUpDone
  <2>5. L
    BY <1>7, <1>t DEF FollowUpDone, Release
  <2> QED BY <1>7, <2>3, <2>4, <2>5 DEF FollowUpDone, Shape, TypeOK, Roots, FollowUpRecords,
                                        ownership, calls, counters
<1>8. CASE FollowUpFails(r)
  <2>1. F /\ A
    BY <1>8, <1>p, <1>t, <1>e, FollowUpType DEF FollowUpFails, Emit
  <2> QED BY <1>8, <2>1 DEF FollowUpFails, Shape, TypeOK, Roots, FollowUpRecords,
                            attempts, admission, guard, ownership, calls, counters
<1>9. CASE FollowUpReported(r)
  <2>1. F /\ A
    BY <1>9, TailType, FollowUpType DEF FollowUpReported
  <2> QED BY <1>9, <2>1 DEF FollowUpReported, Shape, TypeOK, Roots, FollowUpRecords,
                            attempts, admission, guard, ownership, calls, counters
<1>10. CASE FollowUpFailed(r)
  <2>1. Tail(appends) \in Seq(Events) /\ ~reduced'
    BY <1>10, TailType DEF FollowUpFailed
  <2>2. Drain(queue, launching, active, followUps \ {r}, phase, Tail(appends))
    BY <1>10 DEF FollowUpFailed
  <2>3. D /\ A
    BY <2>1, <2>2, <1>d
  <2>4. F
    BY <1>10, FollowUpType DEF FollowUpFailed
  <2>5. C /\ L
    BY <1>10, <1>t, <1>r DEF FollowUpFailed, Release
  <2> QED BY <1>10, <2>3, <2>4, <2>5 DEF FollowUpFailed, Shape, TypeOK, Roots, FollowUpRecords,
                                         ownership, calls, counters
<1>11. CASE FollowUpAbandoned(r)
  <2> DEFINE ap == IF followUp[r].phase = "announcing" THEN Tail(appends) ELSE appends
  <2>1. ap \in Seq(Events) /\ (reduced' => ap # <<>>)
    <3>1. CASE followUp[r].phase = "announcing"
      BY <1>11, <3>1, TailType DEF FollowUpAbandoned
    <3>2. CASE followUp[r].phase # "announcing"
      BY <1>11, <1>t, <3>2 DEF FollowUpAbandoned
    <3> QED BY <3>1, <3>2
  <2>2. Drain(queue, launching, active, followUps \ {r}, phase, ap)
    BY <1>11 DEF FollowUpAbandoned
  <2> HIDE DEF ap
  <2>3. D /\ A
    BY <2>1, <2>2, <1>d
  <2>4. F
    <3>1. followUp' = [followUp EXCEPT ![r] = [phase |-> "none", host |-> 0,
                         abandoned |-> @.abandoned \/ @.phase # "locking"]]
      BY <1>11 DEF FollowUpAbandoned
    <3> QED BY <3>1, <1>p, <1>r, <1>t DEF FollowUpRecords
  <2>5. L /\ reduced' \in BOOLEAN
    BY <1>11, <1>t DEF FollowUpAbandoned, Release, Shape, TypeOK
  <2> QED BY <1>11, <2>3, <2>4, <2>5 DEF FollowUpAbandoned, Shape, TypeOK, Roots, FollowUpRecords,
                                         ownership, calls, counters
<1> QED BY <1>1, <1>2, <1>3, <1>4, <1>5, <1>6, <1>7, <1>8, <1>9, <1>10, <1>11 DEF FollowUpStep

(* The queue without one of its items.                                      *)
LEMMA QueueWithout ==
  ASSUME NEW q \in Seq(Attempts), NEW m \in 1..Len(q)
  PROVE  LET w == SubSeq(q, 1, m - 1) \o SubSeq(q, m + 1, Len(q))
         IN  /\ w \in Seq(Attempts) /\ Len(w) = Len(q) - 1
             /\ \A i \in 1..Len(w) : w[i] = IF i < m THEN q[i] ELSE q[i + 1]
<1> DEFINE u == SubSeq(q, 1, m - 1)
           v == SubSeq(q, m + 1, Len(q))
<1>0. Len(q) \in Nat /\ m \in Nat /\ 1 <= m /\ m <= Len(q)
  OBVIOUS
<1>1. u \in Seq(Attempts) /\ Len(u) = m - 1 /\ \A i \in 1..(m - 1) : u[i] = q[i]
  OBVIOUS
<1>2. /\ v \in Seq(Attempts) /\ Len(v) = Len(q) - m
      /\ \A i \in 1..(Len(q) - m) : v[i] = q[m + i]
  OBVIOUS
<1> HIDE DEF u, v
<1>3. u \o v \in Seq(Attempts) /\ Len(u \o v) = Len(q) - 1
  <2>1. u \in Seq(Attempts) /\ v \in Seq(Attempts) /\ Len(u) = m - 1 /\ Len(v) = Len(q) - m
    BY <1>1, <1>2
  <2>2. u \o v \in Seq(Attempts) /\ Len(u \o v) = Len(u) + Len(v)
    BY <2>1, ConcatProperties
  <2>3. (m - 1) + (Len(q) - m) = Len(q) - 1
    BY <1>0
  <2> QED BY <2>1, <2>2, <2>3
<1>4. ASSUME NEW i \in 1..(Len(q) - 1), i < m PROVE (u \o v)[i] = q[i]
  BY <1>0, <1>1, <1>2, <1>4
<1>5. ASSUME NEW i \in 1..(Len(q) - 1), ~(i < m) PROVE (u \o v)[i] = q[i + 1]
  <2>1. (u \o v)[i] = v[i - (m - 1)]
    BY <1>0, <1>1, <1>2, <1>5
  <2>2. i - (m - 1) \in 1..(Len(q) - m) /\ m + (i - (m - 1)) = i + 1
    BY <1>0, <1>5
  <2> QED BY <2>1, <2>2, <1>2
<1>6. \A i \in 1..Len(u \o v) : (u \o v)[i] = IF i < m THEN q[i] ELSE q[i + 1]
  BY <1>3, <1>4, <1>5
<1> QED BY <1>3, <1>6 DEF u, v

(* Which item stop() takes out of the queue: the first of its run.          *)
LEMMA StopCancelsEffect ==
  ASSUME Shape, NEW s \in StopIds, StopCancels(s)
  PROVE  \/ /\ \A i \in 1..Len(queue) : queue[i][1] # s.run
            /\ UNCHANGED <<queue, phase>>
         \/ \E m \in 1..Len(queue) :
              /\ queue[m][1] = s.run
              /\ queue' \in Seq(Attempts) /\ Len(queue') = Len(queue) - 1
              /\ \A i \in 1..Len(queue') : queue'[i] = IF i < m THEN queue[i] ELSE queue[i + 1]
              /\ phase' = [phase EXCEPT ![queue[m]] = "done"]
<1> DEFINE items == {i \in DOMAIN queue : queue[i][1] = s.run}
           first == CHOOSE i \in items : \A j \in items : i <= j
<1>q. queue \in Seq(Attempts) /\ DOMAIN queue = 1..Len(queue) /\ Len(queue) \in Nat
  BY DEF Shape, TypeOK
<1>1. CASE items = {}
  BY <1>1, <1>q DEF StopCancels
<1>2. CASE items # {}
  <2>1. first \in items
    <3>1. items \in SUBSET (1..Len(queue)) /\ items # {}
      BY <1>2, <1>q
    <3> HIDE DEF items
    <3>2. \E m \in items : \A k \in items : m <= k
      BY <3>1, <1>q, LeastIndex
    <3> QED BY <3>2
  <2>2. /\ queue' = SubSeq(queue, 1, first - 1) \o SubSeq(queue, first + 1, Len(queue))
        /\ phase' = [phase EXCEPT ![queue[first]] = "done"]
    BY <1>2 DEF StopCancels, MoveTo
  <2>3. first \in 1..Len(queue) /\ queue[first][1] = s.run
    BY <2>1, <1>q
  <2> HIDE DEF first
  <2>4. /\ queue' \in Seq(Attempts) /\ Len(queue') = Len(queue) - 1
        /\ \A i \in 1..Len(queue') : queue'[i] = IF i < first THEN queue[i] ELSE queue[i + 1]
    BY <2>2, <2>3, <1>q, QueueWithout
  <2> QED BY <2>2, <2>3, <2>4
<1> QED BY <1>1, <1>2

StopRecords == [phase : {"idle", "children", "cleanup", "reporting"},
                kids : SUBSET Runs, wasQueued : BOOLEAN, before : SUBSET Attempts]

LEMMA BeginStopsType ==
  ASSUME Shape, NEW runs, NEW via, BeginStops(runs, via)
  PROVE  stop' \in [StopIds -> StopRecords]
<1>1. \A s \in StopIds :
        [phase |-> "children", kids |-> Children(tree, s.run), wasQueued |-> FALSE,
         before |-> {a \in Attempts : \E id \in Subtree(tree, s.run) : a = Object(tree, id)}]
           \in StopRecords
  BY ActorFacts, ShapeTree, TreeType DEF StopRecords
<1>2. stop \in [StopIds -> StopRecords]
  BY DEF Shape, TypeOK, StopRecords
<1> QED BY <1>1, <1>2 DEF BeginStops

LEMMA StopReturnsType ==
  ASSUME Shape, NEW s \in StopIds, NEW waited, StopReturns(s, waited)
  PROVE  /\ stop' \in [StopIds -> StopRecords] /\ waiters' \subseteq Runs
         /\ TreeOK(tree') /\ linked' \subseteq Attempts
<1>1. stop' \in [StopIds -> StopRecords]
  BY DEF StopReturns, StopIdle, Shape, TypeOK, StopRecords
<1>2. waiters' \subseteq Runs /\ linked' \subseteq Attempts
  BY DEF StopReturns, LinkedWithout, Shape, TypeOK
<1>3. tree' = tree \/ tree' = Remove(tree, s.run)
  BY DEF StopReturns
<1>4. TreeOK(tree) /\ TreeOK(Remove(tree, s.run))
  BY ActorFacts, ShapeTree, TreeType
<1> QED BY <1>1, <1>2, <1>3, <1>4

LEMMA StopShape ==
  ASSUME Shape, (\E s \in StopIds : StopStep(s)) \/ (\E r \in Runs : Stop(r))
  PROVE  Shape'
<1>1. ASSUME NEW r \in Runs, Stop(r) PROVE Shape'
  <2>1. stop' \in [StopIds -> StopRecords]
    BY <1>1, BeginStopsType DEF Stop
  <2> QED BY <1>1, <2>1 DEF Stop, StopRecords, Shape, TypeOK, Roots,
                            store, attempts, admission, guard, ownership
<1>2. ASSUME NEW s \in StopIds, StopCancels(s) PROVE Shape'
  <2>1. queue' \in Seq(Attempts) /\ phase' \in [Attempts -> Phases]
    BY <1>2, StopCancelsEffect DEF Shape, TypeOK, Phases
  <2>2. aborted' \subseteq NodeObjects
    BY <1>2, AbortedSubtree DEF StopCancels, Shape, TypeOK
  <2>3. stop' \in [StopIds -> StopRecords]
    <3>1. stop \in [StopIds -> StopRecords]
      BY DEF Shape, TypeOK, StopRecords
    <3>2. stop' = [stop EXCEPT ![s].phase = "cleanup",
                     ![s].wasQueued = {i \in DOMAIN queue : queue[i][1] = s.run} # {}]
      BY <1>2 DEF StopCancels
    <3> DEFINE some == {i \in DOMAIN queue : queue[i][1] = s.run} # {}
               new  == [stop[s] EXCEPT !.phase = "cleanup", !.wasQueued = some]
    <3>3. stop[s] \in StopRecords /\ some \in BOOLEAN
      BY <3>1
    <3>4. stop' = [stop EXCEPT ![s] = new]
      BY <3>1, <3>2
    <3> HIDE DEF some
    <3>5. new \in StopRecords
      BY <3>3 DEF StopRecords
    <3> HIDE DEF new
    <3> QED BY <3>1, <3>4, <3>5
  <2> QED BY <1>2, <2>1, <2>2, <2>3 DEF StopCancels, StopRecords, Shape, TypeOK, Roots,
                                       store, guard, counters
<1>3. ASSUME NEW s \in StopIds, StopCleansUp(s) PROVE Shape'
  <2>1. /\ completedHosts' \in [Runs -> 0..MaxAttempts]
        /\ followUp' \in [Runs -> FollowUpRecords]
    <3>1. CASE s.run \in followUps
      BY <1>3, <3>1 DEF StopCleansUp, Shape, TypeOK, FollowUpRecords
    <3>2. CASE s.run \notin followUps
      BY <1>3, <3>2, ActorFacts, DisposeHostType DEF StopCleansUp
    <3> QED BY <3>1, <3>2
  <2>2. CASE status[s.run] \in Terminal \cup {"absent"}
    <3>1. StopReturns(s, FALSE) /\ UNCHANGED appends
      BY <1>3, <2>2 DEF StopCleansUp
    <3> QED BY <1>3, <2>1, <3>1, StopReturnsType
            DEF StopCleansUp, StopRecords, TreeOK, Shape, TypeOK, Roots, FollowUpRecords,
                attempts, admission, guard, counters
  <2>3. CASE status[s.run] \notin Terminal \cup {"absent"}
    <3>1. stop' \in [StopIds -> StopRecords]
      <4>1. stop \in [StopIds -> StopRecords]
        BY DEF Shape, TypeOK, StopRecords
      <4>2. stop' = [stop EXCEPT ![s].phase = "reporting"]
        BY <1>3, <2>3 DEF StopCleansUp
      <4> QED BY <4>1, <4>2 DEF StopRecords
    <3>2. appends' \in Seq(Events) /\ appends' # <<>>
      <4>1. "failed" \in Statuses \cup {"same"} /\ appends \in Seq(Events)
        BY DEF Statuses, Terminal, Shape, TypeOK
      <4> QED BY <1>3, <2>3, <4>1, ActorFacts, EmitType DEF StopCleansUp
    <3> QED BY <1>3, <2>1, <2>3, <3>1, <3>2
            DEF StopCleansUp, StopRecords, Shape, TypeOK, Roots, FollowUpRecords,
                attempts, admission, guard, counters
  <2> QED BY <2>2, <2>3
<1>4. ASSUME NEW s \in StopIds, StopReported(s) PROVE Shape'
  <2>1. StopReturns(s, TRUE) /\ Tail(appends) \in Seq(Events)
    BY <1>4, TailType DEF StopReported
  <2> QED BY <1>4, <2>1, StopReturnsType
          DEF StopReported, StopRecords, TreeOK, Shape, TypeOK, Roots,
              attempts, admission, guard, counters
<1> QED BY <1>1, <1>2, <1>3, <1>4 DEF StopStep

LEMMA CancelShape ==
  ASSUME Shape, CancelStep \/ CancelAll \/ Dispose
  PROVE  Shape'
<1> USE DEF store, attempts, admission, guard, counters
<1>b. ASSUME BeginCancelAll
      PROVE  /\ aborted' \subseteq NodeObjects
             /\ cancelling' \in [phase : {"idle", "cleanup", "stops", "executions", "closed"},
                                 root : 0..MaxCancels, runs : SUBSET (Runs \cup RootIds)]
  <2>1. Subtree(tree, RootId(root)) \subseteq Runs \cup RootIds
    BY ShapeTree, TreeType
  <2> QED BY <1>b, <2>1, AbortedSubtree DEF BeginCancelAll, Shape, TypeOK
<1>1. CASE CancelAll
  <2>1. root + 1 \in 0..MaxCancels /\ root' \in 0..MaxCancels
    BY <1>1, FleetAssumption DEF CancelAll, Shape, TypeOK
  <2>2. TreeOK(tree')
    BY <1>1, <2>1, ShapeTree, TreeType DEF CancelAll
  <2> QED BY <1>1, <1>b, <2>1, <2>2
          DEF CancelAll, BeginCancelAll, TreeOK, Shape, TypeOK, Roots
<1>2. CASE Dispose
  BY <1>2, <1>b DEF Dispose, BeginCancelAll, Shape, TypeOK, Roots
<1>3. CASE CancelAllStops
  <2>1. stop' \in [StopIds -> StopRecords]
    BY <1>3, BeginStopsType DEF CancelAllStops
  <2> QED BY <1>3, <2>1 DEF CancelAllStops, StopRecords, Shape, TypeOK, Roots, ownership
<1>4. CASE CancelAllReturns
  <2>1. RootId(cancelling.root) \in RootIds
    BY IdFacts DEF Shape, TypeOK
  <2>2. TreeOK(tree')
    BY <1>4, <2>1, ShapeTree, TreeType DEF CancelAllReturns
  <2>3. cancelling' \in [phase : {"idle", "cleanup", "stops", "executions", "closed"},
                         root : 0..MaxCancels, runs : SUBSET (Runs \cup RootIds)]
    BY <1>4, FleetAssumption DEF CancelAllReturns
  <2> QED BY <1>4, <2>2, <2>3 DEF CancelAllReturns, TreeOK, Shape, TypeOK, Roots
<1>5. CASE Disposed
  <2>1. completedHosts' \in [Runs -> 0..MaxAttempts]
    BY <1>5, FleetAssumption DEF Disposed
  <2>2. TreeOK(tree')
    BY <1>5, FleetAssumption DEF Disposed, Absent, TreeOK, Shape, TypeOK
  <2>3. aborted' \subseteq NodeObjects
    <3>1. \A id \in DOMAIN tree : Has(tree, id) => Object(tree, id) \in NodeObjects
      BY ShapeTree, TreeType DEF TreeOK
    <3> QED BY <1>5, <3>1 DEF Disposed, Shape, TypeOK
  <2> QED BY <1>5, <2>1, <2>2, <2>3 DEF Disposed, TreeOK, Shape, TypeOK, Roots
<1> QED BY <1>1, <1>2, <1>3, <1>4, <1>5 DEF CancelStep

LEMMA InitShape == Init => Shape
<1> SUFFICES ASSUME Init PROVE Shape
  OBVIOUS
<1>1. /\ RootId(0) \in RootIds /\ <<RootId(0), 1>> \in NodeObjects
      /\ 0 \in 0..MaxAttempts /\ 1 \in 0..MaxAttempts /\ 0 \in 0..MaxCancels
  <2>1. 0 \in 0..MaxCancels
    BY FleetAssumption
  <2> QED BY <2>1, IdFacts, FleetAssumption
<1>2. TreeOK(tree)
  BY <1>1, IdFacts DEF Init, TreeOK, Absent, Ids
<1>3. stop \in [StopIds -> StopRecords]
  BY DEF Init, StopRecords
<1>4. followUp \in [Runs -> FollowUpRecords]
  BY <1>1 DEF Init, FollowUpPhases, FollowUpRecords, NoFollowUp
<1>5. /\ status \in [Runs -> Statuses] /\ reduced \in BOOLEAN /\ appends \in Seq(Events)
      /\ phase \in [Attempts -> Phases] /\ owner \in [Attempts -> NodeObjects]
      /\ signal \in [Attempts -> 0..MaxAttempts]
      /\ active \in [Runs -> 0..MaxAttempts] /\ completedHosts \in [Runs -> 0..MaxAttempts]
      /\ queue \in Seq(Attempts)
  <2>1. /\ status \in [Runs -> Statuses] /\ phase \in [Attempts -> Phases]
        /\ reduced \in BOOLEAN
    BY DEF Init, Statuses, Phases
  <2>2. /\ owner \in [Attempts -> NodeObjects] /\ signal \in [Attempts -> 0..MaxAttempts]
        /\ active \in [Runs -> 0..MaxAttempts] /\ completedHosts \in [Runs -> 0..MaxAttempts]
    BY <1>1 DEF Init
  <2>3. appends = <<>> /\ queue = <<>>
    BY DEF Init
  <2> QED BY <2>1, <2>2, <2>3
<1>6. cancelling \in [phase : {"idle", "cleanup", "stops", "executions", "closed"},
                     root : 0..MaxCancels, runs : SUBSET (Runs \cup RootIds)]
  BY <1>1 DEF Init
<1> QED BY <1>1, <1>2, <1>3, <1>4, <1>5, <1>6
        DEF Init, Shape, TypeOK, Roots, TreeOK, StopRecords, FollowUpRecords

LEMMA NextShape == Shape /\ [Next]_vars => Shape'
<1> SUFFICES ASSUME Shape, [Next]_vars PROVE Shape'
  OBVIOUS
<1>1. CASE UNCHANGED vars
  BY <1>1 DEF vars, store, attempts, admission, guard, ownership, calls, counters,
              Shape, TypeOK, Roots
<1>2. CASE Next
  <2>1. ASSUME NEW a \in Attempts, AttemptStep(a) \/ Heartbeat(a) PROVE Shape'
    BY <2>1, AttemptShape, BoundaryShape DEF AttemptStep
  <2>2. ASSUME NEW r \in Runs, Spawn(r) \/ Retry(r) PROVE Shape'
    <3>1. 1 \in 1..MaxAttempts /\ 2..MaxAttempts \subseteq 1..MaxAttempts
      BY FleetAssumption
    <3> QED BY <2>2, <3>1, SpawnShape DEF Spawn, Retry
  <2> QED BY <1>2, <2>1, <2>2, StoreShape, FollowUpShape, StopShape, CancelShape
          DEF Next, Progress
<1> QED BY <1>1, <1>2

(* Every variable of the fleet keeps its type, for any runs, ownership,     *)
(* isolation, conflicts and bounds.                                         *)
THEOREM FleetTypeCorrect == Spec => []TypeOK
<1>1. Shape => TypeOK
  BY DEF Shape
<1> QED BY <1>1, InitShape, NextShape, PTL DEF Spec

-----------------------------------------------------------------------------
(* What the steps do to attempts, slots, locks and follow-ups               *)

Moves(p, q) ==
  \/ p = "catalog" /\ q = "creating"
  \/ p = "starting" /\ q \in {"isolating", "announcing", "failing"}
  \/ p = "isolating" /\ q \in {"announcing", "failing"}
  \/ p = "announcing" /\ q \in {"opening", "failing"}
  \/ p = "opening" /\ q \in {"linking", "failing"}
  \/ p = "linking" /\ q \in {"working", "failing"}
  \/ p = "working" /\ q \in {"reporting", "failing"}
  \/ p \in {"reporting", "failing"} /\ q = "revoking"

(* An attempt between two of its awaits, where nothing is drained.          *)
AttemptMoves(a) ==
  /\ UNCHANGED <<queue, followUps, followUp, owner, tree, root, aborted, stop,
                 cancelling, disposed>>
  /\ Moves(phase[a], phase'[a])
  /\ phase' = [phase EXCEPT ![a] = phase'[a]]
  /\ IF phase'[a] = "announcing"
       THEN active' = [active EXCEPT ![a[1]] = a[2]] /\ launching' = launching \ {a[1]}
       ELSE UNCHANGED <<launching, active>>
  /\ \/ UNCHANGED guard /\ phase'[a] # "revoking"
     \/ /\ phase[a] = "isolating" /\ Free(a[1])
        /\ lock' = lock \cup {a} /\ locks' = locks \cup {a[1]}
     \/ phase'[a] = "revoking" /\ Release(a)
  /\ \/ UNCHANGED completedHosts
     \/ phase[a] = "reporting" /\ completedHosts' = [completedHosts EXCEPT ![a[1]] = a[2]]

LEMMA AttemptEffect ==
  ASSUME Shape, NEW a \in Attempts,
         \/ CatalogReady(a) \/ Started(a) \/ Isolated(a) \/ IsolationFails(a) \/ Announced(a)
         \/ Opened(a) \/ OpenFails(a) \/ Linked(a) \/ WorkDone(a) \/ WorkFails(a)
         \/ Reported(a)
  PROVE  AttemptMoves(a)
<1> USE DEF admission, guard, ownership, calls, MoveTo, Fail, Announce, Moves, AttemptMoves
<1>t. phase \in [Attempts -> Phases]
  BY DEF Shape, TypeOK
<1>1. CASE CatalogReady(a)
  BY <1>1, <1>t DEF CatalogReady
<1>2. CASE Started(a)
  BY <1>2, <1>t DEF Started
<1>3. CASE Isolated(a)
  BY <1>3, <1>t DEF Isolated
<1>4. CASE IsolationFails(a)
  BY <1>4, <1>t DEF IsolationFails
<1>5. CASE Announced(a)
  BY <1>5, <1>t DEF Announced
<1>6. CASE Opened(a)
  BY <1>6, <1>t DEF Opened
<1>7. CASE OpenFails(a)
  BY <1>7, <1>t DEF OpenFails
<1>8. CASE Linked(a)
  BY <1>8, <1>t DEF Linked
<1>9. CASE WorkDone(a)
  BY <1>9, <1>t DEF WorkDone
<1>10. CASE WorkFails(a)
  BY <1>10, <1>t DEF WorkFails
<1>11. CASE Reported(a)
  BY <1>11, <1>t DEF Reported
<1> QED BY <1>1, <1>2, <1>3, <1>4, <1>5, <1>6, <1>7, <1>8, <1>9, <1>10, <1>11

(* A follow-up between two of its awaits, where nothing is drained.         *)
FollowUpMoves(r) ==
  /\ UNCHANGED <<phase, queue, launching, active, owner, tree, root, aborted, stop,
                 cancelling, disposed, completedHosts>>
  /\ \A o \in Runs \ {r} : followUp'[o] = followUp[o]
  /\ LET p == followUp[r].phase
         q == followUp'[r].phase
     IN  \/ /\ p = "none" /\ q = "slot" /\ completedHosts[r] # 0 /\ ~disposed
            /\ (CallersWait => Resting(r)) /\ UNCHANGED <<followUps, guard>>
         \/ /\ p = "slot" /\ q \in {"locking", "announcing"} /\ ~disposed
            /\ Slots(launching, active, followUps) < Capacity
            /\ followUps' = followUps \cup {r} /\ UNCHANGED guard
         \/ /\ p = "slot" /\ q = "none" /\ UNCHANGED <<followUps, guard>>
         \/ /\ p = "locking" /\ q = "announcing" /\ Free(r)
            /\ lock' = lock \cup {<<r, 0>>} /\ locks' = locks \cup {r}
            /\ UNCHANGED followUps
         \/ /\ p = "locking" /\ q = "failing" /\ UNCHANGED <<followUps, guard>>
         \/ /\ p = "announcing" /\ q = "working" /\ UNCHANGED <<followUps, guard>>
         \/ /\ p = "working" /\ q = "failing" /\ UNCHANGED <<followUps, guard>>
         \/ /\ p = "reporting" /\ q = "none" /\ UNCHANGED <<followUps, guard>>

(* The end of a follow-up's turn, which gives back its lock and its slot.   *)
FollowUpEnds(r) ==
  /\ UNCHANGED <<owner, tree, root, aborted, stop, cancelling, disposed>>
  /\ \A o \in Runs \ {r} : followUp'[o] = followUp[o]
  /\ \/ followUp[r].phase = "working" /\ followUp'[r].phase = "reporting"
     \/ followUp[r].phase = "failing" /\ followUp'[r].phase = "none"
     \/ /\ followUp[r].phase \in {"locking", "announcing", "working"}
        /\ followUp[r].host = 0 /\ followUp'[r].phase = "none"
  /\ \/ UNCHANGED completedHosts
     \/ completedHosts' = [completedHosts EXCEPT ![r] = 0]
  /\ Release(<<r, 0>>)
  /\ \E n \in 0..Len(queue), ap \in Seq(Events) :
       Drained(n, queue, launching, active, followUps \ {r}, phase, ap)

(* send() puts a follow-up of a completed run into the wait for a slot.     *)
LEMMA SendMoves ==
  ASSUME Shape, NEW r \in Runs, Send(r)
  PROVE  FollowUpMoves(r)
<1>1. followUp \in [Runs -> FollowUpRecords]
  BY DEF Shape, TypeOK, FollowUpRecords
<1>2. followUp' = [followUp EXCEPT ![r].phase = "slot", ![r].host = completedHosts[r]]
  BY DEF Send
<1>3. followUp'[r].phase = "slot" /\ \A o \in Runs \ {r} : followUp'[o] = followUp[o]
  BY <1>1, <1>2 DEF FollowUpRecords
<1>4. UNCHANGED <<phase, queue, launching, active, owner, tree, root, aborted, stop,
                  cancelling, disposed, completedHosts>>
  BY DEF Send, attempts, admission, ownership, calls
<1>5. /\ followUp[r].phase = "none" /\ completedHosts[r] # 0 /\ ~disposed
      /\ (CallersWait => Resting(r))
  BY DEF Send
<1>6. UNCHANGED <<followUps, guard>>
  BY DEF Send, admission
<1> DEFINE p == followUp[r].phase
           q == followUp'[r].phase
           Kept == UNCHANGED <<followUps, guard>>
<1>7. p = "none" /\ q = "slot" /\ completedHosts[r] # 0 /\ ~disposed
        /\ (CallersWait => Resting(r)) /\ Kept
  BY <1>3, <1>5, <1>6
<1> QED BY ONLY <1>3, <1>4, <1>7 DEF FollowUpMoves

LEMMA FollowUpEffect ==
  ASSUME Shape, NEW r \in Runs, FollowUpStep(r) \/ Send(r)
  PROVE  FollowUpMoves(r) \/ FollowUpEnds(r)
<1>t. /\ followUp \in [Runs -> FollowUpRecords]
      /\ appends \in Seq(Events) /\ queue \in Seq(Attempts)
      /\ launching \in SUBSET Runs /\ active \in [Runs -> 0..MaxAttempts]
      /\ followUps \in SUBSET Runs /\ phase \in [Attempts -> Phases]
  BY DEF Shape, TypeOK, FollowUpRecords
<1>1. CASE Send(r)
  BY <1>1, SendMoves
<1> USE DEF store, attempts, admission, guard, ownership, calls, FollowUpAt, NoFollowUp
<1>2. CASE FollowUpAdmitted(r)
  <2>1. /\ UNCHANGED <<phase, queue, launching, active, owner, tree, root, aborted, stop,
                       cancelling, disposed, completedHosts>>
        /\ followUp[r].phase = "slot" /\ ~disposed /\ UNCHANGED guard
        /\ Slots(launching, active, followUps) < Capacity
        /\ followUps' = followUps \cup {r}
    BY <1>2 DEF FollowUpAdmitted
  <2>2. \/ followUp' = [followUp EXCEPT ![r].phase = "locking"]
        \/ followUp' = [followUp EXCEPT ![r].phase = "announcing"]
    BY <1>2 DEF FollowUpAdmitted
  <2>3. /\ followUp'[r].phase \in {"locking", "announcing"}
        /\ \A o \in Runs \ {r} : followUp'[o] = followUp[o]
    BY <1>t, <2>2 DEF FollowUpRecords
  <2> QED BY <2>1, <2>3, ZenonT(60) DEF FollowUpMoves
<1>3. CASE FollowUpDropped(r)
  BY <1>3, <1>t DEF FollowUpDropped, FollowUpMoves
<1>4. CASE FollowUpLocked(r)
  BY <1>4, <1>t DEF FollowUpLocked, FollowUpMoves
<1>5. CASE FollowUpLockFails(r)
  BY <1>5, <1>t DEF FollowUpLockFails, FollowUpMoves
<1>6. CASE FollowUpStarts(r)
  BY <1>6, <1>t DEF FollowUpStarts, FollowUpMoves
<1>8. CASE FollowUpFails(r)
  BY <1>8, <1>t DEF FollowUpFails, FollowUpMoves
<1>9. CASE FollowUpReported(r)
  BY <1>9, <1>t DEF FollowUpReported, FollowUpMoves
<1>7. CASE FollowUpDone(r)
  <2> DEFINE ap == Append(appends, Event(FollowUp(r), "completed"))
  <2>1. ap \in Seq(Events)
    BY <1>t, FollowUpType
  <2>2. Drain(queue, launching, active, followUps \ {r}, phase, ap)
    BY <1>7 DEF FollowUpDone
  <2> HIDE DEF ap
  <2>3. \E n \in 0..Len(queue) : Drained(n, queue, launching, active, followUps \ {r}, phase, ap)
    BY <1>t, <2>1, <2>2, DrainEffect
  <2>4. followUp' = [followUp EXCEPT ![r].phase = "reporting"]
    BY <1>7 DEF FollowUpDone
  <2> QED BY <1>7, <1>t, <2>1, <2>3, <2>4 DEF FollowUpDone, FollowUpEnds
<1>10. CASE FollowUpFailed(r)
  <2> DEFINE ap == Tail(appends)
  <2>1. ap \in Seq(Events)
    BY <1>10, TailType DEF FollowUpFailed
  <2>2. Drain(queue, launching, active, followUps \ {r}, phase, ap)
    BY <1>10 DEF FollowUpFailed
  <2> HIDE DEF ap
  <2>3. \E n \in 0..Len(queue) : Drained(n, queue, launching, active, followUps \ {r}, phase, ap)
    BY <1>t, <2>1, <2>2, DrainEffect
  <2> QED BY <1>10, <1>t, <2>1, <2>3 DEF FollowUpFailed, FollowUpEnds
<1>11. CASE FollowUpAbandoned(r)
  <2> DEFINE ap == IF followUp[r].phase = "announcing" THEN Tail(appends) ELSE appends
  <2>1. ap \in Seq(Events)
    <3>1. followUp[r].phase = "announcing" => Tail(appends) \in Seq(Events)
      BY <1>11, TailType DEF FollowUpAbandoned
    <3> QED BY <1>t, <3>1
  <2>2. Drain(queue, launching, active, followUps \ {r}, phase, ap)
    BY <1>11 DEF FollowUpAbandoned
  <2> HIDE DEF ap
  <2>3. \E n \in 0..Len(queue) : Drained(n, queue, launching, active, followUps \ {r}, phase, ap)
    BY <1>t, <2>1, <2>2, DrainEffect
  <2>4. /\ followUp'[r].phase = "none" /\ \A o \in Runs \ {r} : followUp'[o] = followUp[o]
        /\ followUp[r].phase \in {"locking", "announcing", "working"} /\ followUp[r].host = 0
    BY <1>11, <1>t DEF FollowUpAbandoned
  <2> QED BY <1>11, <2>1, <2>3, <2>4 DEF FollowUpAbandoned, FollowUpEnds
<1> QED BY <1>1, <1>2, <1>3, <1>4, <1>5, <1>6, <1>7, <1>8, <1>9, <1>10, <1>11 DEF FollowUpStep

(* A spawn that begins, the two ends of spawn(), and the end of execute().  *)
Spawns(r, k) ==
  /\ ~disposed /\ Begun(r) = 1..(k - 1)
  /\ (k > 1 /\ CallersWait) => Unoccupied(r)
  /\ phase' = [phase EXCEPT ![<<r, k>>] = "catalog"]
  /\ Has(tree, ParentId(r)) /\ owner' = [owner EXCEPT ![<<r, k>>] = Object(tree, ParentId(r))]
  /\ UNCHANGED <<queue, launching, active, followUps, followUp, guard, completedHosts, tree,
                 root, aborted, stop, cancelling, disposed>>

Replaces(a) ==
  /\ phase[a] = "creating" /\ phase' = [phase EXCEPT ![a] = "replacing"]
  /\ completedHosts' = [completedHosts EXCEPT ![a[1]] = 0] /\ PhasesStay
  /\ UNCHANGED <<queue, launching, active, followUps, owner, guard, stop, cancelling, disposed>>

Attaches(a) ==
  /\ phase[a] \in {"creating", "replacing"}
  /\ \/ UNCHANGED completedHosts
     \/ completedHosts' = [completedHosts EXCEPT ![a[1]] = 0]
  /\ PhasesStay
  /\ UNCHANGED <<owner, root, guard, stop, cancelling, disposed>>
  /\ \E n \in 0..Len(Append(queue, a)), ap \in Seq(Events) :
       Drained(n, Append(queue, a), launching, active, followUps,
               [phase EXCEPT ![a] = "queued"], ap)

Unwinds(a) ==
  /\ phase[a] = "revoking"
  /\ UNCHANGED <<followUp, owner, root, aborted, guard, completedHosts, stop, cancelling,
                 disposed>>
  /\ \E n \in 0..Len(queue), ap \in Seq(Events) :
       Drained(n, queue, launching \ {a[1]}, [active EXCEPT ![a[1]] = 0], followUps,
               [phase EXCEPT ![a] = "done"], ap)

LEMMA SpawnEffect ==
  ASSUME Shape, NEW r \in Runs, Spawn(r) \/ Retry(r)
  PROVE  \E k \in 1..MaxAttempts : Spawns(r, k) /\ BeginSpawn(r, k)
<1>1. CASE Spawn(r)
  <2>1. BeginSpawn(r, 1) /\ 1 \in 1..MaxAttempts
    BY <1>1, FleetAssumption DEF Spawn
  <2>2. Spawns(r, 1)
    BY <2>1 DEF Spawns, BeginSpawn, admission, guard, ownership, calls
  <2> QED BY <2>1, <2>2
<1>2. CASE Retry(r)
  <2>1. PICK k \in 2..MaxAttempts : BeginSpawn(r, k)
    BY <1>2 DEF Retry
  <2>2. (CallersWait => Unoccupied(r)) /\ k \in 1..MaxAttempts
    BY <1>2, FleetAssumption DEF Retry
  <2>3. Spawns(r, k)
    BY <2>1, <2>2 DEF Spawns, BeginSpawn, admission, guard, ownership, calls
  <2> QED BY <2>1, <2>2, <2>3
<1> QED BY <1>1, <1>2

LEMMA AttachEffect ==
  ASSUME Shape, NEW a \in Attempts, NEW ap \in Seq(Events), AttachTo(a, ap)
  PROVE  \E n \in 0..Len(Append(queue, a)) :
           Drained(n, Append(queue, a), launching, active, followUps,
                   [phase EXCEPT ![a] = "queued"], ap)
<1> DEFINE q == Append(queue, a)
           ph == [phase EXCEPT ![a] = "queued"]
<1>1. /\ q \in Seq(Attempts) /\ launching \in SUBSET Runs
      /\ active \in [Runs -> 0..MaxAttempts] /\ followUps \in SUBSET Runs
      /\ ph \in [Attempts -> Phases]
  BY DEF Shape, TypeOK, Phases
<1>2. Drain(q, launching, active, followUps, ph, ap)
  BY DEF AttachTo
<1> HIDE DEF q, ph
<1>3. \E n \in 0..Len(q) : Drained(n, q, launching, active, followUps, ph, ap)
  BY <1>1, <1>2, DrainEffect
<1> QED BY <1>3 DEF q, ph

LEMMA BoundaryEffect ==
  ASSUME Shape, NEW a \in Attempts, Created(a) \/ Attach(a) \/ Unwound(a)
  PROVE  Replaces(a) \/ Attaches(a) \/ Unwinds(a)
<1> USE DEF admission, guard, ownership, calls
<1>d. Created(a) => /\ completedHosts' = [completedHosts EXCEPT ![a[1]] = 0]
                    /\ PhasesStay
  BY AttemptFacts, DisposeHostType DEF Created
<1>1. CASE Created(a) /\ Has(tree, a[1])
  BY <1>1, <1>d DEF Created, Replaces
<1>2. CASE Created(a) /\ ~Has(tree, a[1])
  <2>1. AttachTo(a, Tail(appends)) /\ Tail(appends) \in Seq(Events)
    BY <1>2, TailType DEF Created
  <2> QED BY <1>2, <1>d, <2>1, AttachEffect DEF Created, Attaches
<1>3. CASE Attach(a)
  <2>1. AttachTo(a, appends) /\ appends \in Seq(Events)
    BY <1>3 DEF Attach, Shape, TypeOK
  <2> QED BY <1>3, <2>1, AttachEffect DEF Attach, Attaches, PhasesStay
<1>4. CASE Unwound(a)
  <2> DEFINE act == [active EXCEPT ![a[1]] = 0]
             ph == [phase EXCEPT ![a] = "done"]
  <2>1. Drain(queue, launching \ {a[1]}, act, followUps, ph, appends)
    BY <1>4 DEF Unwound
  <2>2. act \in [Runs -> 0..MaxAttempts] /\ ph \in [Attempts -> Phases]
    <3>1. 0 \in 0..MaxAttempts /\ "done" \in Phases
      BY FleetAssumption DEF Phases
    <3>2. active \in [Runs -> 0..MaxAttempts] /\ phase \in [Attempts -> Phases]
      BY DEF Shape, TypeOK
    <3> QED BY <3>1, <3>2
  <2> HIDE DEF act, ph
  <2>3. /\ queue \in Seq(Attempts) /\ launching \ {a[1]} \in SUBSET Runs
        /\ followUps \in SUBSET Runs /\ appends \in Seq(Events)
    BY DEF Shape, TypeOK
  <2>4. \E n \in 0..Len(queue) :
          Drained(n, queue, launching \ {a[1]}, act, followUps, ph, appends)
    BY <2>1, <2>2, <2>3, DrainEffect
  <2> QED BY <1>4, <2>3, <2>4 DEF Unwound, Unwinds, act, ph
<1> QED BY <1>1, <1>2, <1>3, <1>4

(* The other steps, and what none of them changes.                          *)
RestStep ==
  \/ Reduce \/ CancelStep \/ CancelAll \/ Dispose
  \/ \E r \in Runs : Wait(r) \/ Stop(r)
  \/ \E a \in Attempts : Heartbeat(a)
  \/ \E s \in StopIds : StopCleansUp(s) \/ StopReported(s)

Rests ==
  /\ UNCHANGED <<phase, owner, queue, launching, active, followUps, guard>> /\ PhasesStay
  /\ \A r \in Runs : completedHosts'[r] \in {completedHosts[r], 0}

LEMMA RestEffect ==
  ASSUME Shape, RestStep
  PROVE  Rests
<1> USE DEF RestStep, Rests, PhasesStay, attempts, admission, guard, ownership
<1>t. completedHosts \in [Runs -> 0..MaxAttempts]
  BY DEF Shape, TypeOK
<1>1. CASE Reduce
  BY <1>1 DEF Reduce
<1>2. CASE CancelStep
  BY <1>2, <1>t DEF CancelStep, CancelAllStops, CancelAllReturns, Disposed
<1>3. CASE CancelAll \/ Dispose
  BY <1>3 DEF CancelAll, Dispose, BeginCancelAll
<1>4. ASSUME NEW r \in Runs, Wait(r) \/ Stop(r) PROVE Rests
  BY <1>4 DEF Wait, Stop
<1>5. ASSUME NEW a \in Attempts, Heartbeat(a) PROVE Rests
  BY <1>5 DEF Heartbeat
<1>6. ASSUME NEW s \in StopIds, StopCleansUp(s) \/ StopReported(s) PROVE Rests
  <2>1. CASE StopReported(s)
    BY <2>1, <1>t DEF StopReported
  <2>2. CASE StopCleansUp(s)
    <3>1. /\ PhasesStay /\ \A r \in Runs : completedHosts'[r] \in {completedHosts[r], 0}
      <4>1. CASE s.run \in followUps
        BY <2>2, <4>1 DEF StopCleansUp
      <4>2. CASE s.run \notin followUps
        BY <1>t, <2>2, <4>2, ActorFacts, DisposeHostType DEF StopCleansUp
      <4> QED BY <4>1, <4>2
    <3> QED BY <2>2, <3>1 DEF StopCleansUp
  <2> QED BY <1>6, <2>1, <2>2
<1> QED BY <1>1, <1>2, <1>3, <1>4, <1>5, <1>6

(* Every step is one of these.                                              *)
LEMMA StepKinds ==
  ASSUME Shape, Next
  PROVE  \/ \E r \in Runs, k \in 1..MaxAttempts : Spawns(r, k)
         \/ \E a \in Attempts : AttemptMoves(a) \/ Replaces(a) \/ Attaches(a) \/ Unwinds(a)
         \/ \E r \in Runs : FollowUpMoves(r) \/ FollowUpEnds(r)
         \/ \E s \in StopIds : StopCancels(s)
         \/ RestStep
<1>1. ASSUME NEW a \in Attempts, AttemptStep(a)
      PROVE  AttemptMoves(a) \/ Replaces(a) \/ Attaches(a) \/ Unwinds(a)
  BY <1>1, AttemptEffect, BoundaryEffect DEF AttemptStep
<1>2. ASSUME NEW r \in Runs, Spawn(r) \/ Retry(r)
      PROVE  \E k \in 1..MaxAttempts : Spawns(r, k)
  BY <1>2, SpawnEffect
<1>3. ASSUME NEW r \in Runs, FollowUpStep(r) \/ Send(r)
      PROVE  FollowUpMoves(r) \/ FollowUpEnds(r)
  BY <1>3, FollowUpEffect
<1> QED BY <1>1, <1>2, <1>3 DEF Next, Progress, StopStep, RestStep

-----------------------------------------------------------------------------
(* Slots, locks and queue entries are given back                            *)

(* What is in the queue waits to be launched, once; a run that takes a slot *)
(* has an attempt that executes, or a follow-up past its admission; a lock  *)
(* has a holder that is still to release it.                                *)
QueueOK(q, ph) ==
  /\ \A i \in 1..Len(q) : ph[q[i]] = "queued"
  /\ \A i, j \in 1..Len(q) : i # j => q[i] # q[j]

SlotsOK(l, act, ph) ==
  /\ \A r \in l : \E k \in 1..MaxAttempts : ph[<<r, k>>] \in Executing
  /\ \A r \in Runs : act[r] # 0 => ph[<<r, act[r]>>] \in Executing

Admitted == {"locking", "announcing", "working", "failing"}
Holding  == {"announcing", "opening", "linking", "working", "reporting", "failing"}

FollowUpsOK == followUps = {r \in Runs : followUp[r].phase \in Admitted}

Holds(x, ph, fu) ==
  IF x[2] # 0 THEN ph[x] \in Holding
  ELSE fu[x[1]].phase \in {"announcing", "working", "failing"}

LocksOK ==
  /\ \A x \in lock : Holds(x, phase, followUp)
  /\ locks \subseteq {x[1] : x \in lock}

DisposalOK == cancelling.phase \in {"executions", "closed"} => disposed

AdmissionOK ==
  /\ QueueOK(queue, phase) /\ SlotsOK(launching, active, phase)
  /\ FollowUpsOK /\ LocksOK

Kept == Shape /\ AdmissionOK /\ DisposalOK /\ DisposedIsQuiet

(* Draining changes queued attempts only, and gives a slot to their runs.   *)
Launches(l, ph) ==
  /\ \A a \in Attempts : phase'[a] # ph[a] =>
       /\ ph[a] = "queued" /\ phase'[a] \in {"starting", "failing"}
       /\ a[1] \in launching'
  /\ launching' \subseteq Runs /\ l \subseteq launching'
  /\ \A r \in launching' \ l :
       \E a \in Attempts : a[1] = r /\ ph[a] = "queued" /\ phase'[a] \in {"starting", "failing"}

LEMMA DrainKeeps ==
  ASSUME NEW q \in Seq(Attempts), NEW l \in SUBSET Runs, NEW act \in [Runs -> 0..MaxAttempts],
         NEW fu, NEW ph \in [Attempts -> Phases], NEW ap, NEW n \in 0..Len(q),
         Drained(n, q, l, act, fu, ph, ap),
         QueueOK(q, ph)
  PROVE  /\ QueueOK(queue', phase')
         /\ Launches(l, ph)
         /\ disposed => phase' = ph
<1>1. Len(q) \in Nat /\ \A i \in 1..Len(q) : q[i] \in Attempts /\ q[i][1] \in Runs
  BY AttemptFacts
<1>2. \A i \in 1..n : i \in 1..Len(q)
  BY <1>1
<1>3. QueueOK(queue', phase')
  <2>1. \A i \in 1..Len(queue') : n + i \in 1..Len(q) /\ n + i \notin 1..n /\ queue'[i] = q[n + i]
    BY <1>1 DEF Drained
  <2>2. \A i \in 1..Len(queue') : phase'[queue'[i]] = "queued"
    <3> TAKE i \in 1..Len(queue')
    <3>1. \A j \in 1..n : q[j] # q[n + i]
      <4> TAKE j \in 1..n
      <4>1. j \in 1..Len(q) /\ n + i \in 1..Len(q) /\ j # n + i
        BY <1>2, <2>1
      <4> QED BY <4>1 DEF QueueOK
    <3>2. q[n + i] \in Attempts /\ ph[q[n + i]] = "queued" /\ queue'[i] = q[n + i]
      BY <1>1, <2>1 DEF QueueOK
    <3>3. phase'[q[n + i]] = ph[q[n + i]]
      BY <3>1, <3>2 DEF Drained
    <3> QED BY <3>2, <3>3
  <2>3. \A i, j \in 1..Len(queue') : i # j => queue'[i] # queue'[j]
    <3> SUFFICES ASSUME NEW i \in 1..Len(queue'), NEW j \in 1..Len(queue'), i # j
                 PROVE  queue'[i] # queue'[j]
      OBVIOUS
    <3>1. /\ n + i # n + j /\ n + i \in 1..Len(q) /\ n + j \in 1..Len(q)
          /\ queue'[i] = q[n + i] /\ queue'[j] = q[n + j]
      <4>1. Len(queue') \in Nat /\ i \in Nat /\ j \in Nat
        BY <1>1 DEF Drained
      <4> QED BY <2>1, <4>1
    <3>2. q[n + i] # q[n + j]
      BY <3>1 DEF QueueOK
    <3> QED BY <3>1, <3>2
  <2> QED BY <2>2, <2>3 DEF QueueOK
<1>4. ASSUME NEW a \in Attempts, phase'[a] # ph[a]
      PROVE  ph[a] = "queued" /\ phase'[a] \in {"starting", "failing"} /\ a[1] \in launching'
  <2>1. PICK i \in 1..n : q[i] = a
    BY <1>4 DEF Drained
  <2> QED BY <2>1, <1>2 DEF Drained, QueueOK
<1>5. /\ launching' \subseteq Runs /\ l \subseteq launching'
      /\ \A r \in launching' \ l :
           \E a \in Attempts : a[1] = r /\ ph[a] = "queued" /\ phase'[a] \in {"starting", "failing"}
  <2>1. launching' = l \cup {q[i][1] : i \in 1..n}
    BY DEF Drained
  <2>2. ASSUME NEW r \in launching' \ l
        PROVE  /\ r \in Runs
               /\ \E a \in Attempts : a[1] = r /\ ph[a] = "queued"
                                  /\ phase'[a] \in {"starting", "failing"}
    <3>1. PICK i \in 1..n : r = q[i][1]
      BY <2>1, <2>2
    <3>2. q[i] \in Attempts /\ ph[q[i]] = "queued" /\ phase'[q[i]] \in {"starting", "failing"}
      BY <1>1, <1>2 DEF Drained, QueueOK
    <3> QED BY <3>1, <3>2, AttemptFacts
  <2> QED BY <2>1, <2>2
<1>6. disposed => phase' = ph
  BY DEF Drained
<1> QED BY <1>3, <1>4, <1>5, <1>6 DEF Launches

LEMMA KeptTypes ==
  ASSUME Shape
  PROVE  /\ phase \in [Attempts -> Phases] /\ queue \in Seq(Attempts)
         /\ launching \in SUBSET Runs /\ active \in [Runs -> 0..MaxAttempts]
         /\ followUps \in SUBSET Runs
         /\ followUp \in [Runs -> FollowUpRecords]
         /\ lock \subseteq Runs \X (0..MaxAttempts)
         /\ Len(queue) \in Nat /\ \A i \in 1..Len(queue) : queue[i] \in Attempts
BY DEF Shape, TypeOK, FollowUpRecords

LEMMA LockFacts ==
  ASSUME Shape, NEW x \in lock
  PROVE  /\ x[1] \in Runs /\ x = <<x[1], x[2]>>
         /\ x[2] # 0 => x \in Attempts
<1>1. x \in Runs \X (0..MaxAttempts)
  BY KeptTypes
<1>2. x[2] # 0 => x[2] \in 1..MaxAttempts
  BY <1>1, FleetAssumption
<1> QED BY <1>1, <1>2, AttemptFacts

(* An attempt moves, and neither leaves execute() nor enters the queue.     *)
LEMMA MoveKeepsQueue ==
  ASSUME Shape, QueueOK(queue, phase), NEW a \in Attempts, NEW p,
         phase' = [phase EXCEPT ![a] = p], phase[a] # "queued", UNCHANGED queue
  PROVE  QueueOK(queue', phase')
BY KeptTypes DEF QueueOK

LEMMA MoveKeepsSlots ==
  ASSUME Shape, SlotsOK(launching, active, phase), NEW a \in Attempts, NEW p,
         phase' = [phase EXCEPT ![a] = p], phase[a] \in Executing => p \in Executing,
         UNCHANGED <<launching, active>>
  PROVE  SlotsOK(launching', active', phase')
<1>1. \A b \in Attempts : phase[b] \in Executing => phase'[b] \in Executing
  BY KeptTypes
<1>2. \A r \in Runs : active[r] # 0 => <<r, active[r]>> \in Attempts
  BY KeptTypes, AttemptFacts
<1>3. \A r \in launching, k \in 1..MaxAttempts : <<r, k>> \in Attempts
  BY KeptTypes, AttemptFacts
<1> QED BY <1>1, <1>2, <1>3 DEF SlotsOK

LEMMA MoveKeepsLocks ==
  ASSUME Shape, LocksOK, NEW a \in Attempts, NEW p,
         phase' = [phase EXCEPT ![a] = p],
         phase[a] \in Holding => p \in Holding,
         UNCHANGED <<lock, locks>>, PhasesStay
  PROVE  LocksOK'
<1>1. \A x \in lock : Holds(x, phase, followUp) => Holds(x, phase', followUp')
  BY KeptTypes, LockFacts DEF Holds, PhasesStay
<1> QED BY <1>1 DEF LocksOK

LEMMA AdmissionSpawn ==
  ASSUME Shape, AdmissionOK, NEW r \in Runs, NEW k \in 1..MaxAttempts, Spawns(r, k)
  PROVE  AdmissionOK'
<1>1. <<r, k>> \in Attempts /\ phase[<<r, k>>] = "none"
  <2>1. k \notin Begun(r)
    BY DEF Spawns
  <2> QED BY <2>1, AttemptFacts DEF Begun
<1>2. "none" \notin Executing /\ "none" \notin Holding
  BY DEF Executing, Holding
<1> QED BY <1>1, <1>2, MoveKeepsQueue, MoveKeepsSlots, MoveKeepsLocks
        DEF Spawns, AdmissionOK, FollowUpsOK, PhasesStay, guard

LEMMA AdmissionMove ==
  ASSUME Shape, AdmissionOK, NEW a \in Attempts, AttemptMoves(a)
  PROVE  AdmissionOK'
<1>f. a[1] \in Runs /\ a[2] \in 1..MaxAttempts /\ a = <<a[1], a[2]>> /\ a[2] # 0
  BY AttemptFacts
<1>m. phase' = [phase EXCEPT ![a] = phase'[a]] /\ Moves(phase[a], phase'[a])
  BY DEF AttemptMoves
<1>1. QueueOK(queue', phase')
  BY <1>m, MoveKeepsQueue DEF Moves, AttemptMoves, AdmissionOK
<1>2. SlotsOK(launching', active', phase')
  <2>1. phase[a] \in Executing => phase'[a] \in Executing
    BY <1>m DEF Moves, Executing
  <2>2. CASE phase'[a] # "announcing"
    BY <1>m, <2>1, <2>2, MoveKeepsSlots DEF AttemptMoves, AdmissionOK
  <2>3. CASE phase'[a] = "announcing"
    <3>1. active' = [active EXCEPT ![a[1]] = a[2]] /\ launching' = launching \ {a[1]}
      BY <2>3 DEF AttemptMoves
    <3>2. \A b \in Attempts : phase[b] \in Executing => phase'[b] \in Executing
      BY <1>m, <2>1, KeptTypes
    <3>3. \A r \in launching' : \E k \in 1..MaxAttempts : phase'[<<r, k>>] \in Executing
      BY <3>1, <3>2, KeptTypes, AttemptFacts DEF AdmissionOK, SlotsOK
    <3>4. ASSUME NEW r \in Runs, active'[r] # 0 PROVE phase'[<<r, active'[r]>>] \in Executing
      <4>1. CASE r = a[1]
        <5>1. active'[r] = a[2]
          BY <3>1, <4>1, KeptTypes
        <5>2. phase'[a] \in Executing
          BY <2>3 DEF Executing
        <5> QED BY <4>1, <5>1, <5>2, <1>f
      <4>2. CASE r # a[1]
        <5>1. active'[r] = active[r] /\ <<r, active[r]>> \in Attempts
          BY <3>1, <3>4, <4>2, KeptTypes, AttemptFacts
        <5> QED BY <3>2, <3>4, <5>1 DEF AdmissionOK, SlotsOK
      <4> QED BY <4>1, <4>2
    <3> QED BY <3>3, <3>4 DEF SlotsOK
  <2> QED BY <2>2, <2>3
<1>3. FollowUpsOK'
  BY DEF AttemptMoves, AdmissionOK, FollowUpsOK
<1>4. LocksOK'
  <2>0. UNCHANGED followUp /\ LocksOK
    BY DEF AttemptMoves, AdmissionOK
  <2>1. CASE UNCHANGED guard /\ phase'[a] # "revoking"
    <3>1. phase[a] \in Holding => phase'[a] \in Holding
      BY <1>m, <2>1 DEF Moves, Holding
    <3> QED BY <1>m, <2>0, <2>1, <3>1, MoveKeepsLocks DEF guard, PhasesStay
  <2>2. CASE /\ phase[a] = "isolating"
             /\ lock' = lock \cup {a} /\ locks' = locks \cup {a[1]}
    <3>1. phase'[a] \in Holding
      BY <1>m, <2>2 DEF Moves, Holding
    <3>2. Holds(a, phase', followUp')
      BY <1>f, <3>1 DEF Holds
    <3>3. ASSUME NEW x \in lock PROVE Holds(x, phase', followUp')
      <4>1. Holds(x, phase, followUp)
        BY <2>0 DEF LocksOK
      <4> QED BY <4>1, <3>1, <1>m, <2>0, LockFacts, KeptTypes DEF Holds
    <3> QED BY <2>0, <2>2, <3>2, <3>3 DEF LocksOK
  <2>3. CASE phase'[a] = "revoking" /\ Release(a)
    <3>1. \A x \in lock' : x \in lock /\ x # a
      BY <2>3 DEF Release
    <3>2. ASSUME NEW x \in lock' PROVE Holds(x, phase', followUp')
      <4>1. Holds(x, phase, followUp)
        BY <2>0, <3>1 DEF LocksOK
      <4> QED BY <4>1, <3>1, <1>m, <2>0, LockFacts, KeptTypes DEF Holds
    <3>3. locks' \subseteq {x[1] : x \in lock'}
      BY <2>0, <2>3 DEF LocksOK, Release
    <3> QED BY <3>2, <3>3 DEF LocksOK
  <2> QED BY <2>1, <2>2, <2>3 DEF AttemptMoves
<1> QED BY <1>1, <1>2, <1>3, <1>4 DEF AdmissionOK

LEMMA AdmissionReplace ==
  ASSUME Shape, AdmissionOK, NEW a \in Attempts, Replaces(a)
  PROVE  AdmissionOK'
<1>1. "creating" \notin Executing /\ "creating" \notin Holding
  BY DEF Executing, Holding
<1> QED BY <1>1, MoveKeepsQueue, MoveKeepsSlots, MoveKeepsLocks
        DEF Replaces, AdmissionOK, FollowUpsOK, PhasesStay, guard

(* The item that is queued last.                                            *)
LEMMA AppendKeepsQueue ==
  ASSUME Shape, QueueOK(queue, phase), NEW a \in Attempts, phase[a] # "queued"
  PROVE  /\ Append(queue, a) \in Seq(Attempts)
         /\ QueueOK(Append(queue, a), [phase EXCEPT ![a] = "queued"])
<1> DEFINE q == Append(queue, a)
           ph == [phase EXCEPT ![a] = "queued"]
<1>1. /\ q \in Seq(Attempts) /\ Len(q) = Len(queue) + 1 /\ q[Len(queue) + 1] = a
      /\ \A i \in 1..Len(queue) : q[i] = queue[i]
  BY KeptTypes
<1>2. \A i \in 1..Len(q) : i \in 1..Len(queue) \/ i = Len(queue) + 1
  BY <1>1, KeptTypes
<1>3. \A i \in 1..Len(queue) : queue[i] # a /\ phase[queue[i]] = "queued" /\ queue[i] \in Attempts
  BY KeptTypes DEF QueueOK
<1>4. ph[a] = "queued" /\ \A b \in Attempts : b # a => ph[b] = phase[b]
  BY KeptTypes
<1> HIDE DEF q, ph
<1>5. \A i \in 1..Len(q) : ph[q[i]] = "queued"
  BY <1>1, <1>2, <1>3, <1>4
<1>6. \A i, j \in 1..Len(q) : i # j => q[i] # q[j]
  BY <1>1, <1>2, <1>3 DEF QueueOK
<1> QED BY <1>1, <1>5, <1>6 DEF QueueOK, q, ph

(* Draining, from slots and locks that are right after what precedes it.    *)
LEMMA AdmissionDrain ==
  ASSUME Shape, Shape', NEW q \in Seq(Attempts), NEW l \in SUBSET Runs,
         NEW act \in [Runs -> 0..MaxAttempts], NEW fu, NEW ph \in [Attempts -> Phases], NEW ap,
         NEW n \in 0..Len(q), Drained(n, q, l, act, fu, ph, ap),
         QueueOK(q, ph), SlotsOK(l, act, ph),
         \A x \in lock' : Holds(x, ph, followUp')
  PROVE  /\ QueueOK(queue', phase') /\ SlotsOK(launching', active', phase')
         /\ \A x \in lock' : Holds(x, phase', followUp')
<1>1. QueueOK(queue', phase') /\ Launches(l, ph)
  BY DrainKeeps
<1>2. active' = act /\ launching' \subseteq Runs
  BY KeptTypes DEF Drained, Shape, TypeOK
<1>3. {"starting", "failing"} \subseteq Executing /\ "queued" \notin Executing
      /\ "queued" \notin Holding
  BY DEF Executing, Holding
<1>4. \A a \in Attempts : ph[a] \in Executing => phase'[a] \in Executing
  BY <1>1, <1>3 DEF Launches
<1>5. SlotsOK(launching', active', phase')
  <2>1. ASSUME NEW r \in launching' PROVE \E k \in 1..MaxAttempts : phase'[<<r, k>>] \in Executing
    <3>1. CASE r \in l
      <4>1. PICK k \in 1..MaxAttempts : ph[<<r, k>>] \in Executing
        BY <3>1 DEF SlotsOK
      <4> QED BY <4>1, <3>1, <1>4, AttemptFacts
    <3>2. ASSUME NEW a \in Attempts, a[1] = r, phase'[a] \in {"starting", "failing"}
          PROVE  \E k \in 1..MaxAttempts : phase'[<<r, k>>] \in Executing
      BY <3>2, <1>3, AttemptFacts
    <3> QED BY <3>1, <3>2, <1>1 DEF Launches
  <2>2. ASSUME NEW r \in Runs, active'[r] # 0 PROVE phase'[<<r, active'[r]>>] \in Executing
    <3>1. act[r] \in 1..MaxAttempts
      BY <1>2, <2>2, FleetAssumption
    <3>2. ph[<<r, act[r]>>] \in Executing
      BY <1>2, <2>2 DEF SlotsOK
    <3> QED BY <3>1, <3>2, <1>2, <1>4, AttemptFacts
  <2> QED BY <2>1, <2>2 DEF SlotsOK
<1>6. ASSUME NEW x \in lock' PROVE Holds(x, phase', followUp')
  <2>1. x[2] # 0 => x \in Attempts
    <3>1. x \in Runs \X (0..MaxAttempts)
      BY DEF Shape, TypeOK
    <3>2. x[2] # 0 => x[2] \in 1..MaxAttempts
      BY <3>1, FleetAssumption
    <3> QED BY <3>1, <3>2, AttemptFacts
  <2> QED BY <2>1, <1>1, <1>3 DEF Holds, Holding, Launches
<1> QED BY <1>1, <1>5, <1>6

LEMMA AdmissionAttach ==
  ASSUME Shape, Shape', AdmissionOK, NEW a \in Attempts, Attaches(a)
  PROVE  AdmissionOK'
<1> DEFINE q == Append(queue, a)
           ph == [phase EXCEPT ![a] = "queued"]
<1>1. phase[a] \notin Executing /\ phase[a] \notin Holding /\ phase[a] # "queued"
  BY DEF Attaches, Executing, Holding
<1>2. q \in Seq(Attempts) /\ QueueOK(q, ph)
  BY <1>1, AppendKeepsQueue DEF AdmissionOK
<1>3. ph \in [Attempts -> Phases]
  BY KeptTypes DEF Phases
<1>4. \A b \in Attempts : phase[b] \in Executing => ph[b] = phase[b]
  BY <1>1, KeptTypes
<1>5. SlotsOK(launching, active, ph)
  <2>1. \A r \in Runs : active[r] # 0 => <<r, active[r]>> \in Attempts
    BY KeptTypes, AttemptFacts
  <2>2. \A r \in launching, k \in 1..MaxAttempts : <<r, k>> \in Attempts
    BY KeptTypes, AttemptFacts
  <2> HIDE DEF ph
  <2> QED BY <2>1, <2>2, <1>4 DEF AdmissionOK, SlotsOK
<1>6. ASSUME NEW x \in lock' PROVE Holds(x, ph, followUp')
  <2>1. x \in lock /\ Holds(x, phase, followUp) /\ PhasesStay
    BY DEF Attaches, guard, AdmissionOK, LocksOK
  <2> QED BY <2>1, <1>1, LockFacts, KeptTypes DEF Holds, PhasesStay
<1>7. PICK n \in 0..Len(q), ap \in Seq(Events) : Drained(n, q, launching, active, followUps, ph, ap)
  BY DEF Attaches
<1> HIDE DEF q, ph
<1>8. /\ QueueOK(queue', phase') /\ SlotsOK(launching', active', phase')
      /\ \A x \in lock' : Holds(x, phase', followUp')
  BY <1>2, <1>3, <1>5, <1>6, <1>7, KeptTypes, AdmissionDrain
<1>9. FollowUpsOK' /\ locks' \subseteq {x[1] : x \in lock'}
  BY <1>7 DEF Attaches, Drained, AdmissionOK, FollowUpsOK, PhasesStay, LocksOK, guard
<1> QED BY <1>8, <1>9 DEF AdmissionOK, LocksOK

LEMMA AdmissionUnwind ==
  ASSUME Shape, Shape', AdmissionOK, NEW a \in Attempts, Unwinds(a)
  PROVE  AdmissionOK'
<1> DEFINE l == launching \ {a[1]}
           act == [active EXCEPT ![a[1]] = 0]
           ph == [phase EXCEPT ![a] = "done"]
<1>f. a[1] \in Runs /\ a = <<a[1], a[2]>>
  BY AttemptFacts
<1>1. phase[a] \notin Holding /\ phase[a] # "queued"
  BY DEF Unwinds, Holding
<1>2. QueueOK(queue, ph)
  BY <1>1, KeptTypes DEF AdmissionOK, QueueOK
<1>3. ph \in [Attempts -> Phases] /\ act \in [Runs -> 0..MaxAttempts] /\ l \in SUBSET Runs
  <2>1. "done" \in Phases /\ 0 \in 0..MaxAttempts
    BY FleetAssumption DEF Phases
  <2> QED BY <2>1, KeptTypes
<1>4. \A b \in Attempts : b[1] # a[1] => ph[b] = phase[b]
  BY KeptTypes
<1>5. SlotsOK(l, act, ph)
  <2>1. ASSUME NEW r \in l PROVE \E k \in 1..MaxAttempts : ph[<<r, k>>] \in Executing
    <3>1. r \in launching /\ r # a[1] /\ r \in Runs
      BY KeptTypes
    <3>2. PICK k \in 1..MaxAttempts : phase[<<r, k>>] \in Executing
      BY <3>1 DEF AdmissionOK, SlotsOK
    <3>3. ph[<<r, k>>] = phase[<<r, k>>]
      BY <3>1, <1>4, AttemptFacts
    <3> QED BY <3>2, <3>3
  <2>2. ASSUME NEW r \in Runs, act[r] # 0 PROVE ph[<<r, act[r]>>] \in Executing
    <3>1. r # a[1] /\ act[r] = active[r]
      BY <2>2, KeptTypes
    <3>2. active[r] \in 1..MaxAttempts
      BY <2>2, <3>1, KeptTypes, FleetAssumption
    <3>3. phase[<<r, active[r]>>] \in Executing
      BY <2>2, <3>1 DEF AdmissionOK, SlotsOK
    <3> QED BY <3>1, <3>2, <3>3, <1>4, AttemptFacts
  <2> QED BY <2>1, <2>2 DEF SlotsOK
<1>6. ASSUME NEW x \in lock' PROVE Holds(x, ph, followUp')
  <2>1. x \in lock /\ Holds(x, phase, followUp) /\ followUp' = followUp
    BY DEF Unwinds, guard, AdmissionOK, LocksOK
  <2> QED BY <2>1, <1>1, LockFacts, KeptTypes DEF Holds
<1>7. PICK n \in 0..Len(queue), ap \in Seq(Events) : Drained(n, queue, l, act, followUps, ph, ap)
  BY DEF Unwinds
<1> HIDE DEF l, act, ph
<1>8. /\ QueueOK(queue', phase') /\ SlotsOK(launching', active', phase')
      /\ \A x \in lock' : Holds(x, phase', followUp')
  BY <1>2, <1>3, <1>5, <1>6, <1>7, KeptTypes, AdmissionDrain
<1>9. FollowUpsOK' /\ locks' \subseteq {x[1] : x \in lock'}
  BY <1>7 DEF Unwinds, Drained, AdmissionOK, FollowUpsOK, LocksOK, guard
<1> QED BY <1>8, <1>9 DEF AdmissionOK, LocksOK

LEMMA AdmissionFollowUp ==
  ASSUME Shape, AdmissionOK, NEW r \in Runs, FollowUpMoves(r)
  PROVE  AdmissionOK'
<1>1. QueueOK(queue', phase') /\ SlotsOK(launching', active', phase')
  BY DEF FollowUpMoves, AdmissionOK
<1>2. FollowUpsOK'
  BY KeptTypes DEF FollowUpMoves, AdmissionOK, FollowUpsOK, Admitted
<1>3. ASSUME NEW x \in lock, x # <<r, 0>> PROVE Holds(x, phase', followUp')
  <2>1. Holds(x, phase, followUp) /\ phase' = phase
    BY DEF FollowUpMoves, AdmissionOK, LocksOK
  <2>2. x[2] = 0 => x[1] \in Runs \ {r}
    BY <1>3, LockFacts
  <2> QED BY <2>1, <2>2 DEF Holds, FollowUpMoves
<1>4. <<r, 0>> \in lock' => Holds(<<r, 0>>, phase', followUp')
  <2>1. <<r, 0>> \in lock => followUp[r].phase \in {"announcing", "working", "failing"}
    BY DEF AdmissionOK, LocksOK, Holds
  <2> QED BY <2>1 DEF FollowUpMoves, Holds, guard
<1>5. /\ lock' \subseteq lock \cup {<<r, 0>>}
      /\ locks' \subseteq {x[1] : x \in lock'}
  BY ZenonT(60) DEF FollowUpMoves, guard, AdmissionOK, LocksOK
<1> QED BY <1>1, <1>2, <1>3, <1>4, <1>5 DEF AdmissionOK, LocksOK

LEMMA AdmissionFollowUpEnds ==
  ASSUME Shape, Shape', AdmissionOK, NEW r \in Runs, FollowUpEnds(r)
  PROVE  AdmissionOK'
<1>1. ASSUME NEW x \in lock' PROVE Holds(x, phase, followUp')
  <2>1. x \in lock /\ x # <<r, 0>> /\ Holds(x, phase, followUp)
    BY DEF FollowUpEnds, Release, AdmissionOK, LocksOK
  <2>2. x[2] = 0 => x[1] \in Runs \ {r}
    BY <2>1, LockFacts
  <2> QED BY <2>1, <2>2 DEF Holds, FollowUpEnds
<1>2. PICK n \in 0..Len(queue), ap \in Seq(Events) :
        Drained(n, queue, launching, active, followUps \ {r}, phase, ap)
  BY DEF FollowUpEnds
<1>3. /\ QueueOK(queue', phase') /\ SlotsOK(launching', active', phase')
      /\ \A x \in lock' : Holds(x, phase', followUp')
  BY <1>1, <1>2, KeptTypes, AdmissionDrain DEF AdmissionOK
<1>4. followUps' = followUps \ {r}
  BY <1>2 DEF Drained
<1>5. FollowUpsOK'
  BY <1>4 DEF FollowUpEnds, AdmissionOK, FollowUpsOK, Admitted
<1>6. locks' \subseteq {x[1] : x \in lock'}
  BY DEF FollowUpEnds, Release, AdmissionOK, LocksOK
<1> QED BY <1>3, <1>5, <1>6 DEF AdmissionOK, LocksOK

LEMMA AdmissionStop ==
  ASSUME Shape, AdmissionOK, NEW s \in StopIds, StopCancels(s)
  PROVE  AdmissionOK'
<1>0. /\ UNCHANGED <<launching, active, followUps, lock, locks, followUp>>
  BY DEF StopCancels, guard
<1>1. CASE UNCHANGED <<queue, phase>>
  BY <1>0, <1>1 DEF AdmissionOK, FollowUpsOK, LocksOK
<1>2. ASSUME NEW m \in 1..Len(queue),
             queue' \in Seq(Attempts), Len(queue') = Len(queue) - 1,
             \A i \in 1..Len(queue') : queue'[i] = IF i < m THEN queue[i] ELSE queue[i + 1],
             phase' = [phase EXCEPT ![queue[m]] = "done"]
      PROVE  AdmissionOK'
  <2>1. queue[m] \in Attempts /\ phase[queue[m]] = "queued"
    BY KeptTypes DEF AdmissionOK, QueueOK
  <2> DEFINE at(i) == IF i < m THEN i ELSE i + 1
  <2>2. \A i \in 1..Len(queue') :
          at(i) \in 1..Len(queue) /\ at(i) # m /\ queue'[i] = queue[at(i)]
    BY <1>2, KeptTypes
  <2>3. \A i, j \in 1..Len(queue') : i # j => at(i) # at(j)
    BY <1>2, KeptTypes
  <2> HIDE DEF at
  <2>4. QueueOK(queue', phase')
    <3>1. \A i \in 1..Len(queue') : phase'[queue'[i]] = "queued"
      <4> TAKE i \in 1..Len(queue')
      <4>1. queue[at(i)] # queue[m] /\ phase[queue[at(i)]] = "queued" /\ queue[at(i)] \in Attempts
        BY <2>2, KeptTypes DEF AdmissionOK, QueueOK
      <4> QED BY <4>1, <2>2, <1>2, KeptTypes
    <3>2. \A i, j \in 1..Len(queue') : i # j => queue'[i] # queue'[j]
      <4> SUFFICES ASSUME NEW i \in 1..Len(queue'), NEW j \in 1..Len(queue'), i # j
                   PROVE  queue'[i] # queue'[j]
        OBVIOUS
      <4>1. at(i) # at(j) /\ at(i) \in 1..Len(queue) /\ at(j) \in 1..Len(queue)
        BY <2>2, <2>3
      <4>2. queue[at(i)] # queue[at(j)]
        BY <4>1 DEF AdmissionOK, QueueOK
      <4> QED BY <4>2, <2>2
    <3> QED BY <3>1, <3>2 DEF QueueOK
  <2>5. SlotsOK(launching', active', phase')
    <3>1. "queued" \notin Executing
      BY DEF Executing
    <3> QED BY <3>1, <2>1, <1>0, <1>2, MoveKeepsSlots DEF AdmissionOK
  <2>6. LocksOK'
    <3>1. "queued" \notin Holding
      BY DEF Holding
    <3> QED BY <3>1, <2>1, <1>0, <1>2, MoveKeepsLocks DEF AdmissionOK, PhasesStay
  <2>7. FollowUpsOK'
    BY <1>0 DEF AdmissionOK, FollowUpsOK
  <2> QED BY <2>4, <2>5, <2>6, <2>7 DEF AdmissionOK
<1> QED BY <1>1, <1>2, StopCancelsEffect

LEMMA AdmissionStep ==
  ASSUME Shape, AdmissionOK, Next
  PROVE  AdmissionOK'
<1>1. Shape'
  BY NextShape
<1>2. RestStep => AdmissionOK'
  <2> SUFFICES ASSUME Rests PROVE AdmissionOK'
    BY RestEffect
  <2>1. \A x \in lock : Holds(x, phase, followUp) => Holds(x, phase', followUp')
    BY LockFacts DEF Rests, PhasesStay, Holds
  <2>2. FollowUpsOK' /\ LocksOK'
    BY <2>1 DEF Rests, PhasesStay, AdmissionOK, FollowUpsOK, LocksOK, guard
  <2> QED BY <2>2 DEF Rests, AdmissionOK, guard
<1> QED BY <1>1, <1>2, StepKinds, AdmissionSpawn, AdmissionMove, AdmissionReplace,
           AdmissionAttach, AdmissionUnwind, AdmissionFollowUp, AdmissionFollowUpEnds,
           AdmissionStop

(* cancelAll() and dispose(): the steps that change `cancelling`.           *)
LEMMA DisposalEffect ==
  ASSUME Shape, DisposalOK, RestStep
  PROVE  /\ DisposalOK'
         /\ cancelling'.phase = "closed" =>
              \/ cancelling.phase = "closed"
              \/ /\ \A a \in Attempts : phase[a] \notin Executing
                 /\ \A r \in Runs : followUp[r].phase = "none" /\ completedHosts'[r] = 0
<1> USE DEF DisposalOK, RestStep
<1>1. CASE UNCHANGED <<cancelling, disposed>>
  BY <1>1
<1>2. CASE CancelAllStops
  BY <1>2 DEF CancelAllStops, Shape, TypeOK
<1>3. CASE CancelAllReturns
  BY <1>3 DEF CancelAllReturns
<1>4. CASE Disposed
  BY <1>4 DEF Disposed, Shape, TypeOK
<1>5. CASE CancelAll \/ Dispose
  BY <1>5 DEF CancelAll, Dispose, BeginCancelAll
<1>6. Reduce => UNCHANGED <<cancelling, disposed>>
  BY DEF Reduce, calls
<1>7. \A r \in Runs : Wait(r) \/ Stop(r) => UNCHANGED <<cancelling, disposed>>
  BY DEF Wait, Stop, calls
<1>8. \A a \in Attempts : Heartbeat(a) => UNCHANGED <<cancelling, disposed>>
  BY DEF Heartbeat, calls
<1>9. \A s \in StopIds : StopCleansUp(s) \/ StopReported(s) => UNCHANGED <<cancelling, disposed>>
  BY DEF StopCleansUp, StopReported
<1> QED BY <1>1, <1>2, <1>3, <1>4, <1>5, <1>6, <1>7, <1>8, <1>9 DEF CancelStep

LEMMA DisposalStep ==
  ASSUME Shape, DisposalOK, DisposedIsQuiet, Next
  PROVE  DisposalOK' /\ DisposedIsQuiet'
<1>t. /\ phase \in [Attempts -> Phases] /\ completedHosts \in [Runs -> 0..MaxAttempts]
      /\ followUp \in [Runs -> FollowUpRecords]
  BY DEF Shape, TypeOK, FollowUpRecords
<1>u. (UNCHANGED <<cancelling, disposed>>) => DisposalOK'
  BY DEF DisposalOK
<1>c. cancelling.phase = "closed" =>
        /\ disposed
        /\ \A a \in Attempts : phase[a] \notin Executing
        /\ \A r \in Runs : completedHosts[r] = 0 /\ followUp[r].phase = "none"
  BY DEF DisposalOK, DisposedIsQuiet
<1>e. /\ "creating" \notin Executing /\ "replacing" \notin Executing
      /\ "queued" \notin Executing /\ "done" \notin Executing
      /\ {"revoking", "reporting", "starting", "isolating", "announcing", "opening", "linking",
          "working", "failing"} \subseteq Executing
  BY DEF Executing
<1>1. ASSUME NEW r \in Runs, NEW k \in 1..MaxAttempts, Spawns(r, k)
      PROVE  DisposalOK' /\ DisposedIsQuiet'
  BY <1>1, <1>u, <1>c DEF Spawns, DisposedIsQuiet
<1>2. ASSUME NEW a \in Attempts, AttemptMoves(a)
      PROVE  DisposalOK' /\ DisposedIsQuiet'
  <2>1. cancelling.phase = "closed" => phase'[a] = "creating" /\ UNCHANGED completedHosts
    BY <1>2, <1>c, <1>e DEF AttemptMoves, Moves
  <2>2. \A b \in Attempts : b # a => phase'[b] = phase[b]
    BY <1>2, <1>t DEF AttemptMoves
  <2> QED BY <1>2, <2>1, <2>2, <1>u, <1>c, <1>e DEF AttemptMoves, DisposedIsQuiet
<1>3. ASSUME NEW a \in Attempts, Replaces(a) \/ Attaches(a)
      PROVE  DisposalOK' /\ DisposedIsQuiet'
  <2>1. /\ UNCHANGED <<cancelling, disposed>> /\ PhasesStay
        /\ \A r \in Runs : completedHosts'[r] \in {completedHosts[r], 0}
    BY <1>3, <1>t DEF Replaces, Attaches
  <2>2. ASSUME disposed, NEW b \in Attempts
        PROVE  phase'[b] = phase[b] \/ phase'[b] \in {"queued", "replacing"}
    <3>1. CASE Replaces(a)
      BY <3>1, <1>t DEF Replaces
    <3>2. CASE Attaches(a)
      <4> DEFINE ph == [phase EXCEPT ![a] = "queued"]
      <4>1. PICK n \in 0..Len(Append(queue, a)), ap \in Seq(Events) :
              Drained(n, Append(queue, a), launching, active, followUps, ph, ap)
        BY <3>2 DEF Attaches
      <4>2. ph[b] = phase[b] \/ ph[b] = "queued"
        BY <1>t
      <4> HIDE DEF ph
      <4>3. phase'[b] = ph[b]
        BY <4>1, <2>2 DEF Drained
      <4> QED BY <4>2, <4>3
    <3> QED BY <1>3, <3>1, <3>2
  <2> QED BY <2>1, <2>2, <1>u, <1>c, <1>e DEF DisposedIsQuiet, PhasesStay
<1>4. ASSUME NEW a \in Attempts, Unwinds(a)
      PROVE  DisposalOK' /\ DisposedIsQuiet'
  BY <1>4, <1>u, <1>c, <1>e DEF Unwinds, DisposedIsQuiet
<1>5. ASSUME NEW r \in Runs, FollowUpMoves(r) \/ FollowUpEnds(r)
      PROVE  DisposalOK' /\ DisposedIsQuiet'
  BY <1>5, <1>u, <1>c DEF FollowUpMoves, FollowUpEnds, DisposedIsQuiet
<1>6. ASSUME NEW s \in StopIds, StopCancels(s)
      PROVE  DisposalOK' /\ DisposedIsQuiet'
  <2>1. \A b \in Attempts : phase'[b] = phase[b] \/ phase'[b] = "done"
    BY <1>6, <1>t, StopCancelsEffect
  <2>2. UNCHANGED <<cancelling, disposed, followUp, completedHosts>>
    BY <1>6 DEF StopCancels
  <2> QED BY <2>1, <2>2, <1>u, <1>c, <1>e DEF DisposedIsQuiet
<1>7. CASE RestStep
  <2>1. Rests
    BY <1>7, RestEffect
  <2> QED BY <1>7, <2>1, <1>c, DisposalEffect DEF Rests, PhasesStay, DisposedIsQuiet
<1> QED BY <1>1, <1>2, <1>3, <1>4, <1>5, <1>6, <1>7, StepKinds

LEMMA KeptInvariant == Spec => []Kept
<1>1. Init => Kept
  <2> SUFFICES ASSUME Init PROVE Kept
    OBVIOUS
  <2>1. Shape
    BY InitShape
  <2>2. AdmissionOK
    BY DEF Init, NoFollowUp, AdmissionOK, QueueOK, SlotsOK, FollowUpsOK, LocksOK, Admitted
  <2>3. DisposalOK /\ DisposedIsQuiet
    BY DEF Init, DisposalOK, DisposedIsQuiet
  <2> QED BY <2>1, <2>2, <2>3 DEF Kept
<1>2. Kept /\ [Next]_vars => Kept'
  <2>1. ASSUME Kept, Next PROVE Kept'
    BY <2>1, NextShape, AdmissionStep, DisposalStep DEF Kept
  <2>2. ASSUME Kept, UNCHANGED vars PROVE Kept'
    <3>1. Shape'
      BY <2>2, NextShape DEF Kept
    <3>2. AdmissionOK' /\ DisposalOK' /\ DisposedIsQuiet'
      BY <2>2 DEF Kept, vars, store, attempts, admission, guard, ownership, calls, AdmissionOK,
                  QueueOK, SlotsOK, FollowUpsOK, LocksOK, DisposalOK, DisposedIsQuiet
    <3> QED BY <3>1, <3>2 DEF Kept
  <2> QED BY <2>1, <2>2
<1> QED BY <1>1, <1>2, PTL DEF Spec

(* Whenever nothing goes on any more, no slot, no lock and no queue entry   *)
(* is left behind, for any runs and bounds, and also for callers that retry *)
(* a run which still unwinds.                                               *)
THEOREM NothingIsLeaked == Spec => []NothingLeaks
<1>1. ASSUME Kept, Quiet
      PROVE  /\ queue = <<>> /\ launching = {} /\ followUps = {} /\ locks = {} /\ lock = {}
             /\ \A r \in Runs : active[r] = 0
  <2>t. Shape /\ AdmissionOK
    BY <1>1 DEF Kept
  <2>1. \A a \in Attempts : phase[a] \in {"none", "done"}
    BY <1>1, AttemptFacts DEF Quiet, Unoccupied, Resting
  <2>2. \A r \in Runs : followUp[r].phase = "none"
    BY <1>1 DEF Quiet, Unoccupied, Resting
  <2>3. queue = <<>>
    <3>1. Len(queue) \in Nat /\ \A i \in 1..Len(queue) : FALSE
      BY <2>t, <2>1, KeptTypes DEF AdmissionOK, QueueOK
    <3>2. Len(queue) = 0
      BY <3>1
    <3> QED BY <3>2, <2>t, KeptTypes
  <2>4. launching = {} /\ \A r \in Runs : active[r] = 0
    <3>1. \A r \in Runs, k \in 1..MaxAttempts : phase[<<r, k>>] \notin Executing
      BY <2>1, AttemptFacts DEF Executing
    <3>2. \A r \in Runs : active[r] # 0 => active[r] \in 1..MaxAttempts
      BY <2>t, KeptTypes, FleetAssumption
    <3> QED BY <2>t, <3>1, <3>2, KeptTypes DEF AdmissionOK, SlotsOK
  <2>5. followUps = {}
    BY <2>t, <2>2 DEF AdmissionOK, FollowUpsOK, Admitted
  <2>6. lock = {}
    BY <2>t, <2>1, <2>2, LockFacts DEF AdmissionOK, LocksOK, Holds, Holding
  <2>7. locks = {}
    BY <2>t, <2>6 DEF AdmissionOK, LocksOK
  <2> QED BY <2>3, <2>4, <2>5, <2>6, <2>7
<1>2. Kept => NothingLeaks
  BY <1>1 DEF NothingLeaks
<1> QED BY <1>2, KeptInvariant, PTL

(* After dispose() returned no child executes, no follow-up goes on and no  *)
(* host is retained, also not one whose spawn was in flight.                *)
THEOREM DisposedStaysQuiet == Spec => []DisposedIsQuiet
<1>1. Kept => DisposedIsQuiet
  BY DEF Kept
<1> QED BY <1>1, KeptInvariant, PTL

-----------------------------------------------------------------------------
(* What is appended, and who still has to report                            *)

AtWork == {"opening", "linking", "working"}

(* The status of the event an attempt, or a follow-up, waits for.           *)
Awaits(p) ==
  CASE p = "creating" -> "queued"  [] p = "starting" -> "starting"
    [] p = "announcing" -> "running" [] p = "linking" -> "same"
    [] p = "reporting" -> "completed" [] p = "failing" -> "failed" [] OTHER -> "none"
FollowUpAwaits(p) ==
  CASE p = "announcing" -> "running" [] p = "reporting" -> "completed"
    [] p = "failing" -> "failed" [] OTHER -> "none"

(* Attempts that will append the end of their run, in states that are not   *)
(* terminal.                                                                *)
Owing   == {"creating", "replacing", "queued", "starting", "isolating", "announcing"} \cup AtWork
Unended == {"queued", "starting", "running"}

(* An append in the queue is the one its actor waits for, the end that a    *)
(* stop reports, or a heartbeat of an attempt that is at work or whose end  *)
(* follows in the queue.                                                    *)
Meant(i) ==
  LET e == appends[i] IN
  /\ e.run = e.by.run
  /\ \/ \E a \in Attempts : e.by = Exec(a) /\ e.status = Awaits(phase[a])
     \/ \E r \in Runs : e.by = FollowUp(r) /\ e.status = FollowUpAwaits(followUp[r].phase)
     \/ e.by \in StopIds /\ e.status = "failed"
     \/ /\ e.by = NoOne(e.run) /\ e.status = "running"
        /\ \E a \in Attempts :
             /\ a[1] = e.run
             /\ \/ phase[a] \in AtWork
                \/ \E j \in (i + 1)..Len(appends) :
                     appends[j].by = Exec(a) /\ appends[j].status \in Terminal

AppendsOK ==
  /\ \A i \in 1..Len(appends) : Meant(i)
  /\ \A i, j \in 1..Len(appends) :
       i # j /\ appends[i].by = appends[j].by => appends[i].by.via \notin {"exec", "send"}
  /\ reduced => appends[1].status \in {"same", status[appends[1].run]}

(* An attempt or a stop() still has to append the end of the run.           *)
EndComes(r) ==
  \/ \E a \in Attempts : a[1] = r /\ phase[a] \in Owing
  \/ \E s \in StopIds : s.run = r /\ stop[s].phase \in {"children", "cleanup"}

Owed(r) ==
  \/ EndComes(r)
  \/ followUp[r].phase \in {"announcing", "working"}
  \/ followUp[r].abandoned

(* A run whose state is not terminal has its end in the queue, or somebody  *)
(* who still has to append it, or its follow-up found its host disposed.    *)
ReportsOK ==
  \A r \in Runs :
    /\ status[r] \in Unended
    /\ \A i \in 1..Len(appends) : appends[i].run = r => appends[i].status \notin Terminal
    => Owed(r)

-----------------------------------------------------------------------------
(* One step of the queue                                                    *)

(* The first d appends are over, what is behind them stays in order, and    *)
(* what a step appends (Added) comes last.                                  *)
Queues(d) ==
  /\ appends' \in Seq(Events) /\ status' = status
  /\ Len(appends) - d <= Len(appends')
  /\ \A i \in 1..(Len(appends) - d) : appends'[i] = appends[i + d]
  /\ d = 1 => reduced
  /\ reduced' => reduced /\ d = 0
Added(d) == {i \in 1..Len(appends') : i > Len(appends) - d}

(* The actor goes on after its append.                                      *)
Through(x, d) == d = 1 /\ appends[1].by = x

(* Who moves was not waiting for an append, or it is over; what is added is *)
(* said by who moves there.                                                 *)
Said(e, d) ==
  /\ e.run = e.by.run
  /\ \/ \E a \in Attempts : /\ e.by = Exec(a) /\ e.status = Awaits(phase'[a])
                            /\ phase'[a] # phase[a]
     \/ \E r \in Runs : /\ e.by = FollowUp(r) /\ e.status = FollowUpAwaits(followUp'[r].phase)
                        /\ followUp'[r].phase # followUp[r].phase
     \/ e.by \in StopIds /\ e.status = "failed"
     \/ /\ e.by = NoOne(e.run) /\ e.status = "running"
        /\ \E a \in Attempts : a[1] = e.run /\ phase'[a] \in AtWork

Ends(x, d) == \E i \in Added(d) : appends'[i].by = x /\ appends'[i].status \in Terminal

Says(d) ==
  /\ \A a \in Attempts : phase'[a] # phase[a] =>
       Awaits(phase[a]) = "none" \/ Through(Exec(a), d)
  /\ \A r \in Runs : followUp'[r].phase # followUp[r].phase =>
       FollowUpAwaits(followUp[r].phase) = "none" \/ Through(FollowUp(r), d)
  /\ \A i \in Added(d) : Said(appends'[i], d)
  /\ \A i, j \in Added(d) :
       i # j /\ appends'[i].by = appends'[j].by => appends'[i].by.via \notin {"exec", "send"}

(* That a run was abandoned is forgotten only when its end comes, or is     *)
(* there: a later follow-up of the run has reported.                        *)
Excuses(r, d) ==
  followUp[r].abandoned =>
    \/ followUp'[r].abandoned \/ EndComes(r)
    \/ followUp[r].phase \in {"reporting", "failing"} /\ Through(FollowUp(r), d)

FollowUpsStay ==
  \A r \in Runs : /\ followUp'[r].phase = followUp[r].phase
                  /\ followUp[r].abandoned => followUp'[r].abandoned \/ EndComes(r)

(* Who owes the end of a run keeps owing it, or appends it; stop() takes    *)
(* over from what it takes out of the queue, and has nothing to report when *)
(* the run has ended.                                                       *)
Owes(d) ==
  /\ \A a \in Attempts : phase[a] \in AtWork => phase'[a] \in AtWork \/ Ends(Exec(a), d)
  /\ \A a \in Attempts : phase[a] \in Owing =>
       \/ phase'[a] \in Owing \/ Ends(Exec(a), d)
       \/ \E s \in StopIds : s.run = a[1] /\ stop'[s].phase = "cleanup"
  /\ \A r \in Runs : followUp[r].phase \in {"announcing", "working"} =>
       \/ followUp'[r].phase \in {"announcing", "working"} \/ Ends(FollowUp(r), d)
       \/ followUp'[r].abandoned
  /\ \A r \in Runs : Excuses(r, d)
  /\ \A s \in StopIds : stop[s].phase \in {"children", "cleanup"} =>
       \/ stop'[s].phase \in {"children", "cleanup"} \/ Ends(s, d)
       \/ status[s.run] \notin Unended

QueueStep == \E d \in {0, 1} : Queues(d) /\ Says(d) /\ Owes(d)

LEMMA StayFacts ==
  /\ UNCHANGED followUp => FollowUpsStay
  /\ FollowUpsStay => \A r \in Runs, d \in {0, 1} :
       /\ followUp'[r].phase = followUp[r].phase
       /\ Excuses(r, d)
BY DEF FollowUpsStay, Excuses

LEMMA Distinct ==
  /\ \A a, b \in Attempts : Exec(a) = Exec(b) => a = b
  /\ \A r, o \in Runs : FollowUp(r) = FollowUp(o) => r = o
  /\ \A a \in Attempts : Exec(a).via = "exec"
  /\ \A r \in Runs : FollowUp(r).via = "send" /\ NoOne(r).via = "nobody"
  /\ \A s \in StopIds : s.via \in {"user", "all"}
<1>1. \A a, b \in Attempts : Exec(a) = Exec(b) => a = b
  <2> SUFFICES ASSUME NEW a \in Attempts, NEW b \in Attempts, Exec(a) = Exec(b) PROVE a = b
    OBVIOUS
  <2>1. Exec(a).run = a[1] /\ Exec(a).n = a[2] /\ Exec(b).run = b[1] /\ Exec(b).n = b[2]
    BY DEF Exec
  <2> QED BY <2>1, AttemptFacts
<1>2. \A s \in StopIds : s.via \in {"user", "all"}
  BY DEF StopIds
<1>3. \A r, o \in Runs : FollowUp(r) = FollowUp(o) => r = o
  <2> SUFFICES ASSUME NEW r \in Runs, NEW o \in Runs, FollowUp(r) = FollowUp(o) PROVE r = o
    OBVIOUS
  <2>1. FollowUp(r).run = r /\ FollowUp(o).run = o
    BY DEF FollowUp
  <2> QED BY <2>1
<1>4. \A a \in Attempts : Exec(a).via = "exec"
  BY DEF Exec
<1>5. \A r \in Runs : FollowUp(r).via = "send" /\ NoOne(r).via = "nobody"
  BY DEF FollowUp, NoOne
<1> QED BY <1>1, <1>2, <1>3, <1>4, <1>5

LEMMA EventTypes ==
  ASSUME Shape
  PROVE  /\ appends \in Seq(Events) /\ Len(appends) \in Nat
         /\ \A i \in 1..Len(appends) :
              /\ appends[i] \in Events /\ appends[i].by \in Actors
              /\ appends[i].run \in Runs /\ appends[i].status \in Statuses \cup {"same"}
         /\ reduced => Len(appends) >= 1
         /\ status \in [Runs -> Statuses]
<1>1. appends \in Seq(Events) /\ Len(appends) \in Nat /\ status \in [Runs -> Statuses]
  BY DEF Shape, TypeOK
<1>2. \A i \in 1..Len(appends) : appends[i] \in Events
  BY <1>1
<1>3. \A e \in Events : e.by \in Actors /\ e.run \in Runs /\ e.status \in Statuses \cup {"same"}
  BY DEF Events
<1>4. reduced => Len(appends) >= 1
  BY <1>1 DEF Shape
<1> QED BY <1>1, <1>2, <1>3, <1>4

(* What stays in the queue is not of an attempt or a follow-up that moves.  *)
LEMMA OldAppends ==
  ASSUME Shape, AppendsOK, NEW d \in {0, 1}, Says(d), NEW k \in 1..Len(appends), k > d
  PROVE  /\ \A a \in Attempts : appends[k].by = Exec(a) =>
              phase'[a] = phase[a] /\ appends[k].status = Awaits(phase[a])
         /\ \A r \in Runs : appends[k].by = FollowUp(r) =>
              /\ followUp'[r].phase = followUp[r].phase
              /\ appends[k].status = FollowUpAwaits(followUp[r].phase)
<1>0. /\ "none" \notin Statuses \cup {"same"} /\ appends[k].status \in Statuses \cup {"same"}
      /\ Meant(k)
  BY EventTypes DEF Statuses, Terminal, AppendsOK
<1>1. ASSUME NEW x, Through(x, d), appends[k].by = x PROVE x.via \notin {"exec", "send"}
  <2>1. 1 \in 1..Len(appends) /\ k # 1 /\ appends[1].by = appends[k].by
    BY <1>1, EventTypes DEF Through
  <2> QED BY <1>1, <2>1 DEF AppendsOK
<1>2. ASSUME NEW a \in Attempts, appends[k].by = Exec(a)
      PROVE  phase'[a] = phase[a] /\ appends[k].status = Awaits(phase[a])
  <2>1. Exec(a).via = "exec" /\ ~Through(Exec(a), d)
    BY <1>1, <1>2, Distinct
  <2>2. appends[k].status = Awaits(phase[a])
    <3>1. \A r \in Runs : Exec(a) # FollowUp(r) /\ Exec(a) # NoOne(r)
      BY Distinct
    <3>2. Exec(a) \notin StopIds
      BY <2>1, Distinct
    <3>3. \E b \in Attempts : Exec(a) = Exec(b) /\ appends[k].status = Awaits(phase[b])
      BY <1>0, <1>2, <3>1, <3>2, EventTypes DEF Meant
    <3> QED BY <3>3, Distinct
  <2>3. Awaits(phase[a]) # "none"
    BY <1>0, <2>2
  <2> QED BY <2>1, <2>2, <2>3 DEF Says
<1>3. ASSUME NEW r \in Runs, appends[k].by = FollowUp(r)
      PROVE  /\ followUp'[r].phase = followUp[r].phase
             /\ appends[k].status = FollowUpAwaits(followUp[r].phase)
  <2>1. FollowUp(r).via = "send" /\ ~Through(FollowUp(r), d)
    BY <1>1, <1>3, Distinct
  <2>2. appends[k].status = FollowUpAwaits(followUp[r].phase)
    <3>1. /\ \A a \in Attempts : FollowUp(r) # Exec(a)
          /\ \A o \in Runs : FollowUp(r) # NoOne(o)
      BY Distinct
    <3>2. FollowUp(r) \notin StopIds
      BY <2>1, Distinct
    <3>3. \E o \in Runs : FollowUp(r) = FollowUp(o)
                          /\ appends[k].status = FollowUpAwaits(followUp[o].phase)
      BY <1>0, <1>3, <3>1, <3>2, EventTypes DEF Meant
    <3> QED BY <3>3, Distinct
  <2>3. FollowUpAwaits(followUp[r].phase) # "none"
    BY <1>0, <2>2
  <2> QED BY <2>1, <2>2, <2>3 DEF Says
<1> QED BY <1>2, <1>3

LEMMA AppendsStep ==
  ASSUME Shape, AppendsOK, NEW d \in {0, 1}, Queues(d), Says(d), Owes(d)
  PROVE  AppendsOK'
<1>t. /\ Len(appends) \in Nat /\ Len(appends') \in Nat /\ (reduced => Len(appends) >= 1)
      /\ \A k \in 1..Len(appends) : appends[k].run \in Runs
  BY EventTypes DEF Queues
<1>1. \A i \in 1..Len(appends') : i \in Added(d) \/ i + d \in 1..Len(appends)
  BY <1>t DEF Added
<1>2. ASSUME NEW i \in 1..Len(appends'), NEW k \in 1..Len(appends), k = i + d
      PROVE  appends'[i] = appends[k] /\ k > d
  BY <1>2, <1>t DEF Queues
<1>3. ASSUME NEW i \in 1..Len(appends'), NEW k \in 1..Len(appends), k = i + d PROVE Meant(i)'
  <2>0. appends'[i] = appends[k] /\ k > d /\ Meant(k)
    BY <1>2, <1>3 DEF AppendsOK
  <2>1. ASSUME NEW a \in Attempts, appends[k].by = Exec(a), appends[k].status = Awaits(phase[a])
        PROVE  appends[k].status = Awaits(phase'[a])
    BY <2>0, <2>1, OldAppends
  <2>2. ASSUME NEW r \in Runs, appends[k].by = FollowUp(r),
               appends[k].status = FollowUpAwaits(followUp[r].phase)
        PROVE  appends[k].status = FollowUpAwaits(followUp'[r].phase)
    BY <2>0, <2>2, OldAppends
  <2>3. ASSUME NEW a \in Attempts, phase[a] \in AtWork
        PROVE  \/ phase'[a] \in AtWork
               \/ \E j \in (i + 1)..Len(appends') :
                    appends'[j].by = Exec(a) /\ appends'[j].status \in Terminal
    <3>1. phase'[a] \in AtWork \/ Ends(Exec(a), d)
      BY <2>3 DEF Owes
    <3>2. \A j \in Added(d) : j \in (i + 1)..Len(appends')
      BY <1>3, <1>t DEF Added
    <3> QED BY <3>1, <3>2 DEF Ends
  <2>4. ASSUME NEW a \in Attempts, NEW j \in (k + 1)..Len(appends),
               appends[j].by = Exec(a), appends[j].status \in Terminal
        PROVE  \E m \in (i + 1)..Len(appends') :
                 appends'[m].by = Exec(a) /\ appends'[m].status \in Terminal
    <3>1. PICK m \in Nat : j = m + d
      BY <1>t, <1>3
    <3>2. m \in (i + 1)..Len(appends') /\ m \in 1..(Len(appends) - d)
      BY <1>t, <1>3, <3>1 DEF Queues
    <3>3. appends'[m] = appends[j]
      BY <3>1, <3>2 DEF Queues
    <3> QED BY <2>4, <3>2, <3>3
  <2> QED BY <2>0, <2>1, <2>2, <2>3, <2>4 DEF Meant
<1>4. ASSUME NEW i \in Added(d) PROVE Meant(i)'
  BY <1>4 DEF Says, Said, Meant
<1>5. ASSUME NEW i \in 1..Len(appends'), NEW j \in 1..Len(appends'), i # j,
             appends'[i].by = appends'[j].by
      PROVE  appends'[i].by.via \notin {"exec", "send"}
  <2>1. ASSUME NEW k \in 1..Len(appends), k > d, NEW m \in Added(d),
               appends[k].by = appends'[m].by
        PROVE  appends'[m].by.via \notin {"exec", "send"}
    <3>1. Said(appends'[m], d)
      BY <2>1 DEF Says
    <3>2. \A a \in Attempts : appends'[m].by = Exec(a) => phase'[a] = phase[a]
      BY <2>1, OldAppends
    <3>3. \A r \in Runs : appends'[m].by = FollowUp(r) => followUp'[r].phase = followUp[r].phase
      BY <2>1, OldAppends
    <3>4. appends'[m].run \in Runs
      <4>1. appends' \in Seq(Events) /\ m \in 1..Len(appends')
        BY <2>1 DEF Queues, Added
      <4>2. appends'[m] \in Events
        BY <4>1
      <4> QED BY <4>2 DEF Events
    <3> QED BY <3>1, <3>2, <3>3, <3>4, Distinct DEF Said
  <2>2. CASE i \in Added(d) /\ j \in Added(d)
    BY <1>5, <2>2 DEF Says
  <2>3. CASE i \notin Added(d) /\ j \notin Added(d)
    <3>1. PICK k \in 1..Len(appends), m \in 1..Len(appends) : k = i + d /\ m = j + d
      BY <2>3, <1>1
    <3>2. appends'[i] = appends[k] /\ appends'[j] = appends[m] /\ k # m
      BY <3>1, <1>2, <1>5
    <3> QED BY <1>5, <3>2 DEF AppendsOK
  <2>4. CASE i \notin Added(d) /\ j \in Added(d)
    <3>1. PICK k \in 1..Len(appends) : k = i + d
      BY <2>4, <1>1
    <3> QED BY <1>2, <1>5, <2>1, <2>4, <3>1
  <2>5. CASE i \in Added(d) /\ j \notin Added(d)
    <3>1. PICK k \in 1..Len(appends) : k = j + d
      BY <2>5, <1>1
    <3> QED BY <1>2, <1>5, <2>1, <2>5, <3>1
  <2> QED BY <2>2, <2>3, <2>4, <2>5
<1>6. ASSUME reduced' PROVE appends'[1].status \in {"same", status'[appends'[1].run]}
  <2>1. reduced /\ d = 0 /\ status' = status /\ 1 \in 1..(Len(appends) - d)
    BY <1>6, <1>t DEF Queues
  <2>2. appends'[1] = appends[1]
    BY <2>1 DEF Queues
  <2> QED BY <2>1, <2>2 DEF AppendsOK
<1>7. \A i \in 1..Len(appends') : Meant(i)'
  BY <1>1, <1>3, <1>4
<1> QED BY <1>5, <1>6, <1>7 DEF AppendsOK

LEMMA ReportsStep ==
  ASSUME Shape, AppendsOK, ReportsOK, NEW d \in {0, 1}, Queues(d), Says(d), Owes(d)
  PROVE  ReportsOK'
<1> SUFFICES ASSUME NEW r \in Runs, status'[r] \in Unended,
                    \A i \in 1..Len(appends') : appends'[i].run = r => appends'[i].status \notin Terminal
             PROVE  Owed(r)'
  BY DEF ReportsOK
<1>t. Len(appends) \in Nat /\ Len(appends') \in Nat /\ (reduced => Len(appends) >= 1)
  BY EventTypes DEF Queues
<1>d. \A st \in Terminal : st \notin Unended /\ st # "same"
  BY DEF Terminal, Unended
<1>1. ASSUME NEW k \in 1..Len(appends), appends[k].run = r PROVE appends[k].status \notin Terminal
  <2>1. CASE k > d
    <3>0. k - d \in 1..Len(appends') /\ k = (k - d) + d
      BY <1>t, <2>1 DEF Queues
    <3>1. PICK i \in 1..Len(appends') : k = i + d
      BY <3>0
    <3>2. i \in 1..(Len(appends) - d)
      BY <1>t, <3>1
    <3>3. appends'[i] = appends[k]
      BY <3>1, <3>2 DEF Queues
    <3> QED BY <1>1, <3>3
  <2>2. CASE k = 1 /\ d = 1
    BY <1>1, <1>d, <2>2 DEF Queues, AppendsOK
  <2> QED BY <2>1, <2>2, <1>t
<1>2. Owed(r)
  BY <1>1 DEF Queues, ReportsOK
<1>3. ASSUME NEW x, x.run = r PROVE ~Ends(x, d)
  BY <1>3 DEF Ends, Says, Said, Added
<1>4. ASSUME NEW a \in Attempts, a[1] = r, phase[a] \in Owing PROVE Owed(r)'
  BY <1>3, <1>4, ActorFacts DEF Owes, Owed, EndComes
<1>5. ASSUME followUp[r].phase \in {"announcing", "working"} PROVE Owed(r)'
  BY <1>3, <1>5, ActorFacts DEF Owes, Owed
<1>6. ASSUME NEW s \in StopIds, s.run = r, stop[s].phase \in {"children", "cleanup"} PROVE Owed(r)'
  BY <1>3, <1>6 DEF Owes, Owed, EndComes, Queues
<1>7. EndComes(r) => Owed(r)'
  BY <1>4, <1>6 DEF EndComes
<1>8. ASSUME followUp[r].abandoned PROVE Owed(r)'
  <2>1. Excuses(r, d)
    BY DEF Owes
  <2>2. CASE followUp'[r].abandoned
    BY <2>2 DEF Owed
  <2>3. CASE followUp[r].phase \in {"reporting", "failing"} /\ Through(FollowUp(r), d)
    <3>1. appends[1].by = FollowUp(r) /\ d = 1 /\ reduced /\ 1 \in 1..Len(appends)
      BY <1>t, <2>3 DEF Through, Queues
    <3>2. appends[1].status = FollowUpAwaits(followUp[r].phase) /\ appends[1].run = r
      <4>1. Meant(1) /\ \A a \in Attempts : FollowUp(r) # Exec(a)
        BY <3>1, Distinct DEF AppendsOK
      <4>2. FollowUp(r) \notin StopIds /\ \A o \in Runs : FollowUp(r) # NoOne(o)
        BY Distinct
      <4>3. appends[1].run = r
        BY <3>1, <4>1, ActorFacts DEF Meant
      <4>4. PICK o \in Runs :
              FollowUp(r) = FollowUp(o) /\ appends[1].status = FollowUpAwaits(followUp[o].phase)
        BY <3>1, <4>1, <4>2, <4>3 DEF Meant
      <4> QED BY <4>3, <4>4, Distinct
    <3>3. FollowUpAwaits(followUp[r].phase) \in Terminal
      BY <2>3 DEF FollowUpAwaits, Terminal
    <3> QED BY <1>1, <3>1, <3>2, <3>3
  <2> QED BY <1>7, <1>8, <2>1, <2>2, <2>3 DEF Excuses
<1> QED BY <1>2, <1>5, <1>7, <1>8 DEF Owed

(* append() brings the event into the snapshot.                             *)
LEMMA ReduceStep ==
  ASSUME Shape, AppendsOK, ReportsOK, Reduce
  PROVE  AppendsOK' /\ ReportsOK'
<1> DEFINE e == appends[1]
<1>t. /\ appends \in Seq(Events) /\ Len(appends) \in Nat /\ Len(appends) >= 1
      /\ e.run \in Runs /\ Meant(1) /\ status \in [Runs -> Statuses]
  <2>1. Len(appends) >= 1
    BY EventTypes DEF Reduce
  <2> QED BY <2>1, EventTypes DEF AppendsOK
<1>1. /\ status' = IF e.status = "same" THEN status ELSE [status EXCEPT ![e.run] = e.status]
      /\ reduced' = (e.by.via # "nobody")
      /\ appends' = IF e.by.via # "nobody" THEN appends ELSE Tail(appends)
      /\ UNCHANGED <<phase, followUp, stop>>
  <2>1. Head(appends) = e
    BY <1>t
  <2> HIDE DEF e
  <2> QED BY <2>1 DEF Reduce, attempts, calls
<1>2. PICK d \in {0, 1} : d = 1 <=> e.by.via = "nobody"
  OBVIOUS
<1>3. /\ Len(appends') = Len(appends) - d
      /\ \A i \in 1..(Len(appends) - d) : appends'[i] = appends[i + d]
  BY <1>t, <1>1, <1>2
<1>4. AppendsOK'
  <2>1. ASSUME NEW i \in 1..Len(appends') PROVE Meant(i)'
    <3>1. PICK k \in 1..Len(appends) : k = i + d
      BY <1>t, <1>3
    <3>2. appends'[i] = appends[k] /\ Meant(k)
      BY <1>3, <3>1 DEF AppendsOK
    <3>3. ASSUME NEW a \in Attempts, NEW j \in (k + 1)..Len(appends),
                 appends[j].by = Exec(a), appends[j].status \in Terminal
          PROVE  \E m \in (i + 1)..Len(appends') :
                   appends'[m].by = Exec(a) /\ appends'[m].status \in Terminal
      <4>1. PICK m \in Nat : j = m + d
        BY <1>t, <3>1
      <4>2. m \in (i + 1)..Len(appends') /\ appends'[m] = appends[j]
        BY <1>t, <1>3, <3>1, <4>1
      <4> QED BY <3>3, <4>2
    <3> QED BY <1>1, <3>2, <3>3 DEF Meant
  <2>2. ASSUME NEW i \in 1..Len(appends'), NEW j \in 1..Len(appends'), i # j,
               appends'[i].by = appends'[j].by
        PROVE  appends'[i].by.via \notin {"exec", "send"}
    <3>1. PICK k \in 1..Len(appends), m \in 1..Len(appends) : k = i + d /\ m = j + d
      BY <1>t, <1>3
    <3>2. appends'[i] = appends[k] /\ appends'[j] = appends[m] /\ k # m
      BY <1>3, <2>2, <3>1
    <3> QED BY <2>2, <3>2 DEF AppendsOK
  <2>3. ASSUME reduced' PROVE appends'[1].status \in {"same", status'[appends'[1].run]}
    <3>1. appends' = appends
      BY <1>1, <2>3
    <3> QED BY <1>t, <1>1, <3>1
  <2> QED BY <2>1, <2>2, <2>3 DEF AppendsOK
<1>5. ReportsOK'
  <2> SUFFICES ASSUME NEW r \in Runs, status'[r] \in Unended,
                      \A i \in 1..Len(appends') :
                        appends'[i].run = r => appends'[i].status \notin Terminal
               PROVE  Owed(r)
    BY <1>1 DEF ReportsOK, Owed, EndComes
  <2>0. ASSUME NEW k \in 1..Len(appends), appends[k].run = r, k # 1 \/ d = 0
        PROVE  appends[k].status \notin Terminal
    <3>1. PICK i \in 1..Len(appends') : k = i + d
      <4>1. Len(appends) \in Nat /\ Len(appends') = Len(appends) - d
        BY <1>t, <1>3
      <4>2. k - d \in 1..Len(appends') /\ k = (k - d) + d
        BY ONLY <4>1, <2>0, <1>2, d \in {0, 1}, k \in 1..Len(appends)
      <4> QED BY ONLY <4>2
    <3>2. appends'[i] = appends[k]
      BY <1>t, <1>3, <3>1
    <3> QED BY <2>0, <3>2
  <2>d. \A st \in Terminal : st # "running"
    BY DEF Terminal
  <2>1. CASE e.run = r /\ e.status # "same"
    <3>1. e.status \in Unended
      BY <1>t, <1>1, <2>1
    <3>2. ASSUME NEW a \in Attempts, e.by = Exec(a), e.status = Awaits(phase[a]) PROVE Owed(r)
      <4>1. phase[a] \in Owing
        BY <3>1, <3>2 DEF Awaits, Unended, Owing
      <4>2. a[1] = r
        BY <1>t, <2>1, <3>2, ActorFacts DEF Meant
      <4> QED BY <4>1, <4>2 DEF Owed, EndComes
    <3>3. ASSUME NEW o \in Runs, e.by = FollowUp(o), e.status = FollowUpAwaits(followUp[o].phase)
          PROVE  Owed(r)
      <4>1. followUp[o].phase = "announcing"
        BY <3>1, <3>3 DEF FollowUpAwaits, Unended
      <4>2. o = r
        BY <1>t, <2>1, <3>3, ActorFacts DEF Meant
      <4> QED BY <4>1, <4>2 DEF Owed
    <3>4. ASSUME NEW a \in Attempts, a[1] = r,
                 \/ phase[a] \in AtWork
                 \/ \E j \in 2..Len(appends) :
                      appends[j].by = Exec(a) /\ appends[j].status \in Terminal
          PROVE  Owed(r)
      <4>1. ASSUME NEW j \in 2..Len(appends), appends[j].by = Exec(a),
                   appends[j].status \in Terminal
            PROVE  FALSE
        <5>1. j \in 1..Len(appends) /\ j # 1
          BY <1>t
        <5>2. appends[j].run = r
          BY <3>4, <4>1, <5>1, ActorFacts DEF AppendsOK, Meant
        <5> QED BY <2>0, <4>1, <5>1, <5>2
      <4> QED BY <3>4, <4>1 DEF Owed, EndComes, Owing
    <3>5. e.status # "failed"
      BY <3>1 DEF Unended
    <3>6. ASSUME e.by = NoOne(e.run),
                 NEW a \in Attempts, a[1] = e.run,
                 \/ phase[a] \in AtWork
                 \/ \E j \in (1 + 1)..Len(appends) :
                      appends[j].by = Exec(a) /\ appends[j].status \in Terminal
          PROVE  Owed(r)
      BY <2>1, <3>4, <3>6
    <3> QED BY <1>t, <3>2, <3>3, <3>5, <3>6 DEF Meant
  <2>2. CASE ~(e.run = r /\ e.status # "same")
    <3>1. status[r] \in Unended
      BY <1>t, <1>1, <2>2
    <3>2. \A k \in 1..Len(appends) : appends[k].run = r => appends[k].status \notin Terminal
      BY <2>0, <2>2 DEF Terminal
    <3> QED BY <3>1, <3>2 DEF ReportsOK
  <2> QED BY <2>1, <2>2
<1> QED BY <1>4, <1>5

-----------------------------------------------------------------------------
(* What the actions append                                                  *)

(* A step appends nothing or one event, with or without an append that is   *)
(* over.                                                                    *)
LEMMA QueueShapes ==
  ASSUME Shape, status' = status, NEW ap, NEW d \in {0, 1},
         \/ d = 0 /\ ap = appends /\ reduced' = reduced
         \/ d = 1 /\ reduced /\ ap = Tail(appends) /\ reduced' = FALSE
  PROVE  /\ ap \in Seq(Events) /\ Len(ap) = Len(appends) - d
         /\ appends' = ap => Queues(d) /\ Added(d) = {}
         /\ \A e \in Events : appends' = Append(ap, e) =>
              /\ Queues(d) /\ Added(d) = {Len(ap) + 1}
              /\ appends'[Len(ap) + 1] = e
<1>t. appends \in Seq(Events) /\ Len(appends) \in Nat /\ (reduced => Len(appends) >= 1)
  BY EventTypes
<1>1. /\ ap \in Seq(Events) /\ Len(ap) = Len(appends) - d /\ Len(ap) \in Nat
      /\ \A i \in 1..(Len(appends) - d) : ap[i] = appends[i + d]
      /\ d = 1 => reduced /\ ~reduced'
      /\ reduced' => reduced /\ d = 0
  BY <1>t
<1>2. ASSUME appends' = ap PROVE Queues(d) /\ Added(d) = {}
  BY <1>1, <1>2 DEF Queues, Added
<1>3. ASSUME NEW e \in Events, appends' = Append(ap, e)
      PROVE  /\ Queues(d) /\ Added(d) = {Len(ap) + 1}
             /\ appends'[Len(ap) + 1] = e
  <2>1. /\ appends' \in Seq(Events) /\ Len(appends') = Len(ap) + 1
        /\ appends'[Len(ap) + 1] = e
        /\ \A i \in 1..Len(ap) : appends'[i] = ap[i]
    BY <1>1, <1>3
  <2> QED BY <1>1, <2>1 DEF Queues, Added
<1> QED BY <1>1, <1>2, <1>3

(* One attempt moves: it goes on after its append or waited for none, and   *)
(* appends the event it waits for next, if any.                             *)
LEMMA AttemptSays ==
  ASSUME Shape, NEW a \in Attempts, NEW p, phase' = [phase EXCEPT ![a] = p], phase[a] # p,
         UNCHANGED <<status, stop>>, FollowUpsStay,
         NEW d \in {0, 1}, NEW ap,
         \/ /\ d = 0 /\ ap = appends /\ reduced' = reduced /\ Awaits(phase[a]) = "none"
         \/ /\ d = 1 /\ Settled(Exec(a)) /\ ap = Tail(appends) /\ reduced' = FALSE,
         \/ appends' = ap /\ (phase[a] \in Owing => p \in Owing)
                          /\ (phase[a] \in AtWork => p \in AtWork)
         \/ /\ appends' = Append(ap, Event(Exec(a), Awaits(p)))
            /\ Awaits(p) \in Statuses \cup {"same"}
            /\ (phase[a] \in Owing => p \in Owing \/ Awaits(p) \in Terminal)
            /\ (phase[a] \in AtWork => p \in AtWork \/ Awaits(p) \in Terminal)
  PROVE  QueueStep
<1> DEFINE e == Event(Exec(a), Awaits(p))
<1>t. phase \in [Attempts -> Phases] /\ Exec(a) \in Actors /\ Exec(a).run \in Runs
  BY AttemptFacts, ActorFacts, KeptTypes
<1>1. phase'[a] = p /\ \A b \in Attempts : b # a => phase'[b] = phase[b]
  BY <1>t
<1>2. Awaits(phase[a]) = "none" \/ Through(Exec(a), d)
  BY EventTypes DEF Through, Settled
<1>3. \/ d = 0 /\ ap = appends /\ reduced' = reduced
      \/ d = 1 /\ reduced /\ ap = Tail(appends) /\ reduced' = FALSE
  BY DEF Settled
<1>4. CASE appends' = ap /\ (phase[a] \in Owing => p \in Owing)
                         /\ (phase[a] \in AtWork => p \in AtWork)
  <2>1. Queues(d) /\ Added(d) = {}
    BY <1>3, <1>4, QueueShapes
  <2>2. Says(d)
    BY <1>1, <1>2, <2>1, StayFacts DEF Says
  <2>3. Owes(d)
    BY <1>1, <1>4, StayFacts DEF Owes
  <2> QED BY <2>1, <2>2, <2>3 DEF QueueStep
<1>5. CASE /\ appends' = Append(ap, e) /\ Awaits(p) \in Statuses \cup {"same"}
           /\ (phase[a] \in Owing => p \in Owing \/ Awaits(p) \in Terminal)
           /\ (phase[a] \in AtWork => p \in AtWork \/ Awaits(p) \in Terminal)
  <2>0. e \in Events /\ e.by = Exec(a) /\ e.status = Awaits(p) /\ e.run = e.by.run
    BY <1>t, <1>5, EventFacts DEF Event
  <2> HIDE DEF e
  <2>1. PICK k : Queues(d) /\ Added(d) = {k} /\ appends'[k] = e
    BY <1>3, <1>5, <2>0, QueueShapes
  <2>2. Says(d)
    BY <1>1, <1>2, <2>0, <2>1, StayFacts DEF Says, Said
  <2>3. Awaits(p) \in Terminal => Ends(Exec(a), d)
    BY <2>0, <2>1 DEF Ends
  <2>4. Owes(d)
    BY <1>1, <1>5, <2>3, StayFacts DEF Owes
  <2> QED BY <2>1, <2>2, <2>4 DEF QueueStep
<1> QED BY <1>4, <1>5 DEF e

LEMMA AttemptAppends ==
  ASSUME Shape, NEW a \in Attempts,
         \/ CatalogReady(a) \/ Started(a) \/ Isolated(a) \/ IsolationFails(a) \/ Announced(a)
         \/ Opened(a) \/ OpenFails(a) \/ Linked(a) \/ WorkDone(a) \/ WorkFails(a)
         \/ Reported(a)
  PROVE  QueueStep
<1>w. /\ Awaits("creating") = "queued" /\ Awaits("announcing") = "running"
      /\ Awaits("linking") = "same" /\ Awaits("reporting") = "completed"
      /\ Awaits("failing") = "failed" /\ Awaits("catalog") = "none"
      /\ Awaits("isolating") = "none" /\ Awaits("opening") = "none" /\ Awaits("working") = "none"
      /\ {"queued", "running", "completed", "failed"} \subseteq Statuses \cup {"same"}
      /\ {"completed", "failed"} \subseteq Terminal
  BY DEF Awaits, Statuses, Terminal
<1>o. /\ {"catalog", "reporting", "failing", "revoking"} \cap Owing = {}
      /\ {"creating", "starting", "isolating", "announcing", "opening", "linking", "working"}
           \subseteq Owing
      /\ AtWork = {"opening", "linking", "working"}
  BY DEF Owing, AtWork
<1> DEFINE Unwaited(p) == /\ phase' = [phase EXCEPT ![a] = p] /\ phase[a] # p
                          /\ UNCHANGED <<status, followUp, stop>>
                          /\ reduced' = reduced /\ Awaits(phase[a]) = "none"
           Waiting(p)  == /\ phase' = [phase EXCEPT ![a] = p] /\ phase[a] # p
                          /\ UNCHANGED <<status, followUp, stop>>
                          /\ reduced' = FALSE /\ Settled(Exec(a))
           Silent(p)   == /\ phase[a] \in Owing => p \in Owing
                          /\ phase[a] \in AtWork => p \in AtWork
           Adding(p)   == /\ Awaits(p) \in Statuses \cup {"same"}
                          /\ phase[a] \in Owing => p \in Owing \/ Awaits(p) \in Terminal
                          /\ phase[a] \in AtWork => p \in AtWork \/ Awaits(p) \in Terminal
<1>1. ASSUME NEW p, Unwaited(p), Adding(p), appends' = Append(appends, Event(Exec(a), Awaits(p)))
      PROVE  QueueStep
  BY <1>1, AttemptSays, StayFacts
<1>2. ASSUME NEW p, Waiting(p), Silent(p), appends' = Tail(appends) PROVE QueueStep
  BY <1>2, AttemptSays, StayFacts
<1>3. ASSUME NEW p, Waiting(p), Adding(p),
             appends' = Append(Tail(appends), Event(Exec(a), Awaits(p)))
      PROVE  QueueStep
  BY <1>3, AttemptSays, StayFacts
<1>4. CASE CatalogReady(a)
  <2>1. Unwaited("creating") /\ Adding("creating")
        /\ appends' = Append(appends, Event(Exec(a), Awaits("creating")))
    BY <1>4, <1>w, <1>o DEF CatalogReady, calls
  <2> QED BY <2>1, <1>1
<1>5. ASSUME Waiting("failing"), Fail(a, Tail(appends)) PROVE QueueStep
  <2>1. Adding("failing") /\ appends' = Append(Tail(appends), Event(Exec(a), Awaits("failing")))
    BY <1>5, <1>w, <1>o DEF Fail, Emit
  <2> QED BY <2>1, <1>3, <1>5
<1>6. ASSUME Unwaited("failing"), Fail(a, appends) PROVE QueueStep
  <2>1. Adding("failing") /\ appends' = Append(appends, Event(Exec(a), Awaits("failing")))
    BY <1>6, <1>w, <1>o DEF Fail, Emit
  <2> QED BY <2>1, <1>1, <1>6
<1>7. CASE Started(a)
  <2>1. CASE Fail(a, Tail(appends))
    BY <1>5, <1>7, <2>1 DEF Started, Fail, MoveTo, calls
  <2>2. CASE Announce(a, Tail(appends))
    <3>1. Waiting("announcing")
      BY <1>7, <2>2 DEF Started, Announce, MoveTo, calls
    <3>2. Adding("announcing")
          /\ appends' = Append(Tail(appends), Event(Exec(a), Awaits("announcing")))
      BY <1>7, <2>2, <1>w, <1>o DEF Started, Announce, Emit
    <3> QED BY <1>3, <3>1, <3>2
  <2>3. CASE MoveTo(a, "isolating") /\ appends' = Tail(appends)
    <3>1. Waiting("isolating") /\ Silent("isolating")
      BY <1>7, <2>3, <1>o DEF Started, MoveTo, calls
    <3> QED BY <1>2, <2>3, <3>1
  <2> QED BY <1>7, <2>1, <2>2, <2>3 DEF Started
<1>8. CASE Isolated(a)
  <2>1. CASE Fail(a, appends)
    <3>1. Unwaited("failing")
      BY <1>8, <2>1, <1>w DEF Isolated, Fail, MoveTo, calls
    <3> QED BY <1>6, <2>1, <3>1
  <2>2. CASE Announce(a, appends)
    <3>1. Unwaited("announcing")
      BY <1>8, <2>2, <1>w DEF Isolated, Announce, MoveTo, calls
    <3>2. Adding("announcing")
          /\ appends' = Append(appends, Event(Exec(a), Awaits("announcing")))
      BY <1>8, <2>2, <1>w, <1>o DEF Isolated, Announce, Emit
    <3> QED BY <1>1, <3>1, <3>2
  <2> QED BY <1>8, <2>1, <2>2 DEF Isolated
<1>9. CASE IsolationFails(a)
  <2>1. Unwaited("failing") /\ Fail(a, appends)
    BY <1>9, <1>w DEF IsolationFails, Fail, MoveTo, calls
  <2> QED BY <1>6, <2>1
<1>10. CASE Announced(a)
  <2>1. CASE Fail(a, Tail(appends))
    BY <1>5, <1>10, <2>1 DEF Announced, Fail, MoveTo, calls
  <2>2. CASE MoveTo(a, "opening") /\ appends' = Tail(appends)
    <3>1. Waiting("opening") /\ Silent("opening")
      BY <1>10, <2>2, <1>o DEF Announced, MoveTo, calls
    <3> QED BY <1>2, <2>2, <3>1
  <2> QED BY <1>10, <2>1, <2>2 DEF Announced
<1>11. CASE Opened(a)
  <2>1. CASE Fail(a, appends)
    <3>1. Unwaited("failing")
      BY <1>11, <2>1, <1>w DEF Opened, Fail, MoveTo, calls
    <3> QED BY <1>6, <2>1, <3>1
  <2>2. CASE MoveTo(a, "linking") /\ Emit(appends, Exec(a), "same")
    <3>1. Unwaited("linking")
      BY <1>11, <2>2, <1>w DEF Opened, MoveTo, calls
    <3>2. Adding("linking") /\ appends' = Append(appends, Event(Exec(a), Awaits("linking")))
      BY <1>11, <2>2, <1>w, <1>o DEF Opened, Emit
    <3> QED BY <1>1, <3>1, <3>2
  <2> QED BY <1>11, <2>1, <2>2 DEF Opened
<1>12. CASE OpenFails(a)
  <2>1. Unwaited("failing") /\ Fail(a, appends)
    BY <1>12, <1>w DEF OpenFails, Fail, MoveTo, calls
  <2> QED BY <1>6, <2>1
<1>13. CASE Linked(a)
  <2>1. CASE Fail(a, Tail(appends))
    BY <1>5, <1>13, <2>1 DEF Linked, Fail, MoveTo, calls
  <2>2. CASE MoveTo(a, "working") /\ appends' = Tail(appends)
    <3>1. Waiting("working") /\ Silent("working")
      BY <1>13, <2>2, <1>o DEF Linked, MoveTo, calls
    <3> QED BY <1>2, <2>2, <3>1
  <2> QED BY <1>13, <2>1, <2>2 DEF Linked
<1>14. CASE WorkDone(a)
  <2>1. Unwaited("reporting")
    BY <1>14, <1>w DEF WorkDone, MoveTo, calls
  <2>2. Adding("reporting") /\ appends' = Append(appends, Event(Exec(a), Awaits("reporting")))
    BY <1>14, <1>w, <1>o DEF WorkDone, Emit
  <2> QED BY <1>1, <2>1, <2>2
<1>15. CASE WorkFails(a)
  <2>1. Unwaited("failing") /\ Fail(a, appends)
    BY <1>15, <1>w DEF WorkFails, Fail, MoveTo, calls
  <2> QED BY <1>6, <2>1
<1>16. CASE Reported(a)
  <2>1. Waiting("revoking") /\ Silent("revoking") /\ appends' = Tail(appends)
    BY <1>16, <1>o DEF Reported, MoveTo, calls
  <2> QED BY <1>2, <2>1
<1> QED BY <1>4, <1>7, <1>8, <1>9, <1>10, <1>11, <1>12, <1>13, <1>14, <1>15, <1>16

(* The same for a follow-up.                                                *)
LEMMA FollowUpSays ==
  ASSUME Shape, NEW r \in Runs, NEW p, followUp'[r].phase = p, followUp[r].phase # p,
         \A o \in Runs \ {r} : followUp'[o] = followUp[o],
         UNCHANGED <<status, phase, stop>>,
         \/ followUp'[r].abandoned = followUp[r].abandoned
         \/ followUp[r].phase = "reporting" /\ Settled(FollowUp(r)),
         NEW d \in {0, 1}, NEW ap,
         \/ /\ d = 0 /\ ap = appends /\ reduced' = reduced
            /\ FollowUpAwaits(followUp[r].phase) = "none"
         \/ /\ d = 1 /\ Settled(FollowUp(r)) /\ ap = Tail(appends) /\ reduced' = FALSE,
         \/ /\ appends' = ap
            /\ followUp[r].phase \in {"announcing", "working"} => p \in {"announcing", "working"}
         \/ /\ appends' = Append(ap, Event(FollowUp(r), FollowUpAwaits(p)))
            /\ FollowUpAwaits(p) \in Statuses \cup {"same"}
            /\ followUp[r].phase \in {"announcing", "working"} =>
                 p \in {"announcing", "working"} \/ FollowUpAwaits(p) \in Terminal
  PROVE  QueueStep
<1> DEFINE e == Event(FollowUp(r), FollowUpAwaits(p))
<1>1. FollowUp(r) \in Actors /\ FollowUp(r).run = r
  BY ActorFacts
<1>2. FollowUpAwaits(followUp[r].phase) = "none" \/ Through(FollowUp(r), d)
  BY EventTypes DEF Through, Settled
<1>w. FollowUpAwaits("reporting") # "none"
  BY DEF FollowUpAwaits
<1>x. \A o \in Runs : Excuses(o, d)
  <2>1. \A o \in Runs \ {r} : Excuses(o, d)
    BY DEF Excuses
  <2>2. Excuses(r, d)
    BY <1>2, <1>w DEF Excuses
  <2> QED BY <2>1, <2>2
<1>3. \/ d = 0 /\ ap = appends /\ reduced' = reduced
      \/ d = 1 /\ reduced /\ ap = Tail(appends) /\ reduced' = FALSE
  BY DEF Settled
<1>4. CASE /\ appends' = ap
           /\ followUp[r].phase \in {"announcing", "working"} => p \in {"announcing", "working"}
  <2>1. Queues(d) /\ Added(d) = {}
    BY <1>3, <1>4, QueueShapes
  <2>2. Says(d)
    BY <1>1, <1>2, <2>1 DEF Says
  <2>3. Owes(d)
    BY <1>1, <1>4, <1>x DEF Owes
  <2> QED BY <2>1, <2>2, <2>3 DEF QueueStep
<1>5. CASE /\ appends' = Append(ap, e) /\ FollowUpAwaits(p) \in Statuses \cup {"same"}
           /\ followUp[r].phase \in {"announcing", "working"} =>
                p \in {"announcing", "working"} \/ FollowUpAwaits(p) \in Terminal
  <2>0. e \in Events /\ e.by = FollowUp(r) /\ e.status = FollowUpAwaits(p) /\ e.run = e.by.run
    BY <1>1, <1>5, EventFacts DEF Event
  <2> HIDE DEF e
  <2>w. /\ Queues(d) /\ Added(d) = {Len(ap) + 1}
        /\ appends'[Len(ap) + 1] = e
    BY <1>3, <1>5, <2>0, QueueShapes
  <2>1. PICK k : Queues(d) /\ Added(d) = {k} /\ appends'[k] = e
    BY <2>w
  <2>2. Says(d)
    BY <1>1, <1>2, <2>0, <2>1 DEF Says, Said
  <2>3. FollowUpAwaits(p) \in Terminal => Ends(FollowUp(r), d)
    BY <2>0, <2>1 DEF Ends
  <2>4. Owes(d)
    BY <1>1, <1>5, <1>x, <2>3 DEF Owes
  <2> QED BY <2>1, <2>2, <2>4 DEF QueueStep
<1> QED BY <1>4, <1>5 DEF e

LEMMA FollowUpAppends ==
  ASSUME Shape, NEW r \in Runs,
         \/ Send(r) \/ FollowUpAdmitted(r) \/ FollowUpDropped(r) \/ FollowUpLocked(r)
         \/ FollowUpLockFails(r) \/ FollowUpStarts(r) \/ FollowUpFails(r) \/ FollowUpReported(r)
  PROVE  QueueStep
<1>t. followUp \in [Runs -> FollowUpRecords]
  BY KeptTypes
<1> USE DEF FollowUpRecords
<1>w. /\ FollowUpAwaits("announcing") = "running" /\ FollowUpAwaits("failing") = "failed"
      /\ \A p \in {"none", "slot", "locking", "working"} : FollowUpAwaits(p) = "none"
      /\ {"running", "failed"} \subseteq Statuses \cup {"same"} /\ "failed" \in Terminal
  BY DEF FollowUpAwaits, Statuses, Terminal
<1> DEFINE Moved(p) == /\ followUp'[r].phase = p /\ followUp[r].phase # p
                       /\ \A o \in Runs \ {r} : followUp'[o] = followUp[o]
                       /\ \/ followUp'[r].abandoned = followUp[r].abandoned
                          \/ followUp[r].phase = "reporting" /\ Settled(FollowUp(r))
                       /\ UNCHANGED <<status, phase, stop>>
           Unwaited == reduced' = reduced /\ FollowUpAwaits(followUp[r].phase) = "none"
           Adding(p) == /\ FollowUpAwaits(p) \in Statuses \cup {"same"}
                        /\ followUp[r].phase \in {"announcing", "working"} =>
                             p \in {"announcing", "working"} \/ FollowUpAwaits(p) \in Terminal
<1>1. ASSUME NEW p, Moved(p), Unwaited, appends' = appends,
             followUp[r].phase \in {"none", "slot", "locking"}
      PROVE  QueueStep
  BY <1>1, FollowUpSays
<1>2. ASSUME NEW p, Moved(p), Unwaited, Adding(p),
             appends' = Append(appends, Event(FollowUp(r), FollowUpAwaits(p)))
      PROVE  QueueStep
  BY <1>2, FollowUpSays
<1>3. ASSUME NEW p, Moved(p), reduced' = FALSE, Settled(FollowUp(r)), appends' = Tail(appends),
             \/ p = "working" \/ followUp[r].phase = "reporting"
      PROVE  QueueStep
  BY <1>3, FollowUpSays
<1> USE DEF attempts, calls, FollowUpAt, NoFollowUp, Emit
<1>4. CASE Send(r)
  <2>1. followUp' = [followUp EXCEPT ![r].phase = "slot", ![r].host = completedHosts[r]]
    BY <1>4 DEF Send
  <2>2. /\ followUp'[r].phase = "slot" /\ followUp'[r].abandoned = followUp[r].abandoned
        /\ \A o \in Runs \ {r} : followUp'[o] = followUp[o]
    BY <1>t, <2>1
  <2>3. Moved("slot") /\ Unwaited /\ appends' = appends
    BY <1>4, <2>2, <1>w DEF Send, store
  <2> QED BY <1>1, <1>4, <2>3 DEF Send
<1>5. CASE FollowUpAdmitted(r)
  <2>1. CASE FollowUpAt(r, "locking") /\ UNCHANGED appends
    <3>1. Moved("locking") /\ Unwaited
      BY <1>5, <2>1, <1>t, <1>w DEF FollowUpAdmitted
    <3> QED BY <1>1, <1>5, <2>1, <3>1 DEF FollowUpAdmitted
  <2>2. CASE FollowUpAt(r, "announcing") /\ Emit(appends, FollowUp(r), "running")
    <3>1. Moved("announcing") /\ Unwaited /\ Adding("announcing")
      BY <1>5, <2>2, <1>t, <1>w DEF FollowUpAdmitted
    <3> QED BY <1>2, <1>w, <2>2, <3>1
  <2> QED BY <1>5, <2>1, <2>2 DEF FollowUpAdmitted
<1>6. CASE FollowUpDropped(r)
  <2>1. followUp' = [followUp EXCEPT ![r].phase = "none", ![r].host = 0]
    BY <1>6 DEF FollowUpDropped
  <2>2. /\ followUp'[r].phase = "none" /\ followUp'[r].abandoned = followUp[r].abandoned
        /\ \A o \in Runs \ {r} : followUp'[o] = followUp[o]
    BY <1>t, <2>1
  <2>3. Moved("none") /\ Unwaited /\ appends' = appends
    BY <1>6, <2>2, <1>w DEF FollowUpDropped, store
  <2> QED BY <1>1, <1>6, <2>3 DEF FollowUpDropped
<1>7. CASE FollowUpLocked(r)
  <2>1. Moved("announcing") /\ Unwaited /\ Adding("announcing")
    BY <1>7, <1>t, <1>w DEF FollowUpLocked
  <2> QED BY <1>2, <1>7, <1>w, <2>1 DEF FollowUpLocked
<1>8. CASE FollowUpLockFails(r)
  <2>1. Moved("failing") /\ Unwaited /\ Adding("failing")
    BY <1>8, <1>t, <1>w DEF FollowUpLockFails
  <2> QED BY <1>2, <1>8, <1>w, <2>1 DEF FollowUpLockFails
<1>9. CASE FollowUpStarts(r)
  <2>1. Moved("working")
    BY <1>9, <1>t DEF FollowUpStarts
  <2> QED BY <1>3, <1>9, <2>1 DEF FollowUpStarts
<1>10. CASE FollowUpFails(r)
  <2>1. Moved("failing") /\ Unwaited /\ Adding("failing")
    BY <1>10, <1>t, <1>w DEF FollowUpFails
  <2> QED BY <1>2, <1>10, <1>w, <2>1 DEF FollowUpFails
<1>11. CASE FollowUpReported(r)
  <2>1. Moved("none") /\ followUp[r].phase = "reporting"
    BY <1>11, <1>t DEF FollowUpReported
  <2> QED BY <1>3, <1>11, <2>1 DEF FollowUpReported
<1> QED BY <1>4, <1>5, <1>6, <1>7, <1>8, <1>9, <1>10, <1>11

(* What drain() appends: one event for each attempt it launches.            *)
LaunchTells(n, q, ph, ap) ==
  /\ appends' \in Seq(Events) /\ Len(appends') = Len(ap) + n
  /\ \A i \in 1..Len(ap) : appends'[i] = ap[i]
  /\ \A i \in 1..n :
       /\ phase'[q[i]] \in {"starting", "failing"}
       /\ appends'[Len(ap) + i] =
            Event(Exec(q[i]), IF phase'[q[i]] = "failing" THEN "failed" ELSE "starting")
  /\ \A a \in Attempts : (\A i \in 1..n : q[i] # a) => phase'[a] = ph[a]

LEMMA DrainTells ==
  ASSUME NEW q \in Seq(Attempts), NEW l \in SUBSET Runs, NEW act \in [Runs -> 0..MaxAttempts],
         NEW fu \in SUBSET Runs, NEW ph \in [Attempts -> Phases], NEW ap \in Seq(Events),
         Drain(q, l, act, fu, ph, ap)
  PROVE  \E n \in 0..Len(q) : LaunchTells(n, q, ph, ap)
<1> DEFINE n == Cardinality(Launchable(q, l, act, fu))
           first(a) == IF Has(tree', a[1]) /\ Object(tree', a[1]) \in aborted'
                         THEN "failing" ELSE "starting"
           told == [i \in 1..n |->
             Event(Exec(q[i]), IF first(q[i]) = "failing" THEN "failed" ELSE "starting")]
<1>1. Len(q) \in Nat /\ n \in 0..Len(q) /\ \A i \in 1..Len(q) : q[i] \in Attempts
  BY LaunchableFirst
<1>2. /\ phase' = [a \in Attempts |-> IF a \in {q[i] : i \in 1..n} THEN first(a) ELSE ph[a]]
      /\ appends' = ap \o told
  BY DEF Drain
<1> HIDE DEF n
<1>3. \A a : first(a) \in {"starting", "failing"}
  OBVIOUS
<1> HIDE DEF first
<1>4. \A i \in 1..n : q[i] \in Attempts /\ phase'[q[i]] = first(q[i])
  <2> TAKE i \in 1..n
  <2>1. q[i] \in Attempts
    BY <1>1
  <2> QED BY <2>1, <1>2
<1>5. \A i \in 1..n : told[i] \in Events
  <2> TAKE i \in 1..n
  <2>1. (IF first(q[i]) = "failing" THEN "failed" ELSE "starting") \in Statuses \cup {"same"}
    BY DEF Statuses, Terminal
  <2>2. Exec(q[i]) \in Actors /\ Exec(q[i]).run \in Runs
    BY <1>4, ActorFacts, AttemptFacts
  <2> QED BY <2>1, <2>2, EventFacts
<1>6. told \in Seq(Events) /\ Len(told) = n
  <2>1. told \in [1..n -> Events]
    BY <1>5
  <2> QED BY <2>1, <1>1
<1>7. \A i \in 1..n : told[i] =
        Event(Exec(q[i]), IF phase'[q[i]] = "failing" THEN "failed" ELSE "starting")
  BY <1>4
<1> HIDE DEF told
<1>8. /\ appends' \in Seq(Events) /\ Len(appends') = Len(ap) + n
      /\ \A i \in 1..Len(ap) : appends'[i] = ap[i]
      /\ \A i \in 1..n : appends'[Len(ap) + i] = told[i]
  <2>1. Len(ap) \in Nat /\ n \in Nat /\ appends' = ap \o told
    BY <1>1, <1>2
  <2>a. ap \o told \in Seq(Events)
    BY <1>6
  <2>b. Len(ap \o told) = Len(ap) + Len(told)
    BY <1>6, ConcatProperties
  <2>2. appends' \in Seq(Events) /\ Len(appends') = Len(ap) + n
    BY <2>1, <1>6, <2>a, <2>b
  <2>3. \A i \in 1..Len(ap) : appends'[i] = ap[i]
    BY <2>1, <1>6
  <2>4. ASSUME NEW i \in 1..n PROVE appends'[Len(ap) + i] = told[i]
    <3>1. /\ Len(ap) + i \in 1..(Len(ap) + Len(told)) /\ Len(ap) + i > Len(ap)
          /\ (Len(ap) + i) - Len(ap) = i
      BY <2>1, <1>6
    <3> QED BY <2>1, <1>6, <3>1
  <2> QED BY <2>2, <2>3, <2>4
<1>9. \A a \in Attempts : (\A i \in 1..n : q[i] # a) => phase'[a] = ph[a]
  BY <1>2
<1>10. LaunchTells(n, q, ph, ap)
  BY <1>3, <1>4, <1>7, <1>8, <1>9 DEF LaunchTells
<1> QED BY <1>1, <1>10

(* A step that drains: `ap` is the queue before it, `ph` the phases; at     *)
(* most one event of a follow-up is in `ap` and not in the queue so far.    *)
Drains(ph, ap, d) ==
  /\ UNCHANGED <<status, stop>>
  /\ d = 1 => reduced
  /\ reduced' => reduced /\ d = 0
  /\ \A a \in Attempts : ph[a] # phase[a] =>
       /\ Awaits(phase[a]) = "none" \/ Through(Exec(a), d)
       /\ phase[a] \notin {"starting", "failing"} /\ phase[a] \notin AtWork
       /\ phase[a] \in Owing => ph[a] = "queued"
  /\ \A r \in Runs : followUp'[r].phase # followUp[r].phase =>
       FollowUpAwaits(followUp[r].phase) = "none" \/ Through(FollowUp(r), d)
  /\ Len(ap) \in {Len(appends) - d, Len(appends) - d + 1}
  /\ \A i \in 1..(Len(appends) - d) : ap[i] = appends[i + d]
  /\ Len(ap) = Len(appends) - d + 1 =>
       \E r \in Runs : /\ ap[Len(ap)] = Event(FollowUp(r), FollowUpAwaits(followUp'[r].phase))
                       /\ followUp'[r].phase # followUp[r].phase
  /\ \A r \in Runs : Excuses(r, d)
  /\ \A r \in Runs : followUp[r].phase \in {"announcing", "working"} =>
       \/ followUp'[r].phase \in {"announcing", "working"} \/ followUp'[r].abandoned
       \/ /\ Len(ap) = Len(appends) - d + 1 /\ ap[Len(ap)].by = FollowUp(r)
          /\ ap[Len(ap)].status \in Terminal

LEMMA DrainSays ==
  ASSUME Shape, NEW q \in Seq(Attempts), NEW ph \in [Attempts -> Phases], NEW ap \in Seq(Events),
         NEW n \in 0..Len(q), LaunchTells(n, q, ph, ap), QueueOK(q, ph),
         NEW d \in {0, 1}, Drains(ph, ap, d)
  PROVE  QueueStep
<1>t. /\ Len(appends) \in Nat /\ (reduced => Len(appends) >= 1) /\ Len(q) \in Nat /\ Len(ap) \in Nat
      /\ \A i \in 1..n : i \in 1..Len(q) /\ q[i] \in Attempts
      /\ d = 1 => reduced
  BY EventTypes DEF Drains
<1>l. Len(ap) \in {Len(appends) - d, Len(appends) - d + 1} /\ Len(appends) - d >= 0
  BY <1>t DEF Drains
<1>a. /\ appends' \in Seq(Events) /\ Len(appends') = Len(ap) + n
      /\ \A i \in 1..Len(ap) : appends'[i] = ap[i]
  BY DEF LaunchTells
<1>q. Queues(d)
  BY <1>t, <1>a DEF Queues, Drains
<1>1. ASSUME NEW i \in 1..n
      PROVE  /\ q[i] \in Attempts /\ phase'[q[i]] # phase[q[i]]
             /\ phase'[q[i]] \in {"starting", "failing"}
             /\ Awaits(phase[q[i]]) = "none" \/ Through(Exec(q[i]), d)
             /\ phase[q[i]] \notin AtWork
  <2>1. ph[q[i]] = "queued" /\ q[i] \in Attempts /\ phase'[q[i]] \in {"starting", "failing"}
    BY <1>t DEF QueueOK, LaunchTells
  <2>2. Awaits("queued") = "none" /\ "queued" \notin AtWork
    BY DEF Awaits, AtWork
  <2> QED BY <2>1, <2>2 DEF Drains
<1>2. ASSUME NEW a \in Attempts, phase'[a] # ph[a] PROVE \E i \in 1..n : q[i] = a
  BY <1>2 DEF LaunchTells
<1>3. \A a \in Attempts : phase'[a] # phase[a] =>
         Awaits(phase[a]) = "none" \/ Through(Exec(a), d)
  <2> TAKE a \in Attempts
  <2> QED BY <1>1, <1>2 DEF Drains
<1>4. ASSUME NEW k \in Added(d)
      PROVE  \/ k = Len(ap) /\ Len(ap) = Len(appends) - d + 1
             \/ \E i \in 1..n : k = Len(ap) + i
  <2>1. k \in Nat /\ k <= Len(ap) + n /\ k > Len(appends) - d
    BY <1>a, <1>4, <1>t DEF Added
  <2>2. CASE k <= Len(ap)
    BY <2>1, <2>2, <1>t DEF Drains
  <2>3. CASE k > Len(ap)
    <3>1. k - Len(ap) \in 1..n /\ k = Len(ap) + (k - Len(ap))
      BY <2>1, <2>3, <1>t
    <3> QED BY <3>1
  <2> QED BY <2>1, <2>2, <2>3, <1>t
<1>5. ASSUME NEW i \in 1..n
      PROVE  LET e == appends'[Len(ap) + i]
             IN  e.by = Exec(q[i]) /\ e.status = Awaits(phase'[q[i]]) /\ e.run = e.by.run
  <2>1. appends'[Len(ap) + i] =
           Event(Exec(q[i]), IF phase'[q[i]] = "failing" THEN "failed" ELSE "starting")
    BY DEF LaunchTells
  <2>2. Awaits("failing") = "failed" /\ Awaits("starting") = "starting"
    BY DEF Awaits
  <2> QED BY <1>1, <2>1, <2>2 DEF Event
<1>6. ASSUME Len(ap) = Len(appends) - d + 1
      PROVE  \E r \in Runs :
               LET e == appends'[Len(ap)]
               IN  /\ e.by = FollowUp(r) /\ e.status = FollowUpAwaits(followUp'[r].phase)
                   /\ e.run = e.by.run /\ followUp'[r].phase # followUp[r].phase
  <2>1. Len(ap) \in 1..Len(ap)
    BY <1>6, <1>t, <1>l
  <2>3. appends'[Len(ap)] = ap[Len(ap)]
    BY <1>a, <2>1
  <2>2. PICK r \in Runs :
           /\ ap[Len(ap)] = Event(FollowUp(r), FollowUpAwaits(followUp'[r].phase))
           /\ followUp'[r].phase # followUp[r].phase
    BY <1>6 DEF Drains
  <2> QED BY <2>2, <2>3 DEF Event
<1>7. ASSUME NEW k \in Added(d) PROVE Said(appends'[k], d)
  <2>1. ASSUME NEW i \in 1..n, k = Len(ap) + i PROVE Said(appends'[k], d)
    BY <1>1, <1>5, <2>1 DEF Said
  <2>2. CASE k = Len(ap) /\ Len(ap) = Len(appends) - d + 1
    BY <1>6, <2>2 DEF Said
  <2> QED BY <1>4, <2>1, <2>2
<1>8. ASSUME NEW k \in Added(d), NEW m \in Added(d), k # m, appends'[k].by = appends'[m].by
      PROVE  FALSE
  <2>1. ASSUME NEW i \in 1..n, NEW j \in 1..n, k = Len(ap) + i, m = Len(ap) + j PROVE FALSE
    <3>1. i # j /\ Exec(q[i]) = Exec(q[j])
      BY <1>5, <1>8, <2>1
    <3>2. q[i] = q[j]
      BY <1>t, <3>1, Distinct
    <3> QED BY <1>t, <3>1, <3>2 DEF QueueOK
  <2>2. ASSUME NEW x \in Added(d), NEW y \in Added(d), appends'[x].by = appends'[y].by,
               x = Len(ap), Len(ap) = Len(appends) - d + 1, NEW i \in 1..n, y = Len(ap) + i
        PROVE  FALSE
    <3>1. PICK r \in Runs : appends'[Len(ap)].by = FollowUp(r)
      BY <1>6, <2>2
    <3>2. appends'[y].by = Exec(q[i]) /\ q[i] \in Attempts
      BY <1>5, <1>t, <2>2
    <3> QED BY <2>2, <3>1, <3>2, Distinct
  <2>3. (\E i \in 1..n : k = Len(ap) + i) \/ (k = Len(ap) /\ Len(ap) = Len(appends) - d + 1)
    BY <1>4
  <2>4. (\E i \in 1..n : m = Len(ap) + i) \/ (m = Len(ap) /\ Len(ap) = Len(appends) - d + 1)
    BY <1>4
  <2> QED BY <1>8, <2>1, <2>2, <2>3, <2>4
<1>9. Says(d)
  BY <1>3, <1>7, <1>8 DEF Says, Drains
<1>10. ASSUME NEW a \in Attempts, phase[a] \in AtWork PROVE phase'[a] \in AtWork
  BY <1>1, <1>2, <1>10 DEF Drains
<1>11. ASSUME NEW a \in Attempts, phase[a] \in Owing PROVE phase'[a] \in Owing \/ Ends(Exec(a), d)
  <2>o. {"queued", "starting"} \subseteq Owing /\ Awaits("failing") = "failed"
        /\ "failed" \in Terminal
    BY DEF Owing, Awaits, Terminal
  <2>1. CASE phase'[a] = ph[a]
    BY <1>11, <2>1, <2>o DEF Drains
  <2>2. CASE phase'[a] # ph[a]
    <3>1. PICK i \in 1..n : q[i] = a
      BY <1>2, <2>2
    <3>2. CASE phase'[a] = "starting"
      BY <2>o, <3>2
    <3>3. CASE phase'[a] = "failing"
      <4>0. Len(ap) + i \in Added(d)
        BY SMTT(60), <1>a, <1>t, <1>l DEF Added
      <4>1. PICK k \in Added(d) : k = Len(ap) + i
        BY <4>0
      <4>2. appends'[k].by = Exec(a) /\ appends'[k].status \in Terminal
        BY <1>5, <2>o, <3>1, <3>3, <4>1
      <4> QED BY <4>2 DEF Ends
    <3> QED BY <1>1, <3>1, <3>2, <3>3
  <2> QED BY <2>1, <2>2
<1>12. ASSUME NEW r \in Runs, followUp[r].phase \in {"announcing", "working"}
       PROVE  \/ followUp'[r].phase \in {"announcing", "working"} \/ Ends(FollowUp(r), d)
              \/ followUp'[r].abandoned
  <2> SUFFICES ASSUME Len(ap) = Len(appends) - d + 1, ap[Len(ap)].by = FollowUp(r),
                      ap[Len(ap)].status \in Terminal
               PROVE  Ends(FollowUp(r), d)
    BY <1>12 DEF Drains
  <2>1. Len(ap) \in Added(d) /\ Len(ap) \in 1..Len(ap)
    BY <1>a, <1>t, <1>l DEF Added
  <2>2. PICK k \in Added(d) : k = Len(ap)
    BY <2>1
  <2>3. appends'[k] = ap[Len(ap)]
    BY <1>a, <2>1, <2>2
  <2> QED BY <2>3 DEF Ends
<1>13. Owes(d)
  BY <1>10, <1>11, <1>12 DEF Owes, Drains
<1> QED BY <1>q, <1>9, <1>13 DEF QueueStep

LEMMA AttachAppends ==
  ASSUME Shape, AdmissionOK, NEW a \in Attempts, NEW ap, NEW d \in {0, 1}, AttachTo(a, ap),
         UNCHANGED <<status, stop>>, FollowUpsStay,
         \/ d = 0 /\ phase[a] = "replacing" /\ ap = appends /\ reduced' = reduced
         \/ /\ d = 1 /\ phase[a] = "creating" /\ Settled(Exec(a)) /\ ap = Tail(appends)
            /\ reduced' = FALSE
  PROVE  QueueStep
<1> DEFINE q == Append(queue, a)
           ph == [phase EXCEPT ![a] = "queued"]
<1>t. /\ phase \in [Attempts -> Phases] /\ launching \in SUBSET Runs
      /\ active \in [Runs -> 0..MaxAttempts] /\ followUps \in SUBSET Runs
      /\ "queued" \in Phases /\ appends \in Seq(Events) /\ (reduced => Len(appends) >= 1)
  BY KeptTypes, EventTypes DEF Phases
<1>1. q \in Seq(Attempts) /\ QueueOK(q, ph)
  BY AppendKeepsQueue DEF AdmissionOK
<1>2. /\ ap \in Seq(Events) /\ Len(ap) = Len(appends) - d /\ Len(appends) \in Nat
      /\ \A i \in 1..(Len(appends) - d) : ap[i] = appends[i + d]
      /\ d = 1 => reduced /\ appends[1].by = Exec(a)
      /\ reduced' => reduced /\ d = 0
  <2>1. CASE d = 0
    BY <1>t, <2>1
  <2>2. CASE d = 1
    <3>1. ap = Tail(appends) /\ reduced /\ ~reduced' /\ Head(appends).by = Exec(a)
      BY <2>2 DEF Settled
    <3> QED BY <1>t, <2>2, <3>1
  <2> QED BY <2>1, <2>2
<1>3. Drain(q, launching, active, followUps, ph, ap)
  BY DEF AttachTo
<1>4. /\ ph \in [Attempts -> Phases] /\ ph[a] = "queued"
      /\ \A b \in Attempts : b # a => ph[b] = phase[b]
  BY <1>t
<1>5. Awaits(phase[a]) = "none" \/ Through(Exec(a), d)
  BY <1>2 DEF Awaits, Through
<1>6. phase[a] \notin {"starting", "failing"} /\ phase[a] \notin AtWork
  BY DEF AtWork
<1> HIDE DEF q, ph
<1>7. PICK n \in 0..Len(q) : LaunchTells(n, q, ph, ap)
  BY <1>t, <1>1, <1>2, <1>3, <1>4, DrainTells
<1>8. Len(ap) # Len(appends) - d + 1 /\ UNCHANGED <<status, stop>> /\ FollowUpsStay
  BY <1>2
<1>9. \A b \in Attempts : ph[b] # phase[b] =>
        /\ Awaits(phase[b]) = "none" \/ Through(Exec(b), d)
        /\ phase[b] \notin {"starting", "failing"} /\ phase[b] \notin AtWork
        /\ phase[b] \in Owing => ph[b] = "queued"
  BY <1>4, <1>5, <1>6
<1>10. Drains(ph, ap, d)
  BY <1>2, <1>8, <1>9, StayFacts DEF Drains
<1> QED BY <1>1, <1>2, <1>4, <1>7, <1>10, DrainSays

LEMMA BoundaryAppends ==
  ASSUME Shape, AdmissionOK, NEW a \in Attempts, Created(a) \/ Attach(a) \/ Unwound(a)
  PROVE  QueueStep
<1>d. ASSUME Created(a) PROVE FollowUpsStay
  <2>1. PhasesStay /\ \A o \in Runs \ {a[1]} : followUp'[o] = followUp[o]
    BY <1>d, AttemptFacts, DisposeHostType DEF Created
  <2>2. EndComes(a[1])
    BY <1>d DEF Created, EndComes, Owing
  <2> QED BY <2>1, <2>2 DEF FollowUpsStay, PhasesStay
<1>1. CASE Created(a) /\ Has(tree, a[1])
  <2>1. /\ phase' = [phase EXCEPT ![a] = "replacing"] /\ phase[a] = "creating"
        /\ UNCHANGED <<status, stop>> /\ Settled(Exec(a))
        /\ appends' = Tail(appends) /\ reduced' = FALSE
    BY <1>1 DEF Created, calls
  <2>2. "replacing" \in Owing /\ "creating" \notin AtWork
    BY DEF Owing, AtWork
  <2> QED BY <1>1, <1>d, <2>1, <2>2, AttemptSays
<1>2. CASE Created(a) /\ ~Has(tree, a[1])
  <2>1. AttachTo(a, Tail(appends)) /\ UNCHANGED <<status, stop>>
        /\ phase[a] = "creating" /\ Settled(Exec(a)) /\ reduced' = FALSE
    BY <1>2 DEF Created, calls
  <2> QED BY <1>2, <1>d, <2>1, AttachAppends
<1>3. CASE Attach(a)
  <2>1. AttachTo(a, appends) /\ UNCHANGED <<status, followUp, stop>>
        /\ phase[a] = "replacing" /\ reduced' = reduced
    BY <1>3 DEF Attach, calls
  <2> QED BY <2>1, StayFacts, AttachAppends
<1>4. CASE Unwound(a)
  <2> DEFINE act == [active EXCEPT ![a[1]] = 0]
             ph == [phase EXCEPT ![a] = "done"]
  <2>0. Drain(queue, launching \ {a[1]}, act, followUps, ph, appends)
        /\ UNCHANGED <<status, followUp, stop, reduced>> /\ phase[a] = "revoking"
    BY <1>4 DEF Unwound, calls
  <2>t. /\ phase \in [Attempts -> Phases] /\ queue \in Seq(Attempts)
        /\ launching \ {a[1]} \in SUBSET Runs /\ followUps \in SUBSET Runs
        /\ appends \in Seq(Events) /\ Len(appends) \in Nat
    BY KeptTypes, EventTypes
  <2>1. act \in [Runs -> 0..MaxAttempts] /\ ph \in [Attempts -> Phases]
    <3>1. 0 \in 0..MaxAttempts /\ "done" \in Phases
      BY FleetAssumption DEF Phases
    <3> QED BY <3>1, KeptTypes
  <2>2. QueueOK(queue, ph)
    BY <2>0, KeptTypes DEF AdmissionOK, QueueOK
  <2>3. ph[a] = "done" /\ \A b \in Attempts : b # a => ph[b] = phase[b]
    BY <2>t
  <2> HIDE DEF act, ph
  <2>4. PICK n \in 0..Len(queue) : LaunchTells(n, queue, ph, appends)
    BY <2>0, <2>1, <2>t, DrainTells
  <2>5. Awaits("revoking") = "none" /\ "revoking" \notin AtWork /\ "revoking" \notin Owing
    BY DEF Awaits, AtWork, Owing
  <2>6. \A b \in Attempts : ph[b] # phase[b] =>
          /\ Awaits(phase[b]) = "none" \/ Through(Exec(b), 0)
          /\ phase[b] \notin {"starting", "failing"} /\ phase[b] \notin AtWork
          /\ phase[b] \in Owing => ph[b] = "queued"
    BY <2>0, <2>3, <2>5
  <2>7. /\ Len(appends) # Len(appends) - 0 + 1 /\ Len(appends) = Len(appends) - 0
        /\ \A i \in 1..(Len(appends) - 0) : appends[i] = appends[i + 0]
    BY <2>t
  <2>8. /\ UNCHANGED <<status, stop>> /\ (reduced' => reduced)
        /\ \A r \in Runs : followUp'[r].phase = followUp[r].phase
    BY <2>0
  <2>z. 0 = 1 => reduced
    OBVIOUS
  <2>9. /\ \A r \in Runs : followUp'[r].phase # followUp[r].phase =>
             FollowUpAwaits(followUp[r].phase) = "none" \/ Through(FollowUp(r), 0)
        /\ \A r \in Runs : followUp[r].phase \in {"announcing", "working"} =>
             followUp'[r].phase \in {"announcing", "working"}
    BY SMTT(60), <2>8
  <2>x. \A r \in Runs : Excuses(r, 0)
    BY <2>0, StayFacts
  <2>10. Len(appends) \in {Len(appends) - 0, Len(appends) - 0 + 1}
    BY <2>7
  <2>11. Drains(ph, appends, 0)
    BY <2>6, <2>7, <2>8, <2>9, <2>10, <2>x, <2>z DEF Drains
  <2> QED BY <2>1, <2>2, <2>4, <2>11, <2>t, DrainSays
<1> QED BY <1>1, <1>2, <1>3, <1>4

LEMMA FollowUpEndAppends ==
  ASSUME Shape, AdmissionOK, NEW r \in Runs, FollowUpDone(r) \/ FollowUpFailed(r) \/ FollowUpAbandoned(r)
  PROVE  QueueStep
<1>t. /\ phase \in [Attempts -> Phases] /\ queue \in Seq(Attempts) /\ launching \in SUBSET Runs
      /\ active \in [Runs -> 0..MaxAttempts] /\ followUps \ {r} \in SUBSET Runs
      /\ appends \in Seq(Events) /\ Len(appends) \in Nat /\ (reduced => Len(appends) >= 1)
      /\ followUp \in [Runs -> FollowUpRecords]
      /\ QueueOK(queue, phase)
  BY KeptTypes, EventTypes DEF AdmissionOK
<1>1. CASE FollowUpDone(r)
  <2> DEFINE e == Event(FollowUp(r), "completed")
             ap == Append(appends, e)
  <2>0. /\ Drain(queue, launching, active, followUps \ {r}, phase, ap)
        /\ UNCHANGED <<status, stop, reduced>> /\ followUp[r].phase = "working"
        /\ followUp' = [followUp EXCEPT ![r].phase = "reporting"]
    BY <1>1 DEF FollowUpDone, FollowUpAt, calls
  <2>1. followUp'[r].phase = "reporting" /\ \A o \in Runs \ {r} : followUp'[o] = followUp[o]
    BY <2>0, <1>t
  <2>2. e \in Events /\ e.by = FollowUp(r) /\ e.status = "completed"
    <3>1. "completed" \in Statuses \cup {"same"}
      BY DEF Statuses, Terminal
    <3> QED BY <3>1, ActorFacts, EventFacts DEF Event
  <2>w. FollowUpAwaits("working") = "none" /\ FollowUpAwaits("reporting") = "completed"
        /\ "completed" \in Terminal
    BY DEF FollowUpAwaits, Terminal
  <2>e. e = Event(FollowUp(r), FollowUpAwaits(followUp'[r].phase))
    BY <2>1, <2>w
  <2> HIDE DEF e
  <2>3. /\ ap \in Seq(Events) /\ Len(ap) = Len(appends) + 1 /\ ap[Len(ap)] = e
        /\ \A i \in 1..Len(appends) : ap[i] = appends[i]
    BY <1>t, <2>2
  <2> HIDE DEF ap
  <2>4. PICK n \in 0..Len(queue) : LaunchTells(n, queue, phase, ap)
    BY <1>t, <2>0, <2>3, DrainTells
  <2>5. /\ Len(ap) = Len(appends) - 0 + 1
        /\ \A i \in 1..(Len(appends) - 0) : ap[i] = appends[i + 0]
    BY <1>t, <2>3
  <2>6. \A o \in Runs : followUp'[o].phase # followUp[o].phase =>
          FollowUpAwaits(followUp[o].phase) = "none" \/ Through(FollowUp(o), 0)
    BY <2>0, <2>1, <2>w
  <2>7. \E o \in Runs : /\ ap[Len(ap)] = Event(FollowUp(o), FollowUpAwaits(followUp'[o].phase))
                        /\ followUp'[o].phase # followUp[o].phase
    BY <2>0, <2>1, <2>3, <2>e
  <2>8. \A o \in Runs : followUp[o].phase \in {"announcing", "working"} =>
          \/ followUp'[o].phase \in {"announcing", "working"}
          \/ /\ Len(ap) = Len(appends) - 0 + 1 /\ ap[Len(ap)].by = FollowUp(o)
             /\ ap[Len(ap)].status \in Terminal
    BY <2>1, <2>2, <2>3, <2>5, <2>w
  <2>x. \A o \in Runs : Excuses(o, 0)
    <3>1. followUp'[r].abandoned = followUp[r].abandoned
      BY <2>0, <1>t DEF FollowUpRecords
    <3> QED BY <2>1, <3>1 DEF Excuses
  <2>9. Drains(phase, ap, 0)
    BY <2>0, <2>5, <2>6, <2>7, <2>8, <2>x DEF Drains
  <2> QED BY <1>t, <2>3, <2>4, <2>9, DrainSays
<1>2. CASE FollowUpFailed(r)
  <2> DEFINE ap == Tail(appends)
  <2>0. /\ Drain(queue, launching, active, followUps \ {r}, phase, ap)
        /\ UNCHANGED <<status, stop>> /\ reduced' = FALSE /\ followUp[r].phase = "failing"
        /\ Settled(FollowUp(r)) /\ followUp' = [followUp EXCEPT ![r] = NoFollowUp]
    BY <1>2 DEF FollowUpFailed, calls
  <2>1. followUp'[r].phase = "none" /\ \A o \in Runs \ {r} : followUp'[o] = followUp[o]
    BY <2>0, <1>t DEF NoFollowUp
  <2>2. /\ ap \in Seq(Events) /\ Len(ap) = Len(appends) - 1 /\ reduced
        /\ \A i \in 1..(Len(appends) - 1) : ap[i] = appends[i + 1]
        /\ appends[1].by = FollowUp(r)
    BY <1>t, <2>0 DEF Settled
  <2> HIDE DEF ap
  <2>3. PICK n \in 0..Len(queue) : LaunchTells(n, queue, phase, ap)
    BY <1>t, <2>0, <2>2, DrainTells
  <2>4. Len(ap) # Len(appends) - 1 + 1 /\ Through(FollowUp(r), 1)
    BY <1>t, <2>2 DEF Through
  <2>5. /\ \A o \in Runs : followUp'[o].phase # followUp[o].phase =>
             FollowUpAwaits(followUp[o].phase) = "none" \/ Through(FollowUp(o), 1)
        /\ \A o \in Runs : followUp[o].phase \in {"announcing", "working"} =>
             followUp'[o].phase \in {"announcing", "working"}
    BY <2>0, <2>1, <2>4
  <2>x. \A o \in Runs : Excuses(o, 1)
    BY <2>0, <2>1, <2>4 DEF Excuses
  <2>6. Drains(phase, ap, 1)
    BY <2>0, <2>2, <2>4, <2>5, <2>x DEF Drains
  <2> QED BY <1>t, <2>2, <2>3, <2>6, DrainSays
<1>3. CASE FollowUpAbandoned(r)
  <2> DEFINE ap == IF followUp[r].phase = "announcing" THEN Tail(appends) ELSE appends
  <2>0. /\ Drain(queue, launching, active, followUps \ {r}, phase, ap)
        /\ UNCHANGED <<status, stop>> /\ followUp[r].phase \in {"locking", "announcing", "working"}
        /\ followUp' = [followUp EXCEPT ![r] = [phase |-> "none", host |-> 0,
                          abandoned |-> @.abandoned \/ @.phase # "locking"]]
    BY <1>3 DEF FollowUpAbandoned, calls
  <2>1. /\ followUp'[r].phase = "none"
        /\ followUp'[r].abandoned = (followUp[r].abandoned \/ followUp[r].phase # "locking")
        /\ \A o \in Runs \ {r} : followUp'[o] = followUp[o]
    BY <2>0, <1>t
  <2>2. PICK d \in {0, 1} :
          /\ d = 1 => /\ followUp[r].phase = "announcing" /\ Settled(FollowUp(r))
                      /\ ap = Tail(appends) /\ reduced' = FALSE
          /\ d = 0 => followUp[r].phase # "announcing" /\ ap = appends /\ reduced' = reduced
    BY <1>3 DEF FollowUpAbandoned
  <2>3. /\ ap \in Seq(Events) /\ Len(ap) = Len(appends) - d
        /\ \A i \in 1..(Len(appends) - d) : ap[i] = appends[i + d]
        /\ d = 1 => reduced /\ appends[1].by = FollowUp(r)
        /\ reduced' => reduced /\ d = 0
    <3> HIDE DEF ap
    <3>1. CASE d = 0
      BY <1>t, <2>2, <3>1
    <3>2. CASE d = 1
      <4>1. /\ ap = Tail(appends) /\ reduced /\ reduced' = FALSE
            /\ Head(appends).by = FollowUp(r)
        BY <2>2, <3>2 DEF Settled
      <4> QED BY <1>t, <3>2, <4>1
    <3> QED BY <3>1, <3>2
  <2> HIDE DEF ap
  <2>4. PICK n \in 0..Len(queue) : LaunchTells(n, queue, phase, ap)
    BY <1>t, <2>0, <2>3, DrainTells
  <2>5. Len(ap) # Len(appends) - d + 1 /\ Len(ap) \in {Len(appends) - d, Len(appends) - d + 1}
    BY <1>t, <2>3
  <2>6. FollowUpAwaits(followUp[r].phase) = "none" \/ Through(FollowUp(r), d)
    BY <2>0, <2>2, <2>3 DEF FollowUpAwaits, Through
  <2>7. \A o \in Runs : followUp'[o].phase # followUp[o].phase =>
          FollowUpAwaits(followUp[o].phase) = "none" \/ Through(FollowUp(o), d)
    BY <2>1, <2>6
  <2>8. \A o \in Runs : followUp[o].phase \in {"announcing", "working"} =>
          followUp'[o].phase \in {"announcing", "working"} \/ followUp'[o].abandoned
    BY <2>1
  <2>9. \A o \in Runs : Excuses(o, d)
    BY <2>1 DEF Excuses
  <2>10. Drains(phase, ap, d)
    BY <2>0, <2>3, <2>5, <2>7, <2>8, <2>9 DEF Drains
  <2> QED BY <1>t, <2>3, <2>4, <2>10, DrainSays
<1> QED BY <1>1, <1>2, <1>3

(* Steps in which no attempt and no follow-up moves.                        *)
LEMMA CallSays ==
  ASSUME Shape, UNCHANGED <<status, phase>>, FollowUpsStay,
         NEW d \in {0, 1}, NEW ap,
         \/ d = 0 /\ ap = appends /\ reduced' = reduced
         \/ d = 1 /\ reduced /\ ap = Tail(appends) /\ reduced' = FALSE,
         \/ /\ appends' = ap
            /\ \A s \in StopIds : stop[s].phase \in {"children", "cleanup"} =>
                 stop'[s].phase \in {"children", "cleanup"} \/ status[s.run] \notin Unended
         \/ \E e \in Events :
              /\ appends' = Append(ap, e) /\ e.run = e.by.run
              /\ \/ e.by \in StopIds /\ e.status = "failed"
                 \/ /\ e.by = NoOne(e.run) /\ e.status = "running"
                    /\ \E a \in Attempts : a[1] = e.run /\ phase[a] \in AtWork
              /\ \A s \in StopIds : stop[s].phase \in {"children", "cleanup"} =>
                   stop'[s].phase \in {"children", "cleanup"} \/ s = e.by
  PROVE  QueueStep
<1>o. AtWork \subseteq Owing /\ "failed" \in Terminal
  BY DEF Owing, Terminal
<1>1. CASE /\ appends' = ap
           /\ \A s \in StopIds : stop[s].phase \in {"children", "cleanup"} =>
                stop'[s].phase \in {"children", "cleanup"} \/ status[s.run] \notin Unended
  <2>1. Queues(d) /\ Added(d) = {}
    BY <1>1, QueueShapes
  <2>2. Says(d)
    BY <2>1, StayFacts DEF Says
  <2>3. Owes(d)
    BY <1>1, StayFacts DEF Owes
  <2> QED BY <2>1, <2>2, <2>3 DEF QueueStep
<1>2. ASSUME NEW e \in Events, appends' = Append(ap, e), e.run = e.by.run,
             \/ e.by \in StopIds /\ e.status = "failed"
             \/ /\ e.by = NoOne(e.run) /\ e.status = "running"
                /\ \E a \in Attempts : a[1] = e.run /\ phase[a] \in AtWork,
             \A s \in StopIds : stop[s].phase \in {"children", "cleanup"} =>
               stop'[s].phase \in {"children", "cleanup"} \/ s = e.by
      PROVE  QueueStep
  <2>w. /\ Queues(d) /\ Added(d) = {Len(ap) + 1}
        /\ appends'[Len(ap) + 1] = e
    <3>1. /\ Queues(d) /\ Added(d) = {Len(ap) + 1}
          /\ appends'[Len(ap) + 1] = e
      BY <1>2, QueueShapes
    <3> QED BY <3>1
  <2>1. PICK k : Queues(d) /\ Added(d) = {k} /\ appends'[k] = e
    BY <2>w
  <2>2. Said(e, d)
    BY <1>2 DEF Said
  <2>3. Says(d)
    BY <2>1, <2>2, StayFacts DEF Says
  <2>4. ASSUME NEW s \in StopIds, s = e.by PROVE Ends(s, d)
    <3>0. e.run \in Runs
      BY <1>2 DEF Events
    <3>1. e.status = "failed"
      BY <1>2, <2>4, <3>0, Distinct
    <3> QED BY <1>o, <2>1, <2>4, <3>1 DEF Ends
  <2>5. Owes(d)
    BY <1>2, <2>4, StayFacts DEF Owes
  <2> QED BY <2>1, <2>3, <2>5 DEF QueueStep
<1> QED BY <1>1, <1>2

(* stop(): its item goes to the end, and the stop takes the report over; a  *)
(* run that has ended is not reported.                                      *)
LEMMA StopAppends ==
  ASSUME Shape, AdmissionOK, NEW s \in StopIds, StopStep(s)
  PROVE  QueueStep
<1>t. /\ phase \in [Attempts -> Phases] /\ queue \in Seq(Attempts)
      /\ stop \in [StopIds -> StopRecords] /\ status \in [Runs -> Statuses]
      /\ \A i \in 1..Len(queue) : queue[i] \in Attempts /\ phase[queue[i]] = "queued"
      /\ s \in Actors /\ s.run \in Runs
  BY KeptTypes, ActorFacts DEF Shape, TypeOK, StopRecords, AdmissionOK, QueueOK
<1>1. CASE StopCancels(s)
  <2>0. UNCHANGED <<status, appends, reduced, followUp>>
    BY <1>1 DEF StopCancels, store
  <2>1. /\ stop'[s].phase = "cleanup"
        /\ \A t \in StopIds : t # s => stop'[t] = stop[t]
    BY <1>1, <1>t DEF StopCancels, StopRecords
  <2>2. Queues(0) /\ Added(0) = {}
    BY <2>0, QueueShapes
  <2>3. ASSUME NEW a \in Attempts, phase'[a] # phase[a]
        PROVE  phase[a] = "queued" /\ a[1] = s.run
    BY <1>1, <1>t, <2>3, StopCancelsEffect
  <2>4. Awaits("queued") = "none" /\ "queued" \notin AtWork
    BY DEF Awaits, AtWork
  <2>5. Says(0)
    BY <2>0, <2>2, <2>3, <2>4, StayFacts DEF Says
  <2>6. Owes(0)
    <3>1. \A a \in Attempts : phase[a] \in AtWork => phase'[a] \in AtWork
      BY <2>3, <2>4
    <3>2. \A a \in Attempts : phase[a] \in Owing =>
            phase'[a] \in Owing \/ \E t \in StopIds : t.run = a[1] /\ stop'[t].phase = "cleanup"
      BY <2>1, <2>3
    <3> QED BY <2>0, <2>1, <3>1, <3>2, StayFacts DEF Owes
  <2> QED BY <2>2, <2>5, <2>6 DEF QueueStep
<1>2. CASE StopCleansUp(s)
  <2>0. UNCHANGED <<status, phase, reduced>>
    BY <1>2 DEF StopCleansUp, attempts
  <2>f. FollowUpsStay
    <3>1. CASE s.run \in followUps
      BY <1>2, <3>1, StayFacts DEF StopCleansUp
    <3>2. CASE s.run \notin followUps
      <4>1. PhasesStay /\ \A o \in Runs \ {s.run} : followUp'[o] = followUp[o]
        BY <1>2, <1>t, <3>2, DisposeHostType DEF StopCleansUp
      <4>2. EndComes(s.run)
        BY <1>2 DEF StopCleansUp, EndComes
      <4> QED BY <4>1, <4>2 DEF FollowUpsStay, PhasesStay
    <3> QED BY <3>1, <3>2
  <2>1. CASE status[s.run] \in Terminal \cup {"absent"}
    <3>1. appends' = appends /\ stop' = [stop EXCEPT ![s] = StopIdle]
      BY <1>2, <2>1 DEF StopCleansUp, StopReturns
    <3>2. status[s.run] \notin Unended /\ \A t \in StopIds : t # s => stop'[t] = stop[t]
      BY <1>t, <2>1, <3>1 DEF Terminal, Unended
    <3> QED BY <2>0, <2>f, <3>1, <3>2, CallSays, StayFacts
  <2>2. CASE status[s.run] \notin Terminal \cup {"absent"}
    <3>1. appends' = Append(appends, Event(s, "failed"))
          /\ stop' = [stop EXCEPT ![s].phase = "reporting"]
      BY <1>2, <2>2 DEF StopCleansUp, Emit
    <3>2. \A t \in StopIds : t # s => stop'[t] = stop[t]
      BY <1>t, <3>1
    <3>3. Event(s, "failed") \in Events
      BY <1>t, EventFacts DEF Statuses, Terminal
    <3>4. Event(s, "failed").by = s /\ Event(s, "failed").run = s.run
          /\ Event(s, "failed").status = "failed"
      BY DEF Event
    <3> QED BY <2>0, <2>f, <3>1, <3>2, <3>3, <3>4, CallSays, StayFacts
  <2> QED BY <2>1, <2>2
<1>3. CASE StopReported(s)
  <2>1. /\ UNCHANGED <<status, phase, followUp>> /\ reduced' = FALSE /\ reduced
        /\ appends' = Tail(appends) /\ stop[s].phase = "reporting"
        /\ stop' = [stop EXCEPT ![s] = StopIdle]
    BY <1>3 DEF StopReported, StopReturns, Settled, attempts
  <2>2. \A t \in StopIds : t # s => stop'[t] = stop[t]
    BY <1>t, <2>1
  <2> QED BY <2>1, <2>2, CallSays, StayFacts
<1> QED BY <1>1, <1>2, <1>3 DEF StopStep

(* The other calls, cancelAll() and dispose() append nothing; a heartbeat   *)
(* is of an attempt at work.                                                *)
LEMMA CallAppends ==
  ASSUME Shape, \/ CancelStep \/ CancelAll \/ Dispose
                \/ \E r \in Runs : Spawn(r) \/ Retry(r) \/ Wait(r) \/ Stop(r)
                \/ \E a \in Attempts : Heartbeat(a)
  PROVE  QueueStep
<1>1. ASSUME \/ CancelAllReturns \/ Disposed \/ CancelAll \/ Dispose
             \/ \E r \in Runs : Wait(r)
      PROVE  QueueStep
  <2>1. UNCHANGED <<status, phase, followUp, appends, reduced, stop>>
    BY <1>1 DEF CancelAllReturns, Disposed, CancelAll, Dispose, BeginCancelAll, Wait,
                store, attempts, calls
  <2> QED BY <2>1, CallSays, StayFacts
<1>2. ASSUME CancelAllStops \/ \E r \in Runs : Stop(r) PROVE QueueStep
  <2>1. UNCHANGED <<status, phase, followUp, appends, reduced>>
    BY <1>2 DEF CancelAllStops, Stop, store, attempts
  <2>2. \E runs, via : BeginStops(runs, via)
    BY <1>2 DEF CancelAllStops, Stop
  <2>3. \A s \in StopIds : stop'[s] = stop[s] \/ stop'[s].phase = "children"
    BY <2>2 DEF BeginStops
  <2> QED BY <2>1, <2>3, CallSays, StayFacts
<1>3. ASSUME NEW a \in Attempts, Heartbeat(a) PROVE QueueStep
  <2> DEFINE e == Event(NoOne(a[1]), "running")
  <2>1. /\ UNCHANGED <<status, phase, followUp, stop, reduced>> /\ phase[a] \in AtWork
        /\ appends' = Append(appends, e)
    BY <1>3 DEF Heartbeat, Emit, attempts, calls, AtWork
  <2>2. /\ e \in Events /\ e.by = NoOne(a[1]) /\ e.run = a[1] /\ e.status = "running"
        /\ e.run = e.by.run
    <3>1. "running" \in Statuses \cup {"same"} /\ NoOne(a[1]).run = a[1]
          /\ NoOne(a[1]) \in Actors /\ a[1] \in Runs
      BY ActorFacts, AttemptFacts DEF Statuses
    <3> QED BY <3>1, EventFacts DEF Event
  <2> HIDE DEF e
  <2> QED BY <2>1, <2>2, CallSays, StayFacts
<1>4. ASSUME NEW r \in Runs, Spawn(r) \/ Retry(r) PROVE QueueStep
  <2>1. PICK k \in 1..MaxAttempts : BeginSpawn(r, k)
    <3>1. 1 \in 1..MaxAttempts /\ \A k \in 2..MaxAttempts : k \in 1..MaxAttempts
      BY FleetAssumption
    <3> QED BY <1>4, <3>1 DEF Spawn, Retry
  <2>2. <<r, k>> \in Attempts /\ phase[<<r, k>>] = "none"
    <3>1. k \notin Begun(r)
      BY <2>1, FleetAssumption DEF BeginSpawn
    <3> QED BY <3>1, AttemptFacts DEF Begun
  <2>3. /\ phase' = [phase EXCEPT ![<<r, k>>] = "catalog"]
        /\ UNCHANGED <<status, followUp, stop, appends, reduced>>
    BY <2>1 DEF BeginSpawn, store, calls
  <2>4. Awaits("none") = "none" /\ "none" \notin Owing /\ "none" \notin AtWork
    BY DEF Awaits, Owing, AtWork
  <2> QED BY <2>2, <2>3, <2>4, AttemptSays, StayFacts
<1> QED BY <1>1, <1>2, <1>3, <1>4 DEF CancelStep

LEMMA AppendsInvariant == Spec => [](AppendsOK /\ ReportsOK)
<1>1. Init => AppendsOK /\ ReportsOK
  <2> SUFFICES ASSUME Init PROVE AppendsOK /\ ReportsOK
    OBVIOUS
  <2>1. appends = <<>> /\ reduced = FALSE /\ \A r \in Runs : status[r] = "absent"
    BY DEF Init
  <2> QED BY <2>1 DEF AppendsOK, ReportsOK, Unended
<1>2. Kept /\ AppendsOK /\ ReportsOK /\ [Next]_vars => (AppendsOK /\ ReportsOK)'
  <2> SUFFICES ASSUME Kept, AppendsOK, ReportsOK, [Next]_vars PROVE (AppendsOK /\ ReportsOK)'
    OBVIOUS
  <2>k. Shape /\ AdmissionOK
    BY DEF Kept
  <2>1. CASE QueueStep
    <3>1. PICK d \in {0, 1} : Queues(d) /\ Says(d) /\ Owes(d)
      BY <2>1 DEF QueueStep
    <3> QED BY <2>k, <3>1, AppendsStep, ReportsStep
  <2>2. CASE Reduce
    BY <2>k, <2>2, ReduceStep
  <2>3. ASSUME NEW a \in Attempts, AttemptStep(a) PROVE QueueStep
    BY <2>k, <2>3, AttemptAppends, BoundaryAppends DEF AttemptStep
  <2>4. ASSUME NEW r \in Runs, FollowUpStep(r) \/ Send(r) PROVE QueueStep
    BY <2>k, <2>4, FollowUpAppends, FollowUpEndAppends DEF FollowUpStep
  <2>5. ASSUME NEW s \in StopIds, StopStep(s) PROVE QueueStep
    BY <2>k, <2>5, StopAppends
  <2>6. CASE Next
    BY <2>k, <2>1, <2>2, <2>3, <2>4, <2>5, <2>6, CallAppends DEF Next, Progress
  <2>7. CASE UNCHANGED vars
    <3>1. UNCHANGED <<status, appends, reduced, phase, followUp, stop>>
      BY <2>7 DEF vars, store, attempts, calls
    <3> QED BY <3>1 DEF AppendsOK, ReportsOK, Meant, Owed, EndComes
  <2> QED BY <2>6, <2>7
<1> QED BY <1>1, <1>2, KeptInvariant, PTL DEF Spec

(* When nothing goes on any more, every run that was created has a terminal *)
(* state in the snapshot, however heartbeats, stop(), cancelAll(), retries  *)
(* and follow-ups interleaved, or its follow-up announced itself although   *)
(* its host was disposed, and sendCompleted() threw before agent.failed:    *)
(* for any runs and bounds, and also for callers that retry a run which     *)
(* still unwinds.                                                           *)
THEOREM RunsEnd == Spec => []QuiescentIsTerminal
<1>1. Kept /\ ReportsOK => QuiescentIsTerminal
  <2> SUFFICES ASSUME Kept, ReportsOK, Quiet, NEW r \in Runs,
                      ~followUp[r].abandoned
               PROVE  status[r] \in Terminal \cup {"absent"}
    BY DEF QuiescentIsTerminal
  <2>1. appends = <<>> /\ Len(appends) = 0
    BY DEF Quiet
  <2>2. \A a \in Attempts : phase[a] \notin Owing
    <3>1. \A a \in Attempts : phase[a] \in {"none", "done"}
      BY AttemptFacts DEF Quiet, Unoccupied, Resting
    <3> QED BY <3>1 DEF Owing, AtWork
  <2>3. followUp[r].phase = "none"
    BY DEF Quiet, Unoccupied, Resting
  <2>4. \A s \in StopIds : s.run = r => stop[s].phase = "idle"
    BY DEF Quiet, Unoccupied
  <2>5. ~Owed(r)
    BY <2>2, <2>3, <2>4 DEF Owed, EndComes
  <2>6. status[r] \notin Unended
    BY <2>1, <2>5 DEF ReportsOK
  <2>7. status[r] \in Statuses
    BY DEF Kept, Shape, TypeOK
  <2> QED BY <2>6, <2>7 DEF Statuses, Unended
<1> QED BY <1>1, KeptInvariant, AppendsInvariant, PTL
=============================================================================
