---------------------- MODULE AgentFleetAdmission_proofs ----------------------
(***************************************************************************)
(* Proofs that the fleet respects its session limit and that writers with  *)
(* overlapping scopes exclude each other, for every set of runs, ownership *)
(* and conflicts, under CallersWait: retry() of a run only when no         *)
(* attempt, no follow-up and no stop() of it is under way, send() only     *)
(* when no attempt and no follow-up of it is.  The controller does not     *)
(* enforce that: interruptAndSend() waits for its own stop and the         *)
(* execution, chatPrompt looks at launching, active and followUps, other   *)
(* callers at nothing but the status.  A retry against a stop that is      *)
(* still under way breaks SharedWritesSerialized, as TLC shows.            *)
(*                                                                         *)
(* The code counts runs, the property counts what executes.  The two agree *)
(* because a run has one actor at a time (Solo), everything that executes  *)
(* is in one of the sets the code counts (Counted), and a slot is only     *)
(* taken when there is room.                                               *)
(*                                                                         *)
(* A writer at work holds a lock (Equipped), so what holds for those who   *)
(* hold locks holds for the work done under them.                          *)
(***************************************************************************)
EXTENDS AgentFleet_proofs

(* Begun and not over.                                                      *)
Live(a) == phase[a] \notin {"none", "done"}

(* A run has one live attempt, or one follow-up after its attempts; a host  *)
(* is that of an attempt there was.                                         *)
Solo ==
  /\ \A a, b \in Attempts : Live(a) /\ Live(b) /\ a[1] = b[1] => a = b
  /\ \A r \in Runs : followUp[r].phase # "none" =>
       (\E a \in Attempts : a[1] = r /\ phase[a] # "none")
         /\ \A a \in Attempts : a[1] = r => ~Live(a)
  /\ \A r \in Runs : completedHosts[r] # 0 => phase[<<r, completedHosts[r]>>] # "none"

(* What executes is counted by the code, and there is room for what is      *)
(* counted.                                                                 *)
Counted ==
  /\ \A a \in Attempts : phase[a] \in {"starting", "isolating"} => a[1] \in launching
  /\ \A a \in Attempts : phase[a] \in Executing => a[1] \in launching \/ active[a[1]] # 0
  /\ Slots(launching, active, followUps) <= Capacity

(* Who has a lock to release has it in the guard.                           *)
Exclusive == {x[1] : x \in lock} \subseteq locks /\ WriteExclusion

Orderly == Kept /\ Solo /\ Counted /\ Exclusive

-----------------------------------------------------------------------------
(* What the draining steps launch                                           *)

LEMMA AttachLaunch ==
  ASSUME Shape, AdmissionOK, NEW a \in Attempts, Attaches(a)
  PROVE  /\ Launches(launching, [phase EXCEPT ![a] = "queued"])
         /\ active' = active /\ followUps' = followUps
         /\ Slots(launching, active, followUps) <= Capacity =>
              Slots(launching', active', followUps') <= Capacity
<1> DEFINE q == Append(queue, a)
           ph == [phase EXCEPT ![a] = "queued"]
<1>1. phase[a] # "queued"
  BY DEF Attaches
<1>2. q \in Seq(Attempts) /\ QueueOK(q, ph)
  BY <1>1, AppendKeepsQueue DEF AdmissionOK
<1>3. ph \in [Attempts -> Phases]
  BY KeptTypes DEF Phases
<1>4. PICK n \in 0..Len(q), ap \in Seq(Events) : Drained(n, q, launching, active, followUps, ph, ap)
  BY DEF Attaches
<1> HIDE DEF q, ph
<1>5. Launches(launching, ph)
  BY <1>2, <1>3, <1>4, KeptTypes, DrainKeeps
<1> QED BY <1>4, <1>5 DEF Drained, ph

LEMMA UnwindLaunch ==
  ASSUME Shape, AdmissionOK, NEW a \in Attempts, Unwinds(a)
  PROVE  /\ Launches(launching \ {a[1]}, [phase EXCEPT ![a] = "done"])
         /\ active' = [active EXCEPT ![a[1]] = 0] /\ followUps' = followUps
         /\ Slots(launching \ {a[1]}, [active EXCEPT ![a[1]] = 0], followUps) <= Capacity =>
              Slots(launching', active', followUps') <= Capacity
<1> DEFINE l == launching \ {a[1]}
           act == [active EXCEPT ![a[1]] = 0]
           ph == [phase EXCEPT ![a] = "done"]
<1>1. phase[a] # "queued"
  BY DEF Unwinds
<1>2. QueueOK(queue, ph)
  BY <1>1, KeptTypes DEF AdmissionOK, QueueOK
<1>3. ph \in [Attempts -> Phases] /\ act \in [Runs -> 0..MaxAttempts] /\ l \in SUBSET Runs
  <2>1. "done" \in Phases /\ 0 \in 0..MaxAttempts
    BY FleetAssumption DEF Phases
  <2> QED BY <2>1, KeptTypes
<1>4. PICK n \in 0..Len(queue), ap \in Seq(Events) : Drained(n, queue, l, act, followUps, ph, ap)
  BY DEF Unwinds
<1> HIDE DEF l, act, ph
<1>5. Launches(l, ph)
  BY <1>2, <1>3, <1>4, KeptTypes, DrainKeeps
<1> QED BY <1>4, <1>5 DEF Drained, l, act, ph

LEMMA FollowUpLaunch ==
  ASSUME Shape, AdmissionOK, NEW r \in Runs, FollowUpEnds(r)
  PROVE  /\ Launches(launching, phase)
         /\ active' = active /\ followUps' = followUps \ {r}
         /\ Slots(launching, active, followUps \ {r}) <= Capacity =>
              Slots(launching', active', followUps') <= Capacity
<1>1. PICK n \in 0..Len(queue), ap \in Seq(Events) :
        Drained(n, queue, launching, active, followUps \ {r}, phase, ap)
  BY DEF FollowUpEnds
<1>2. Launches(launching, phase)
  BY <1>1, KeptTypes, DrainKeeps DEF AdmissionOK
<1> QED BY <1>1, <1>2 DEF Drained

-----------------------------------------------------------------------------
(* One actor of a run at a time                                             *)

LEMMA SoloKeeps ==
  ASSUME Shape, Solo,
         \A a \in Attempts : phase'[a] \notin {"none", "done"} => Live(a),
         \A a \in Attempts : phase[a] # "none" => phase'[a] # "none",
         \A r \in Runs : followUp'[r].phase # "none" => followUp[r].phase # "none",
         \A r \in Runs : completedHosts'[r] \in {completedHosts[r], 0}
                           \/ \E a \in Attempts : /\ r = a[1] /\ completedHosts'[r] = a[2]
                                                 /\ phase[a] # "none"
  PROVE  Solo'
<1>1. \A a, b \in Attempts : Live(a)' /\ Live(b)' /\ a[1] = b[1] => a = b
  BY DEF Solo, Live
<1>2. ASSUME NEW r \in Runs, followUp'[r].phase # "none"
      PROVE  /\ \E a \in Attempts : a[1] = r /\ phase'[a] # "none"
             /\ \A a \in Attempts : a[1] = r => ~Live(a)'
  <2>1. /\ \E a \in Attempts : a[1] = r /\ phase[a] # "none"
        /\ \A a \in Attempts : a[1] = r => ~Live(a)
    BY <1>2 DEF Solo
  <2> QED BY <2>1 DEF Live
<1>3. ASSUME NEW r \in Runs, completedHosts'[r] # 0
      PROVE  phase'[<<r, completedHosts'[r]>>] # "none"
  <2>1. CASE completedHosts'[r] = completedHosts[r]
    <3>1. completedHosts[r] \in 1..MaxAttempts
      BY <1>3, <2>1, FleetAssumption DEF Shape, TypeOK
    <3>2. <<r, completedHosts[r]>> \in Attempts /\ phase[<<r, completedHosts[r]>>] # "none"
      BY <1>3, <2>1, <3>1, AttemptFacts DEF Solo
    <3> QED BY <2>1, <3>2
  <2>2. ASSUME NEW a \in Attempts, r = a[1], completedHosts'[r] = a[2], phase[a] # "none"
        PROVE  phase'[<<r, completedHosts'[r]>>] # "none"
    BY <2>2, AttemptFacts
  <2> QED BY <1>3, <2>1, <2>2
<1> QED BY <1>1, <1>2, <1>3 DEF Solo

LEMMA SoloSpawn ==
  ASSUME CallersWait, Shape, Solo, NEW r \in Runs, NEW k \in 1..MaxAttempts, Spawns(r, k)
  PROVE  Solo'
<1>1. /\ <<r, k>> \in Attempts /\ phase[<<r, k>>] = "none"
      /\ phase' = [phase EXCEPT ![<<r, k>>] = "catalog"]
  <2>1. k \notin Begun(r)
    BY DEF Spawns
  <2> QED BY <2>1, AttemptFacts DEF Begun, Spawns
<1>2. \A a \in Attempts : a # <<r, k>> => phase'[a] = phase[a]
  BY <1>1, KeptTypes
<1>3. (\A a \in Attempts : a[1] = r => ~Live(a)) /\ followUp[r].phase = "none"
  <2>1. CASE k = 1
    <3>1. \A a \in Attempts : a[1] = r => phase[a] = "none"
      <4>1. Begun(r) = {}
        BY <2>1 DEF Spawns
      <4> QED BY <4>1, AttemptFacts DEF Begun
    <3> QED BY <3>1 DEF Live, Solo
  <2>2. CASE k > 1
    <3>1. Unoccupied(r)
      BY <2>2 DEF Spawns
    <3> QED BY <3>1, AttemptFacts DEF Unoccupied, Resting, Live
  <2> QED BY <2>1, <2>2
<1>4. \A a, b \in Attempts : Live(a)' /\ Live(b)' /\ a[1] = b[1] => a = b
  <2> SUFFICES ASSUME NEW a \in Attempts, NEW b \in Attempts, Live(a)', Live(b)', a[1] = b[1]
               PROVE  a = b
    OBVIOUS
  <2>1. CASE a[1] = r
    BY <2>1, <1>2, <1>3 DEF Live
  <2>2. CASE a[1] # r
    <3>1. a # <<r, k>> /\ b # <<r, k>>
      BY <2>2
    <3> QED BY <3>1, <1>2 DEF Solo, Live
  <2> QED BY <2>1, <2>2
<1>5. ASSUME NEW o \in Runs, followUp'[o].phase # "none"
      PROVE  /\ \E a \in Attempts : a[1] = o /\ phase'[a] # "none"
             /\ \A a \in Attempts : a[1] = o => ~Live(a)'
  <2>1. o # r /\ followUp[o].phase # "none"
    BY <1>3, <1>5 DEF Spawns
  <2>2. \A a \in Attempts : a[1] = o => phase'[a] = phase[a]
    BY <2>1, <1>2
  <2> QED BY <2>1, <2>2 DEF Solo, Live
<1>6. ASSUME NEW o \in Runs, completedHosts'[o] # 0
      PROVE  phase'[<<o, completedHosts'[o]>>] # "none"
  <2>1. completedHosts' = completedHosts
    BY DEF Spawns
  <2>2. completedHosts[o] \in 1..MaxAttempts
    BY SMTT(30), <1>6, <2>1, FleetAssumption DEF Shape, TypeOK
  <2>3. <<o, completedHosts[o]>> \in Attempts /\ phase[<<o, completedHosts[o]>>] # "none"
    BY <1>6, <2>1, <2>2, AttemptFacts DEF Solo
  <2> QED BY <1>1, <1>2, <2>1, <2>3
<1> QED BY <1>4, <1>5, <1>6 DEF Solo

LEMMA SoloFollowUp ==
  ASSUME CallersWait, Shape, Solo, NEW r \in Runs, FollowUpMoves(r)
  PROVE  Solo'
<1>1. CASE followUp[r].phase # "none"
  BY <1>1, SoloKeeps DEF FollowUpMoves, Live
<1>2. CASE followUp[r].phase = "none"
  <2>1. completedHosts[r] # 0 /\ Resting(r) /\ UNCHANGED <<phase, completedHosts>>
    BY <1>2 DEF FollowUpMoves
  <2>2. \E a \in Attempts : a[1] = r /\ phase[a] # "none"
    <3>1. completedHosts[r] \in 1..MaxAttempts
      BY <2>1, FleetAssumption DEF Shape, TypeOK
    <3> QED BY <2>1, <3>1, AttemptFacts DEF Solo
  <2>3. \A a \in Attempts : a[1] = r => ~Live(a)
    BY <2>1, AttemptFacts DEF Resting, Live
  <2> QED BY <2>1, <2>2, <2>3 DEF Solo, Live, FollowUpMoves
<1> QED BY <1>1, <1>2

LEMMA SoloStep ==
  ASSUME CallersWait, Shape, AdmissionOK, Solo, Next
  PROVE  Solo'
<1>t. completedHosts \in [Runs -> 0..MaxAttempts]
  BY DEF Shape, TypeOK
<1>1. ASSUME NEW a \in Attempts, AttemptMoves(a) PROVE Solo'
  <2>1. /\ phase[a] \notin {"none", "done"} /\ phase'[a] \notin {"none", "done"}
        /\ \A b \in Attempts : b # a => phase'[b] = phase[b]
    BY <1>1, KeptTypes DEF AttemptMoves, Moves
  <2>2. ASSUME NEW r \in Runs
        PROVE  \/ completedHosts'[r] = completedHosts[r]
               \/ (r = a[1] /\ completedHosts'[r] = a[2])
    BY <1>1, <1>t DEF AttemptMoves
  <2>3. followUp' = followUp
    BY <1>1 DEF AttemptMoves
  <2> QED BY <2>1, <2>2, <2>3, SoloKeeps DEF Live
<1>2. ASSUME NEW a \in Attempts, Replaces(a) PROVE Solo'
  <2>1. /\ \A b \in Attempts : phase'[b] = IF b = a THEN "replacing" ELSE phase[b]
        /\ \A r \in Runs : completedHosts'[r] \in {completedHosts[r], 0}
        /\ phase[a] = "creating" /\ PhasesStay
    BY <1>2, <1>t, KeptTypes DEF Replaces
  <2> QED BY <2>1, SoloKeeps DEF Live, PhasesStay
<1>3. ASSUME NEW a \in Attempts, Attaches(a) PROVE Solo'
  <2>1. Launches(launching, [phase EXCEPT ![a] = "queued"])
    BY <1>3, AttachLaunch
  <2>2. \A b \in Attempts : phase'[b] = phase[b]
                             \/ (Live(b) /\ phase'[b] \in {"queued", "starting", "failing"})
    BY <1>3, <2>1, KeptTypes DEF Attaches, Launches, Live
  <2>3. /\ \A r \in Runs : completedHosts'[r] \in {completedHosts[r], 0}
        /\ PhasesStay
    BY <1>3, <1>t DEF Attaches
  <2> QED BY <2>2, <2>3, SoloKeeps DEF Live, PhasesStay
<1>4. ASSUME NEW a \in Attempts, Unwinds(a) PROVE Solo'
  <2>1. Launches(launching \ {a[1]}, [phase EXCEPT ![a] = "done"])
    BY <1>4, UnwindLaunch
  <2>2. \A b \in Attempts : phase'[b] = phase[b]
                             \/ (Live(b) /\ phase'[b] \in {"done", "starting", "failing"})
    BY <1>4, <2>1, KeptTypes DEF Unwinds, Launches, Live
  <2>3. followUp' = followUp /\ completedHosts' = completedHosts
    BY <1>4 DEF Unwinds
  <2> QED BY <2>2, <2>3, SoloKeeps DEF Live
<1>5. ASSUME NEW r \in Runs, FollowUpEnds(r) PROVE Solo'
  <2>1. Launches(launching, phase)
    BY <1>5, FollowUpLaunch
  <2>2. \A b \in Attempts : phase'[b] = phase[b]
                             \/ (Live(b) /\ phase'[b] \in {"starting", "failing"})
    BY <2>1 DEF Launches, Live
  <2>3. /\ \A o \in Runs : completedHosts'[o] \in {completedHosts[o], 0}
        /\ \A o \in Runs : followUp'[o].phase # "none" => followUp[o].phase # "none"
    BY <1>5, <1>t DEF FollowUpEnds
  <2> QED BY <2>2, <2>3, SoloKeeps DEF Live
<1>6. ASSUME NEW s \in StopIds, StopCancels(s) PROVE Solo'
  <2>1. \A b \in Attempts : phase'[b] = phase[b] \/ (Live(b) /\ phase'[b] = "done")
    <3>1. \A m \in 1..Len(queue) : queue[m] \in Attempts /\ Live(queue[m])
      BY KeptTypes DEF AdmissionOK, QueueOK, Live
    <3> QED BY SMTT(30), <1>6, <3>1, StopCancelsEffect, KeptTypes
  <2>2. followUp' = followUp /\ completedHosts' = completedHosts
    BY <1>6 DEF StopCancels
  <2> QED BY <2>1, <2>2, SoloKeeps DEF Live
<1>7. ASSUME RestStep PROVE Solo'
  BY <1>7, RestEffect, SoloKeeps DEF Rests, Live, PhasesStay
<1> QED BY <1>1, <1>2, <1>3, <1>4, <1>5, <1>6, <1>7, SoloSpawn, SoloFollowUp, StepKinds
-----------------------------------------------------------------------------
(* The slots are counted right                                              *)

LEMMA SlotsFacts ==
  ASSUME NEW l \in SUBSET Runs, NEW act \in [Runs -> 0..MaxAttempts], NEW fu \in SUBSET Runs
  PROVE  /\ IsFiniteSet(l) /\ IsFiniteSet({r \in Runs : act[r] # 0}) /\ IsFiniteSet(fu)
         /\ Cardinality(l) \in Nat /\ Cardinality({r \in Runs : act[r] # 0}) \in Nat
         /\ Cardinality(fu) \in Nat
         /\ Slots(l, act, fu) \in Nat /\ Capacity \in Nat
<1>1. IsFiniteSet(Runs) /\ Capacity \in Nat
  BY FleetAssumption DEF Capacity
<1>2. IsFiniteSet(l) /\ IsFiniteSet({r \in Runs : act[r] # 0}) /\ IsFiniteSet(fu)
  BY <1>1, FS_Subset
<1>3. /\ Cardinality(l) \in Nat /\ Cardinality({r \in Runs : act[r] # 0}) \in Nat
      /\ Cardinality(fu) \in Nat
  BY <1>2, FS_CardinalityType
<1> QED BY <1>1, <1>2, <1>3 DEF Slots

LEMMA SlotsMonotone ==
  ASSUME NEW l \in SUBSET Runs, NEW act \in [Runs -> 0..MaxAttempts], NEW fu \in SUBSET Runs,
         NEW l2 \in SUBSET l, NEW act2 \in [Runs -> 0..MaxAttempts], NEW fu2 \in SUBSET fu,
         \A r \in Runs : act2[r] # 0 => act[r] # 0
  PROVE  Slots(l2, act2, fu2) <= Slots(l, act, fu)
<1> DEFINE A == {r \in Runs : act[r] # 0}
           A2 == {r \in Runs : act2[r] # 0}
<1>1. A2 \in SUBSET A
  OBVIOUS
<1>2. IsFiniteSet(l) /\ IsFiniteSet(A) /\ IsFiniteSet(fu)
      /\ Cardinality(l) \in Nat /\ Cardinality(A) \in Nat /\ Cardinality(fu) \in Nat
  BY SlotsFacts
<1>3. /\ Cardinality(l2) \in Nat /\ Cardinality(A2) \in Nat /\ Cardinality(fu2) \in Nat
  BY SlotsFacts
<1>4. /\ Slots(l, act, fu) = Cardinality(l) + Cardinality(A) + Cardinality(fu)
      /\ Slots(l2, act2, fu2) = Cardinality(l2) + Cardinality(A2) + Cardinality(fu2)
  BY DEF Slots
<1> HIDE DEF A, A2
<1>5. /\ Cardinality(l2) <= Cardinality(l) /\ Cardinality(A2) <= Cardinality(A)
      /\ Cardinality(fu2) <= Cardinality(fu)
  BY <1>1, <1>2, FS_Subset
<1> QED BY <1>2, <1>3, <1>4, <1>5

(* A run that goes from launching to active keeps its one slot.             *)
LEMMA SlotMoves ==
  ASSUME NEW l \in SUBSET Runs, NEW act \in [Runs -> 0..MaxAttempts], NEW fu \in SUBSET Runs,
         NEW r \in l, NEW k \in 0..MaxAttempts
  PROVE  Slots(l \ {r}, [act EXCEPT ![r] = k], fu) <= Slots(l, act, fu)
<1> DEFINE A == {o \in Runs : act[o] # 0}
           act2 == [act EXCEPT ![r] = k]
           A2 == {o \in Runs : act2[o] # 0}
<1>1. act2 \in [Runs -> 0..MaxAttempts] /\ A2 \in SUBSET (A \cup {r})
  OBVIOUS
<1>2. IsFiniteSet(l) /\ IsFiniteSet(A)
      /\ Cardinality(l) \in Nat /\ Cardinality(A) \in Nat /\ Cardinality(fu) \in Nat
  BY SlotsFacts
<1>3. Cardinality(A2) \in Nat
  <2> HIDE DEF act2
  <2> QED BY <1>1, SlotsFacts
<1>4. /\ Slots(l, act, fu) = Cardinality(l) + Cardinality(A) + Cardinality(fu)
      /\ Slots(l \ {r}, act2, fu) = Cardinality(l \ {r}) + Cardinality(A2) + Cardinality(fu)
  BY DEF Slots
<1> HIDE DEF A, A2, act2
<1>5. Cardinality(l \ {r}) = Cardinality(l) - 1
  BY <1>2, FS_RemoveElement
<1>6. Cardinality(A2) <= Cardinality(A) + 1
  <2>1. IsFiniteSet(A \cup {r}) /\ Cardinality(A \cup {r}) \in Nat
        /\ Cardinality(A \cup {r}) <= Cardinality(A) + 1
    BY <1>2, AtMostOneMore, FS_AddElement
  <2>2. Cardinality(A2) <= Cardinality(A \cup {r})
    BY <1>1, <2>1, FS_Subset
  <2> QED BY <2>1, <2>2, <1>2, <1>3
<1> QED BY <1>2, <1>3, <1>4, <1>5, <1>6 DEF act2

LEMMA CountedMove ==
  ASSUME Shape, Solo, Counted, NEW a \in Attempts, AttemptMoves(a)
  PROVE  Counted'
<1>1. /\ Moves(phase[a], phase'[a])
      /\ \A b \in Attempts : b # a => phase'[b] = phase[b]
  BY KeptTypes DEF AttemptMoves
<1>f. a[1] \in Runs /\ a[2] # 0 /\ a[2] \in 0..MaxAttempts /\ \A b \in Attempts : b[1] \in Runs
  BY AttemptFacts
<1>2. CASE phase'[a] # "announcing"
  <2>1. UNCHANGED <<launching, active, followUps>>
    BY <1>2 DEF AttemptMoves
  <2>2. /\ phase'[a] \in {"starting", "isolating"} => phase[a] \in {"starting", "isolating"}
        /\ phase'[a] \in Executing => phase[a] \in Executing
    BY <1>1, <1>2 DEF Moves, Executing
  <2> QED BY <2>1, <2>2, <1>1 DEF Counted
<1>3. CASE phase'[a] = "announcing"
  <2>1. active' = [active EXCEPT ![a[1]] = a[2]] /\ launching' = launching \ {a[1]}
        /\ followUps' = followUps
    BY <1>3 DEF AttemptMoves
  <2>2. phase[a] \in {"starting", "isolating"} /\ a[1] \in launching
    BY <1>1, <1>3 DEF Moves, Counted
  <2>3. active'[a[1]] # 0 /\ \A r \in Runs : r # a[1] => active'[r] = active[r]
    BY <2>1, <1>f, KeptTypes
  <2>4. \A b \in Attempts : phase'[b] \in {"starting", "isolating"} => b[1] \in launching'
    <3> SUFFICES ASSUME NEW b \in Attempts, phase'[b] \in {"starting", "isolating"}
                 PROVE  b[1] \in launching'
      OBVIOUS
    <3>1. b # a /\ phase[b] = phase'[b]
      BY <1>1, <1>3
    <3>2. b[1] # a[1]
      BY <2>2, <3>1 DEF Solo, Live
    <3> QED BY <2>1, <3>1, <3>2 DEF Counted
  <2>5. \A b \in Attempts : phase'[b] \in Executing => b[1] \in launching' \/ active'[b[1]] # 0
    <3> SUFFICES ASSUME NEW b \in Attempts, phase'[b] \in Executing, b[1] # a[1]
                 PROVE  b[1] \in launching' \/ active'[b[1]] # 0
      BY <2>3
    <3> QED BY <1>1, <1>f, <2>1, <2>3 DEF Counted
  <2>6. Slots(launching', active', followUps') <= Slots(launching, active, followUps)
    BY <2>1, <2>2, <1>f, KeptTypes, SlotMoves
  <2>7. /\ Slots(launching, active, followUps) \in Nat /\ Capacity \in Nat
        /\ Slots(launching', active', followUps') \in Nat
    <3>1. active' \in [Runs -> 0..MaxAttempts] /\ launching' \in SUBSET Runs
      BY <2>1, <1>f, KeptTypes
    <3> QED BY <3>1, <2>1, KeptTypes, SlotsFacts
  <2>8. Slots(launching', active', followUps') <= Capacity
    BY <2>6, <2>7 DEF Counted
  <2> QED BY <2>4, <2>5, <2>8 DEF Counted
<1> QED BY <1>2, <1>3

LEMMA CountedAttach ==
  ASSUME Shape, AdmissionOK, Counted, NEW a \in Attempts, Attaches(a)
  PROVE  Counted'
<1> DEFINE ph == [phase EXCEPT ![a] = "queued"]
<1>1. \A b \in Attempts : ph[b] = phase[b] \/ ph[b] = "queued"
  BY KeptTypes
<1> HIDE DEF ph
<1>2. /\ Launches(launching, ph) /\ active' = active
      /\ Slots(launching', active', followUps') <= Capacity
  BY AttachLaunch DEF Counted, ph
<1>3. "queued" \notin Executing
  BY DEF Executing
<1> QED BY <1>1, <1>2, <1>3 DEF Counted, Launches

LEMMA CountedUnwind ==
  ASSUME Shape, AdmissionOK, Solo, Counted, NEW a \in Attempts, Unwinds(a)
  PROVE  Counted'
<1> DEFINE l == launching \ {a[1]}
           act == [active EXCEPT ![a[1]] = 0]
           ph == [phase EXCEPT ![a] = "done"]
<1>f. \A b \in Attempts : b[1] \in Runs
  BY AttemptFacts
<1>1. \A b \in Attempts : b[1] = a[1] => ph[b] \in {"none", "done"}
  <2> TAKE b \in Attempts
  <2>1. CASE b = a
    BY <2>1, KeptTypes
  <2>2. CASE b # a
    BY <2>2, KeptTypes DEF Solo, Live, Unwinds
  <2> QED BY <2>1, <2>2
<1>2. \A b \in Attempts : b[1] # a[1] => ph[b] = phase[b]
  BY KeptTypes
<1>3. \A r \in Runs : act[r] = IF r = a[1] THEN 0 ELSE active[r]
  BY KeptTypes
<1>4. l \in SUBSET Runs /\ act \in [Runs -> 0..MaxAttempts]
  <2>1. 0 \in 0..MaxAttempts
    BY FleetAssumption
  <2> QED BY <2>1, KeptTypes
<1>5. Slots(l, act, followUps) <= Capacity
  <2>1. l \in SUBSET launching /\ \A r \in Runs : act[r] # 0 => active[r] # 0
    BY <1>3
  <2> HIDE DEF l, act
  <2>2. Slots(l, act, followUps) <= Slots(launching, active, followUps)
    BY <2>1, <1>4, KeptTypes, SlotsMonotone
  <2>3. Slots(l, act, followUps) \in Nat /\ Slots(launching, active, followUps) \in Nat
        /\ Capacity \in Nat
    BY <1>4, KeptTypes, SlotsFacts
  <2> QED BY <2>2, <2>3 DEF Counted
<1>6. /\ Launches(l, ph) /\ active' = act
      /\ Slots(launching', active', followUps') <= Capacity
  BY <1>5, UnwindLaunch
<1>7. ASSUME NEW b \in Attempts, ph[b] \in Executing
      PROVE  /\ ph[b] \in {"starting", "isolating"} => b[1] \in l
             /\ b[1] \in l \/ act[b[1]] # 0
  <2>1. b[1] # a[1] /\ ph[b] = phase[b]
    BY <1>1, <1>2, <1>7 DEF Executing
  <2> QED BY <2>1, <1>f, <1>3, <1>7 DEF Counted
<1>8. {"starting", "isolating"} \subseteq Executing
  BY DEF Executing
<1> HIDE DEF l, act, ph
<1> QED BY <1>6, <1>7, <1>8 DEF Counted, Launches

LEMMA CountedFollowUp ==
  ASSUME Shape, AdmissionOK, Counted, NEW r \in Runs, FollowUpMoves(r) \/ FollowUpEnds(r)
  PROVE  Counted'
<1>n. Slots(launching, active, followUps) \in Nat /\ Capacity \in Nat
  BY KeptTypes, SlotsFacts
<1>1. CASE FollowUpMoves(r)
  <2>1. UNCHANGED <<phase, launching, active>>
    BY <1>1 DEF FollowUpMoves
  <2>2. Slots(launching, active, followUps') <= Capacity
    <3>1. CASE followUps' = followUps
      BY <3>1 DEF Counted
    <3>2. CASE followUps' = followUps \cup {r} /\ Slots(launching, active, followUps) < Capacity
      <4>1. IsFiniteSet(followUps) /\ Cardinality(launching) \in Nat
            /\ Cardinality({o \in Runs : active[o] # 0}) \in Nat
        BY KeptTypes, SlotsFacts
      <4>2. /\ Cardinality(followUps) \in Nat /\ Cardinality(followUps \cup {r}) \in Nat
            /\ Cardinality(followUps \cup {r}) <= Cardinality(followUps) + 1
        BY <4>1, AtMostOneMore
      <4> QED BY <1>n, <3>2, <4>1, <4>2 DEF Slots
    <3> QED BY <1>1, <3>1, <3>2 DEF FollowUpMoves
  <2> QED BY <2>1, <2>2 DEF Counted
<1>2. CASE FollowUpEnds(r)
  <2>1. Slots(launching, active, followUps \ {r}) <= Capacity
    <3>1. Slots(launching, active, followUps \ {r}) <= Slots(launching, active, followUps)
      BY KeptTypes, SlotsMonotone
    <3>2. Slots(launching, active, followUps \ {r}) \in Nat
      BY KeptTypes, SlotsFacts
    <3> QED BY <1>n, <3>1, <3>2 DEF Counted
  <2>2. /\ Launches(launching, phase) /\ active' = active
        /\ Slots(launching', active', followUps') <= Capacity
    BY <1>2, <2>1, FollowUpLaunch
  <2> QED BY <2>2 DEF Counted, Launches
<1> QED BY <1>1, <1>2

LEMMA CountedStep ==
  ASSUME Shape, AdmissionOK, Solo, Counted, Next
  PROVE  Counted'
<1>1. ASSUME UNCHANGED <<launching, active, followUps>>,
             \A b \in Attempts : phase'[b] = phase[b] \/ phase'[b] \notin Executing
      PROVE  Counted'
  <2>1. {"starting", "isolating"} \subseteq Executing
    BY DEF Executing
  <2> QED BY <1>1, <2>1 DEF Counted
<1>2. "catalog" \notin Executing /\ "replacing" \notin Executing /\ "done" \notin Executing
  BY DEF Executing
<1>3. ASSUME NEW r \in Runs, NEW k \in 1..MaxAttempts, Spawns(r, k) PROVE Counted'
  <2>1. \A b \in Attempts : phase'[b] = phase[b] \/ phase'[b] = "catalog"
    BY <1>3, KeptTypes DEF Spawns
  <2> QED BY <1>1, <1>2, <1>3, <2>1 DEF Spawns
<1>4. ASSUME NEW a \in Attempts, Replaces(a) PROVE Counted'
  <2>1. \A b \in Attempts : phase'[b] = phase[b] \/ phase'[b] = "replacing"
    BY <1>4, KeptTypes DEF Replaces
  <2> QED BY <1>1, <1>2, <1>4, <2>1 DEF Replaces
<1>5. ASSUME NEW s \in StopIds, StopCancels(s) PROVE Counted'
  <2>1. \A b \in Attempts : phase'[b] = phase[b] \/ phase'[b] = "done"
    <3>1. \A m \in 1..Len(queue) : queue[m] \in Attempts
      BY KeptTypes
    <3> QED BY <1>5, <3>1, StopCancelsEffect, KeptTypes
  <2> QED BY <1>1, <1>2, <1>5, <2>1 DEF StopCancels
<1>6. CASE RestStep
  BY <1>6, <1>1, RestEffect DEF Rests
<1> QED BY <1>3, <1>4, <1>5, <1>6, StepKinds, CountedMove, CountedAttach, CountedUnwind,
           CountedFollowUp

-----------------------------------------------------------------------------
(* Write locks exclude each other                                           *)

LEMMA ExclusiveAcquire ==
  ASSUME Exclusive, NEW x, lock' = lock \cup {x}, locks' = locks \cup {x[1]}, Free(x[1]),
         \A y \in lock : y[1] # x[1]
  PROVE  Exclusive'
<1>1. \A y \in lock : <<y[1], x[1]>> \notin Conflicts
  BY DEF Exclusive, Free
<1>2. \A y \in lock : <<x[1], y[1]>> \notin Conflicts
  <2> TAKE y \in lock
  <2>1. \A c \in Conflicts : <<c[2], c[1]>> \in Conflicts
    BY FleetAssumption
  <2>2. <<x[1], y[1]>> \in Conflicts => <<y[1], x[1]>> \in Conflicts
    BY <2>1
  <2> QED BY <2>2, <1>1
<1> QED BY <1>1, <1>2 DEF Exclusive, WriteExclusion

LEMMA ExclusiveRelease ==
  ASSUME Exclusive, NEW x, Release(x)
  PROVE  Exclusive'
BY DEF Exclusive, WriteExclusion, Release

LEMMA ExclusiveStep ==
  ASSUME Shape, AdmissionOK, Solo, Exclusive, Next
  PROVE  Exclusive'
<1>u. (UNCHANGED guard) => Exclusive'
  BY DEF guard, Exclusive, WriteExclusion
<1>0. ASSUME NEW x \in lock
      PROVE  /\ x[2] # 0 => x \in Attempts /\ phase[x] \in Holding /\ Live(x)
             /\ x[2] = 0 => followUp[x[1]].phase \in {"announcing", "working", "failing"}
             /\ x[1] \in Runs /\ x = <<x[1], x[2]>>
  BY <1>0, LockFacts DEF AdmissionOK, LocksOK, Holds, Holding, Live
<1>1. ASSUME NEW a \in Attempts, AttemptMoves(a) PROVE Exclusive'
  <2>1. ASSUME phase[a] = "isolating", NEW x \in lock PROVE x[1] # a[1]
    <3>1. Live(a) /\ phase[a] \notin Holding
      BY <2>1 DEF Live, Holding
    <3>2. CASE x[2] # 0
      BY <1>0, <3>1, <3>2 DEF Solo
    <3>3. CASE x[2] = 0
      BY <1>0, <3>1, <3>3 DEF Solo
    <3> QED BY <3>2, <3>3
  <2> QED BY <1>1, <2>1, <1>u, ExclusiveAcquire, ExclusiveRelease DEF AttemptMoves
<1>2. ASSUME NEW r \in Runs, FollowUpMoves(r) PROVE Exclusive'
  <2>1. ASSUME followUp[r].phase = "locking", NEW x \in lock PROVE x[1] # r
    <3>1. CASE x[2] # 0
      BY <1>0, <2>1, <3>1 DEF Solo
    <3>2. CASE x[2] = 0
      BY <1>0, <2>1, <3>2
    <3> QED BY <3>1, <3>2
  <2>2. CASE UNCHANGED guard
    BY <2>2, <1>u
  <2>3. CASE /\ followUp[r].phase = "locking" /\ Free(r)
             /\ lock' = lock \cup {<<r, 0>>} /\ locks' = locks \cup {r}
    <3> DEFINE x == <<r, 0>>
    <3>1. x[1] = r
      OBVIOUS
    <3> HIDE DEF x
    <3>2. lock' = lock \cup {x} /\ locks' = locks \cup {x[1]} /\ Free(x[1])
          /\ \A y \in lock : y[1] # x[1]
      BY <2>1, <2>3, <3>1 DEF x
    <3> QED BY <3>2, ExclusiveAcquire
  <2> QED BY <1>2, <2>2, <2>3 DEF FollowUpMoves
<1>3. ASSUME NEW r \in Runs, FollowUpEnds(r) PROVE Exclusive'
  BY <1>3, ExclusiveRelease DEF FollowUpEnds
<1>4. ASSUME NEW s \in StopIds, StopCancels(s) PROVE Exclusive'
  BY <1>4, <1>u DEF StopCancels
<1>5. CASE RestStep
  BY <1>5, <1>u, RestEffect DEF Rests
<1> QED BY <1>1, <1>2, <1>3, <1>4, <1>5, <1>u, StepKinds DEF Spawns, Replaces, Attaches, Unwinds

-----------------------------------------------------------------------------
LEMMA OrderlyInvariant ==
  ASSUME CallersWait
  PROVE  Spec => []Orderly
<1> DEFINE Rules == Solo /\ Counted /\ Exclusive
<1>1. Init => Rules
  <2> SUFFICES ASSUME Init PROVE Rules
    OBVIOUS
  <2>1. \A a \in Attempts : phase[a] = "none"
    BY DEF Init
  <2>2. Solo
    BY <2>1 DEF Init, Solo, Live, NoFollowUp
  <2>3. Counted
    <3>1. "none" \notin Executing
      BY DEF Executing
    <3>2. Slots(launching, active, followUps) = 0
      <4>1. launching = {} /\ followUps = {} /\ {r \in Runs : active[r] # 0} = {}
        BY DEF Init
      <4> QED BY <4>1, FS_EmptySet DEF Slots
    <3>3. Capacity \in Nat
      BY FleetAssumption DEF Capacity
    <3> QED BY <2>1, <3>1, <3>2, <3>3 DEF Counted
  <2>4. Exclusive
    BY DEF Init, Exclusive, WriteExclusion
  <2> QED BY <2>2, <2>3, <2>4
<1>2. Kept /\ Rules /\ [Next]_vars => Rules'
  <2>1. ASSUME Kept, Rules, Next PROVE Rules'
    BY <2>1, SoloStep, CountedStep, ExclusiveStep DEF Kept
  <2>2. ASSUME Kept, Rules, UNCHANGED vars PROVE Rules'
    <3>1. UNCHANGED <<phase, launching, active, followUps, completedHosts, followUp, lock, locks>>
      BY <2>2 DEF vars, attempts, admission, guard
    <3> QED BY <2>2, <3>1 DEF Solo, Live, Counted, Exclusive, WriteExclusion
  <2> QED BY <2>1, <2>2
<1> HIDE DEF Rules
<1>3. Kept /\ Rules => Orderly
  BY DEF Rules, Orderly
<1> QED BY <1>1, <1>2, <1>3, KeptInvariant, PTL DEF Spec

(* When callers retry a run or send to it only when nothing of it goes on:  *)
(* attempts that execute and follow-ups never exceed maxSessions - 1, for   *)
(* any number of runs and any order of spawns, drains, ends and stops.      *)
(* Counting by run id then counts everything once.                          *)
THEOREM CapacityIsRespected ==
  ASSUME CallersWait
  PROVE  Spec => []CapacityRespected
<1>1. ASSUME Orderly PROVE CapacityRespected
  <2> DEFINE E == {a \in Attempts : phase[a] \in Executing}
             A == {r \in Runs : active[r] # 0}
             S == launching \cup A
             f == [a \in E |-> a[1]]
  <2>t. Shape /\ Solo /\ Counted
    BY <1>1 DEF Orderly, Kept
  <2>1. /\ IsFiniteSet(launching) /\ IsFiniteSet(A) /\ Cardinality(launching) \in Nat
        /\ Cardinality(A) \in Nat /\ Cardinality(followUps) \in Nat /\ Capacity \in Nat
    BY <2>t, KeptTypes, SlotsFacts
  <2>2. f \in Injection(E, S)
    <3>1. \A a \in E : a[1] \in S
      BY <2>t, AttemptFacts DEF Counted
    <3>2. \A a, b \in E : a[1] = b[1] => a = b
      BY <2>t DEF Solo, Live, Executing
    <3>3. f \in [E -> S] /\ \A a \in E : f[a] = a[1]
      BY <3>1
    <3> HIDE DEF E, S, f
    <3> QED BY <3>2, <3>3 DEF Injection, IsInjective
  <2> HIDE DEF f, E
  <2>3. IsFiniteSet(S) /\ Cardinality(S) <= Cardinality(launching) + Cardinality(A)
        /\ Cardinality(S) \in Nat
    <3>1. IsFiniteSet(S) /\ IsFiniteSet(launching \cap A)
          /\ Cardinality(S) = Cardinality(launching) + Cardinality(A) - Cardinality(launching \cap A)
      BY <2>1, FS_Union, FS_Intersection
    <3>2. Cardinality(launching \cap A) \in Nat /\ Cardinality(S) \in Nat
      BY <3>1, FS_CardinalityType
    <3> QED BY <3>1, <3>2, <2>1
  <2>4. IsFiniteSet(E) /\ Cardinality(E) <= Cardinality(S) /\ Cardinality(E) \in Nat
    BY <2>2, <2>3, FS_Injection, FS_CardinalityType
  <2>5. Cardinality(launching) + Cardinality(A) + Cardinality(followUps) <= Capacity
    BY <2>t DEF Counted, Slots
  <2> HIDE DEF A, S
  <2>6. Cardinality(E) + Cardinality(followUps) <= Capacity
    BY <2>1, <2>3, <2>4, <2>5
  <2> QED BY <2>6 DEF CapacityRespected, E
<1> QED BY <1>1, OrderlyInvariant, PTL

(* When callers retry a run or send to it only when nothing of it goes on:  *)
(* two actors that hold a write lock are of different runs with scopes that *)
(* do not overlap, whatever is stopped, cancelled, queued or followed up.   *)
(* For callers that overlap two attempts of one run nothing is shown: the   *)
(* code keeps and releases locks by run id, and such attempts share one.    *)
THEOREM WritersExclude ==
  ASSUME CallersWait
  PROVE  Spec => []WriteExclusion
<1>1. Orderly => WriteExclusion
  BY DEF Orderly, Exclusive
<1> QED BY <1>1, OrderlyInvariant, PTL

-----------------------------------------------------------------------------
(* Writers at work hold their lock                                          *)

Equipped ==
  \A a \in Attempts :
    /\ Isolation[a[1]] = "shared"
    /\ phase[a] \in {"announcing", "opening", "linking", "working", "reporting"}
    => a \in lock

(* Only execute() takes a writer to its announcement, after acquire(), and  *)
(* only its own end, or that of a follow-up, gives a lock back.             *)
LEMMA EquippedStep ==
  ASSUME Shape, AdmissionOK, Equipped, Next
  PROVE  Equipped'
<1> DEFINE Armed == {"announcing", "opening", "linking", "working", "reporting"}
<1>t. phase \in [Attempts -> Phases]
  BY KeptTypes
<1>k. ASSUME lock \subseteq lock', \A a \in Attempts : phase'[a] \in Armed => phase[a] \in Armed
      PROVE  Equipped'
  BY <1>k DEF Equipped
<1>l. ASSUME NEW l, NEW ph \in [Attempts -> Phases], Launches(l, ph), NEW a \in Attempts,
             phase'[a] \in Armed
      PROVE  ph[a] = phase'[a]
  BY <1>l DEF Launches
<1>1. ASSUME NEW a \in Attempts, AttemptStep(a), AttemptMoves(a) PROVE Equipped'
  <2>1. phase'[a] # "revoking" => lock \subseteq lock'
    BY <1>1 DEF AttemptMoves, guard
  <2>2. \A b \in Attempts : b # a => phase'[b] = phase[b] /\ (b \in lock => b \in lock')
    BY <1>1, <1>t DEF AttemptMoves, Release, guard
  <2>3. ASSUME Isolation[a[1]] = "shared", phase'[a] \in Armed PROVE a \in lock'
    <3>1. CASE phase[a] \in Armed
      BY <2>1, <2>3, <3>1 DEF Equipped
    <3>2. CASE phase[a] \notin Armed
      <4>1. phase[a] \in {"starting", "isolating"} /\ phase'[a] = "announcing"
        BY <1>1, <2>3, <3>2 DEF AttemptMoves, Moves
      <4>2. Started(a) \/ Isolated(a) \/ IsolationFails(a)
        BY <1>1, <4>1 DEF AttemptStep, CatalogReady, Created, Attach, Announced, Opened,
                          OpenFails, Linked, WorkDone, WorkFails, Reported, Unwound
      <4>3. ~Started(a)
        BY <1>t, <2>3, <4>1 DEF Started, Fail, MoveTo
      <4>4. ~IsolationFails(a)
        BY <1>t, <4>1 DEF IsolationFails, Fail, MoveTo
      <4> QED BY <2>3, <4>2, <4>3, <4>4 DEF Isolated
    <3> QED BY <3>1, <3>2
  <2> QED BY <2>2, <2>3 DEF Equipped
<1>2. ASSUME NEW a \in Attempts, Attaches(a) PROVE Equipped'
  <2> DEFINE ph == [phase EXCEPT ![a] = "queued"]
  <2>1. Launches(launching, ph) /\ lock' = lock
    BY <1>2, AttachLaunch DEF Attaches, guard
  <2>2. ph \in [Attempts -> Phases] /\ \A b \in Attempts : ph[b] \in Armed => phase[b] \in Armed
    BY <1>t DEF Phases
  <2> HIDE DEF ph
  <2> QED BY <1>k, <1>l, <2>1, <2>2
<1>3. ASSUME NEW a \in Attempts, Unwinds(a) PROVE Equipped'
  <2> DEFINE ph == [phase EXCEPT ![a] = "done"]
  <2>1. Launches(launching \ {a[1]}, ph) /\ lock' = lock
    BY <1>3, UnwindLaunch DEF Unwinds, guard
  <2>2. ph \in [Attempts -> Phases] /\ \A b \in Attempts : ph[b] \in Armed => phase[b] \in Armed
    BY <1>t DEF Phases
  <2> HIDE DEF ph
  <2> QED BY <1>k, <1>l, <2>1, <2>2
<1>4. ASSUME NEW r \in Runs, FollowUpEnds(r) PROVE Equipped'
  <2>1. Launches(launching, phase) /\ lock' = lock \ {<<r, 0>>}
    BY <1>4, FollowUpLaunch DEF FollowUpEnds, Release
  <2>2. \A a \in Attempts : a # <<r, 0>>
    BY AttemptFacts, FleetAssumption
  <2>3. \A a \in Attempts : phase'[a] \in Armed => phase[a] \in Armed
    BY <1>t, <1>l, <2>1
  <2> QED BY <2>1, <2>2, <2>3 DEF Equipped
<1>5. ASSUME NEW r \in Runs, FollowUpMoves(r) PROVE Equipped'
  <2>1. lock \subseteq lock' /\ phase' = phase
    BY <1>5 DEF FollowUpMoves, guard
  <2> QED BY <1>k, <2>1
<1>6. ASSUME NEW s \in StopIds, StopCancels(s) PROVE Equipped'
  <2>1. lock' = lock
    BY <1>6 DEF StopCancels, guard
  <2>2. \A a \in Attempts : phase'[a] \in {phase[a], "done"}
    BY <1>6, <1>t, StopCancelsEffect, KeptTypes
  <2> QED BY <1>k, <2>1, <2>2
<1>7. ASSUME NEW r \in Runs, NEW k \in 1..MaxAttempts, Spawns(r, k) PROVE Equipped'
  <2>1. lock' = lock /\ phase' = [phase EXCEPT ![<<r, k>>] = "catalog"]
    BY <1>7 DEF Spawns, guard
  <2> QED BY <1>t, <1>k, <2>1
<1>8. ASSUME NEW a \in Attempts, Replaces(a) PROVE Equipped'
  <2>1. lock' = lock /\ phase' = [phase EXCEPT ![a] = "replacing"]
    BY <1>8 DEF Replaces, guard
  <2> QED BY <1>t, <1>k, <2>1
<1>9. CASE RestStep
  <2>1. lock' = lock /\ phase' = phase
    BY <1>9, RestEffect DEF Rests, guard
  <2> QED BY <1>k, <2>1
<1>10. ASSUME NEW a \in Attempts, AttemptStep(a) PROVE Equipped'
  BY <1>1, <1>2, <1>3, <1>8, <1>10, AttemptEffect, BoundaryEffect DEF AttemptStep
<1> HIDE DEF Armed
<1>11. ASSUME NEW r \in Runs, FollowUpStep(r) \/ Send(r) PROVE Equipped'
  BY <1>4, <1>5, <1>11, FollowUpEffect
<1>12. ASSUME NEW r \in Runs, Spawn(r) \/ Retry(r) PROVE Equipped'
  BY <1>7, <1>12, SpawnEffect
<1> QED BY <1>6, <1>9, <1>10, <1>11, <1>12 DEF Next, Progress, StopStep, RestStep

(* When callers retry a run or send to it only when nothing of it goes on:  *)
(* two writers with overlapping scopes are never at work together, whatever *)
(* is stopped, cancelled or queued.  Without that discipline they can be: a *)
(* run that unwinds releases the lock of its successor.                     *)
THEOREM WritesAreSerialized ==
  ASSUME CallersWait
  PROVE  Spec => []SharedWritesSerialized
<1>1. Init => Equipped
  BY DEF Init, Equipped
<1>2. Kept /\ Equipped /\ [Next]_vars => Equipped'
  <2>1. ASSUME Kept, Equipped, Next PROVE Equipped'
    BY <2>1, EquippedStep DEF Kept
  <2>2. ASSUME Equipped, UNCHANGED vars PROVE Equipped'
    BY <2>2 DEF vars, attempts, guard, Equipped
  <2> QED BY <2>1, <2>2
<1>3. Equipped /\ WriteExclusion => SharedWritesSerialized
  BY DEF Equipped, WriteExclusion, SharedWritesSerialized
<1> QED BY <1>1, <1>2, <1>3, KeptInvariant, WritersExclude, PTL DEF Spec
=============================================================================
