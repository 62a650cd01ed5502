---------------------- MODULE WorkflowScheduler_proofs ----------------------
(***************************************************************************)
(* Proofs about WorkflowScheduler for every script, fingerprint, budget    *)
(* and number of executions.                                               *)
(*                                                                         *)
(* The gate is an argument by counting.  Holders, woken calls and calls on *)
(* their way to be counted are numbers that one move of one call changes   *)
(* by one (CountMove): slots in use are the holders, a release that frees  *)
(* a slot wakes a call, and the calls admitted but not counted yet are no  *)
(* more than the slots.  The children need to know which stages have one   *)
(* and that stop() waits for each it saw; the cache that no call past its  *)
(* lookup has a key that was kept.                                         *)
(***************************************************************************)
EXTENDS WorkflowScheduler, FiniteSetTheorems, TLAPS

USE WorkflowAssumption DEF WorkflowAssumption

Holds == Stages \ {"none", "done", "waiting", "woken"}

In(f, S)  == {c \in Calls : f[c] \in S}
Num(f, S) == Cardinality(In(f, S))

Gate ==
  /\ runningCalls = Num(call, Holds) /\ runningCalls <= MaxConcurrency
  /\ Waiting # {} /\ ~stopped => Num(call, {"woken"}) >= MaxConcurrency - runningCalls
  /\ callCount + Num(call, {"looking"}) < MaxCalls + MaxConcurrency
  /\ requestCount <= MaxRequests

\* What a call has in each stage.
Scheduled ==
  /\ \A c \in Calls : call[c] \notin Attempts \cup {"storing", "reporting", "failing"} => attempt[c] = 0
  /\ \A c \in Calls : call[c] \notin Attempts => child[c] = "none"
  /\ \A c \in Calls : call[c] \in Attempts => attempt[c] > 0

\* Every child that stop() saw is waited for.
Stopping ==
  /\ stopReturned => stopped /\ stopping = {}
  /\ stopped => \A c \in Calls :
       call[c] = "watching" /\ child[c] = "working" => <<c, attempt[c]>> \in stopping

Cached ==
  /\ answered \subseteq cache /\ kept \subseteq cache
  /\ \A c \in Calls : call[c] = "reporting" => Key[c] \in cache
  /\ \A c \in Calls : call[c] \in Attempts \cup {"announcing", "storing"} => Key[c] \notin kept

IInv == TypeOK /\ Gate /\ Scheduled /\ Stopping /\ Cached

-----------------------------------------------------------------------------
(* Counting.                                                               *)

\* One move of one call changes the number of calls in S by at most one.
LEMMA CountMove ==
  ASSUME NEW f \in [Calls -> Stages], NEW c \in Calls, NEW S,
         NEW g \in [Calls -> Stages], \A d \in Calls \ {c} : g[d] = f[d]
  PROVE  /\ Num(f, S) \in Nat /\ Num(g, S) \in Nat
         /\ Num(g, S) = Num(f, S) + (IF g[c] \in S THEN 1 ELSE 0) - (IF f[c] \in S THEN 1 ELSE 0)
<1> DEFINE A == In(f, S) \ {c}
<1>1. IsFiniteSet(In(f, S)) /\ Num(f, S) \in Nat
  <2>1. In(f, S) \in SUBSET Calls
    BY DEF In
  <2> QED BY <2>1, FS_Subset, FS_CardinalityType DEF Num
<1>2. IsFiniteSet(A) /\ Cardinality(A) \in Nat
      /\ Cardinality(A) = IF c \in In(f, S) THEN Num(f, S) - 1 ELSE Num(f, S)
  BY <1>1, FS_RemoveElement, FS_CardinalityType DEF Num
<1>3. In(g, S) = IF g[c] \in S THEN A \cup {c} ELSE A
  BY DEF In
<1>4. Cardinality(A \cup {c}) = Cardinality(A) + 1
  BY <1>2, FS_AddElement
<1>5. c \in In(f, S) <=> f[c] \in S
  BY DEF In
<1> QED BY <1>1, <1>2, <1>3, <1>4, <1>5 DEF Num

\* A set of stages that some call is in counts at least one, and never more
\* than a set that includes it.
LEMMA CountBounds ==
  ASSUME NEW f \in [Calls -> Stages], NEW S, NEW T, S \subseteq T
  PROVE  /\ Num(f, S) \in Nat /\ Num(f, T) \in Nat /\ Num(f, S) <= Num(f, T)
         /\ \A c \in Calls : f[c] \in S => Num(f, S) > 0
<1>1. In(f, T) \in SUBSET Calls /\ In(f, S) \in SUBSET In(f, T)
  BY DEF In
<1>2. IsFiniteSet(In(f, T)) /\ IsFiniteSet(In(f, S))
  BY <1>1, FS_Subset
<1>3. Num(f, S) \in Nat /\ Num(f, T) \in Nat /\ Num(f, S) <= Num(f, T)
  BY <1>1, <1>2, FS_Subset, FS_CardinalityType DEF Num
<1>4. ASSUME NEW c \in Calls, f[c] \in S PROVE Num(f, S) > 0
  <2>1. In(f, S) # {}
    BY <1>4 DEF In
  <2> QED BY <1>2, <1>3, <2>1, FS_EmptySet DEF Num
<1> QED BY <1>3, <1>4

-----------------------------------------------------------------------------
(* The gate, move by move.                                                 *)

\* A call that goes to t, with the three numbers that count it.
LEMMA GoesCounts ==
  ASSUME TypeOK, NEW c \in Calls, NEW t \in Stages, Goes(c, t)
  PROVE  /\ call' \in [Calls -> Stages]
         /\ \A S : Num(call, S) \in Nat /\ Num(call', S) \in Nat
         /\ Num(call', Holds) = Num(call, Holds)
              + (IF t \in Holds THEN 1 ELSE 0) - (IF call[c] \in Holds THEN 1 ELSE 0)
         /\ Num(call', {"woken"}) = Num(call, {"woken"})
              + (IF t = "woken" THEN 1 ELSE 0) - (IF call[c] = "woken" THEN 1 ELSE 0)
         /\ Num(call', {"looking"}) = Num(call, {"looking"})
              + (IF t = "looking" THEN 1 ELSE 0) - (IF call[c] = "looking" THEN 1 ELSE 0)
         /\ c \notin Waiting /\ t # "waiting" => Waiting' = Waiting
         /\ Waiting = {} /\ t # "waiting" => Waiting' = {}
<1>1. call \in [Calls -> Stages] /\ call' \in [Calls -> Stages]
  BY DEF TypeOK, Goes
<1>2. call'[c] = t /\ \A d \in Calls \ {c} : call'[d] = call[d]
  BY <1>1 DEF Goes
<1>3. (c \notin Waiting \/ Waiting = {}) /\ t # "waiting" => Waiting' = Waiting
  BY <1>1 DEF Waiting, Goes
<1>4. ASSUME NEW S
      PROVE  /\ Num(call, S) \in Nat /\ Num(call', S) \in Nat
             /\ Num(call', S) =
                  Num(call, S) + (IF t \in S THEN 1 ELSE 0) - (IF call[c] \in S THEN 1 ELSE 0)
  BY <1>1, <1>2, CountMove
<1>5. /\ Num(call', {"woken"}) = Num(call, {"woken"})
           + (IF t \in {"woken"} THEN 1 ELSE 0) - (IF call[c] \in {"woken"} THEN 1 ELSE 0)
      /\ Num(call', {"looking"}) = Num(call, {"looking"})
           + (IF t \in {"looking"} THEN 1 ELSE 0) - (IF call[c] \in {"looking"} THEN 1 ELSE 0)
  BY <1>4
<1> QED BY <1>1, <1>3, <1>4, <1>5

\* A call that leaves with a slot it held, or holds since this step (more = 1).
LEMMA LeavesCounts ==
  ASSUME TypeOK, NEW c \in Calls, call[c] # "waiting",
         NEW running \in Int, Leaves(c, running)
  PROVE  /\ call' \in [Calls -> Stages] /\ runningCalls' = running - 1
         /\ \A S : Num(call, S) \in Nat /\ Num(call', S) \in Nat
         /\ Num(call', Holds) = Num(call, Holds) - (IF call[c] \in Holds THEN 1 ELSE 0)
         /\ Num(call', {"looking"}) = Num(call, {"looking"}) - (IF call[c] = "looking" THEN 1 ELSE 0)
         /\ \/ Waiting' = {}
            \/ Num(call', {"woken"}) = Num(call, {"woken"}) + 1 - (IF call[c] = "woken" THEN 1 ELSE 0)
         /\ Waiting' \subseteq Waiting
         /\ call'[c] = "done"
         /\ \A d \in Calls \ {c} : call'[d] = call[d] \/ (call[d] = "waiting" /\ call'[d] = "woken")
<1>1. CASE Waiting = {} /\ Goes(c, "done")
  <2>1. "done" \in Stages /\ "done" \notin Holds
    BY DEF Stages, Holds
  <2>2. Waiting' = {}
    BY <1>1, <2>1, GoesCounts
  <2>3. call'[c] = "done" /\ \A d \in Calls \ {c} : call'[d] = call[d]
    BY <1>1 DEF TypeOK, Goes
  <2> QED BY <1>1, <2>1, <2>2, <2>3, GoesCounts DEF Leaves
<1>2. CASE \E w \in Waiting : call' = [call EXCEPT ![c] = "done", ![w] = "woken"]
  <2>1. PICK w \in Waiting : call' = [call EXCEPT ![c] = "done", ![w] = "woken"]
    BY <1>2
  <2> DEFINE f == [call EXCEPT ![c] = "done"]
  <2>2. /\ w \in Calls /\ w # c /\ call[w] = "waiting"
        /\ call \in [Calls -> Stages] /\ f \in [Calls -> Stages] /\ f[w] = "waiting"
        /\ call' = [f EXCEPT ![w] = "woken"] /\ call' \in [Calls -> Stages]
    BY <2>1 DEF Waiting, TypeOK, Stages, Queued
  <2>3. ASSUME NEW S
        PROVE  /\ Num(call, S) \in Nat /\ Num(call', S) \in Nat
               /\ Num(call', S) = Num(call, S)
                    + (IF "done" \in S THEN 1 ELSE 0) - (IF call[c] \in S THEN 1 ELSE 0)
                    + (IF "woken" \in S THEN 1 ELSE 0) - (IF "waiting" \in S THEN 1 ELSE 0)
    <3> HIDE DEF f
    <3>1. Num(call, S) \in Nat /\ Num(f, S) = Num(call, S)
            + (IF "done" \in S THEN 1 ELSE 0) - (IF call[c] \in S THEN 1 ELSE 0)
      <4>1. f[c] = "done" /\ \A d \in Calls \ {c} : f[d] = call[d]
        BY <2>2 DEF f
      <4> QED BY <2>2, <4>1, CountMove
    <3>2. Num(f, S) \in Nat /\ Num(call', S) = Num(f, S)
            + (IF "woken" \in S THEN 1 ELSE 0) - (IF "waiting" \in S THEN 1 ELSE 0)
      <4>1. /\ w \in Calls /\ f \in [Calls -> Stages] /\ call' \in [Calls -> Stages]
            /\ call'[w] = "woken" /\ f[w] = "waiting" /\ \A d \in Calls \ {w} : call'[d] = f[d]
        BY <2>2
      <4>2. /\ Num(f, S) \in Nat
            /\ Num(call', S) = Num(f, S) + (IF call'[w] \in S THEN 1 ELSE 0) - (IF f[w] \in S THEN 1 ELSE 0)
        BY <4>1, CountMove
      <4> QED BY <4>1, <4>2
    <3>3. Num(call', S) \in Nat
      <4>1. S \subseteq S
        OBVIOUS
      <4> QED BY <2>2, <4>1, CountBounds
    <3> QED BY <3>1, <3>2, <3>3
  <2>4. "done" \notin Holds /\ "woken" \notin Holds /\ "waiting" \notin Holds
    BY DEF Holds
  <2>5. Num(call', Holds) = Num(call, Holds) - (IF call[c] \in Holds THEN 1 ELSE 0)
    BY <2>3, <2>4
  <2>6. Num(call', {"looking"}) = Num(call, {"looking"}) - (IF call[c] \in {"looking"} THEN 1 ELSE 0)
    <3> DEFINE S == {"looking"}
    <3>1. "done" \notin S /\ "woken" \notin S /\ "waiting" \notin S
      OBVIOUS
    <3> QED BY <2>3, <3>1
  <2>7. Num(call', {"woken"}) = Num(call, {"woken"}) + 1 - (IF call[c] \in {"woken"} THEN 1 ELSE 0)
    <3> DEFINE S == {"woken"}
    <3>1. "done" \notin S /\ "woken" \in S /\ "waiting" \notin S
      OBVIOUS
    <3> QED BY <2>3, <3>1
  <2>8. Waiting' \subseteq Waiting /\ call'[c] = "done"
        /\ \A d \in Calls \ {c} : call'[d] = call[d] \/ (call[d] = "waiting" /\ call'[d] = "woken")
    BY <2>2 DEF Waiting
  <2> QED BY <2>2, <2>3, <2>5, <2>6, <2>7, <2>8 DEF Leaves
<1> QED BY <1>1, <1>2 DEF Leaves

\* A call with a slot that is not on its way to be counted moves on with it.
LEMMA GoesGate ==
  ASSUME TypeOK, Gate, NEW c \in Calls, NEW t \in Holds \ {"looking"}, Goes(c, t),
         call[c] \in Holds \ {"looking"},
         UNCHANGED <<runningCalls, callCount, stopped>>, requestCount' <= MaxRequests
  PROVE  Gate'
<1>1. t \in Stages /\ t \notin {"waiting", "woken", "looking"}
      /\ call[c] \notin {"waiting", "woken", "looking"}
  BY DEF Holds
<1>2. /\ Num(call', Holds) = Num(call, Holds)
      /\ Num(call', {"woken"}) = Num(call, {"woken"})
      /\ Num(call', {"looking"}) = Num(call, {"looking"})
      /\ Waiting' = Waiting
  <2>1. c \notin Waiting
    BY <1>1 DEF Waiting
  <2> QED BY <1>1, <2>1, GoesCounts
<1> QED BY <1>2 DEF Gate

\* A call with a slot gives it back.
LEMMA LeavesGate ==
  ASSUME TypeOK, Gate, NEW c \in Calls, Leaves(c, runningCalls),
         call[c] \in Holds, UNCHANGED <<callCount, requestCount, stopped>>
  PROVE  Gate' /\ runningCalls' \in 0..MaxConcurrency
<1>1. call[c] \in Holds /\ call[c] \notin {"waiting", "woken"}
      /\ runningCalls \in Int /\ runningCalls <= MaxConcurrency
  BY DEF Holds, TypeOK
<1>2. Num(call, Holds) > 0
  <2>1. Holds \subseteq Holds /\ call \in [Calls -> Stages]
    BY DEF TypeOK
  <2> QED BY <1>1, <2>1, CountBounds
<1>3. /\ runningCalls' = runningCalls - 1
      /\ \A S : Num(call, S) \in Nat /\ Num(call', S) \in Nat
      /\ Num(call', Holds) = Num(call, Holds) - 1
      /\ Num(call', {"looking"}) <= Num(call, {"looking"})
      /\ \/ Waiting' = {}
         \/ Num(call', {"woken"}) = Num(call, {"woken"}) + 1
      /\ Waiting' \subseteq Waiting
  <2>1. /\ runningCalls' = runningCalls - 1
        /\ \A S : Num(call, S) \in Nat /\ Num(call', S) \in Nat
        /\ Num(call', Holds) = Num(call, Holds) - 1
        /\ Num(call', {"looking"}) = Num(call, {"looking"}) - (IF call[c] = "looking" THEN 1 ELSE 0)
        /\ \/ Waiting' = {}
           \/ Num(call', {"woken"}) = Num(call, {"woken"}) + 1
        /\ Waiting' \subseteq Waiting
    BY <1>1, LeavesCounts
  <2>2. Num(call, {"looking"}) \in Nat
    BY <2>1
  <2> QED BY <2>1, <2>2
<1>4. callCount' + Num(call', {"looking"}) < MaxCalls + MaxConcurrency
  <2>1. /\ Num(call', {"looking"}) \in Nat /\ Num(call, {"looking"}) \in Nat /\ callCount \in Nat
        /\ Num(call', {"looking"}) <= Num(call, {"looking"}) /\ callCount' = callCount
    BY <1>3 DEF TypeOK
  <2> QED BY <2>1 DEF Gate
<1> QED BY <1>1, <1>2, <1>3, <1>4 DEF Gate

\* A call takes a free slot: no call waits then but those that were woken for
\* the others, and it passes the gate, waits for the end of a pause, or leaves.
LEMMA EntersGate ==
  ASSUME TypeOK, Gate, NEW c \in Calls, call[c] \in {"none", "woken"},
         HasSlot, Enters(c), call[c] = "none" => Quiet,
         UNCHANGED <<callCount, requestCount, stopped>>
  PROVE  Gate' /\ runningCalls' \in 0..MaxConcurrency
<1>1. /\ call[c] \notin Holds /\ call[c] # "waiting" /\ call[c] # "looking"
      /\ runningCalls \in Nat /\ runningCalls + 1 \in Int /\ runningCalls < MaxConcurrency
      /\ callCount \in Nat
  BY DEF Holds, TypeOK, HasSlot
<1>2. call[c] = "none" => Num(call, {"woken"}) = 0
  <2> SUFFICES ASSUME call[c] = "none" PROVE Num(call, {"woken"}) = 0
    OBVIOUS
  <2>1. In(call, {"woken"}) = {}
    BY DEF In, Quiet
  <2> QED BY <2>1, FS_EmptySet DEF Num
<1>3. \A S : Num(call, S) \in Nat
  <2> SUFFICES ASSUME NEW S PROVE Num(call, S) \in Nat
    OBVIOUS
  <2>1. S \subseteq S /\ call \in [Calls -> Stages]
    BY DEF TypeOK
  <2> QED BY <2>1, CountBounds
<1>4. CASE Leaves(c, runningCalls + 1)
  <2>1. /\ runningCalls' = runningCalls
        /\ Num(call', Holds) = Num(call, Holds)
        /\ Num(call', {"looking"}) = Num(call, {"looking"})
        /\ \/ Waiting' = {}
           \/ Num(call', {"woken"}) = Num(call, {"woken"}) + 1 - (IF call[c] = "woken" THEN 1 ELSE 0)
        /\ Waiting' \subseteq Waiting
    BY <1>1, <1>4, LeavesCounts
  <2> QED BY <1>1, <1>2, <1>3, <2>1 DEF Gate
<1>5. CASE Goes(c, "looking") /\ CanSchedule /\ runningCalls' = runningCalls + 1
  <2>1. /\ Num(call', Holds) = Num(call, Holds) + 1
        /\ Num(call', {"looking"}) = Num(call, {"looking"}) + 1
        /\ Num(call', {"woken"}) = Num(call, {"woken"}) - (IF call[c] = "woken" THEN 1 ELSE 0)
        /\ Waiting' = Waiting
        /\ call' \in [Calls -> Stages]
    <3>1. "looking" \in Stages /\ "looking" \in Holds /\ c \notin Waiting
      BY <1>1 DEF Stages, Holds, Waiting
    <3> QED BY <1>1, <1>5, <3>1, GoesCounts
  <2>2. Num(call', {"looking"}) <= Num(call', Holds) /\ Num(call', {"looking"}) \in Nat
    <3>1. {"looking"} \subseteq Holds
      BY DEF Holds, Stages
    <3> QED BY <2>1, <3>1, CountBounds
  <2>3. callCount + Num(call', {"looking"}) < MaxCalls + MaxConcurrency
    <3>1. callCount < MaxCalls
      BY <1>5 DEF CanSchedule
    <3> QED BY <1>1, <1>3, <2>1, <2>2, <3>1 DEF Gate
  <2>4. Waiting' # {} /\ ~stopped' => Num(call', {"woken"}) >= MaxConcurrency - runningCalls'
    BY <1>1, <1>2, <1>3, <1>5, <2>1 DEF Gate
  <2> QED BY <1>1, <1>3, <1>5, <2>1, <2>3, <2>4 DEF Gate
<1>6. CASE Goes(c, "paused") /\ runningCalls' = runningCalls + 1
  <2>1. /\ Num(call', Holds) = Num(call, Holds) + 1
        /\ Num(call', {"looking"}) = Num(call, {"looking"})
        /\ Num(call', {"woken"}) = Num(call, {"woken"}) - (IF call[c] = "woken" THEN 1 ELSE 0)
        /\ Waiting' = Waiting
    <3>1. "paused" \in Stages /\ "paused" \in Holds /\ c \notin Waiting
      BY <1>1 DEF Stages, Holds, Waiting
    <3> QED BY <1>1, <1>6, <3>1, GoesCounts
  <2>2. Waiting' # {} /\ ~stopped' => Num(call', {"woken"}) >= MaxConcurrency - runningCalls'
    BY <1>1, <1>2, <1>3, <1>6, <2>1 DEF Gate
  <2> QED BY <1>1, <1>3, <1>6, <2>1, <2>2 DEF Gate
<1> QED BY <1>4, <1>5, <1>6 DEF Enters, PassesOrLeaves

-----------------------------------------------------------------------------
(* The invariant, action by action.                                        *)

LEMMA InitInv == Init => IInv
<1> SUFFICES ASSUME Init PROVE IInv
  OBVIOUS
<1>1. TypeOK
  <2>1. call \in [Calls -> Stages]
    BY DEF Init, Stages
  <2>2. runningCalls \in 0..MaxConcurrency /\ executions \in 1..MaxExecutions
    BY DEF Init
  <2>3. attempt \in [Calls -> 0..3] /\ stopping \subseteq Calls \X (1..3)
    BY DEF Init
  <2> QED BY <2>1, <2>2, <2>3 DEF Init, TypeOK
<1>2. ASSUME NEW S, "none" \notin S PROVE Num(call, S) = 0
  <2>1. In(call, S) = {}
    BY <1>2 DEF In, Init
  <2> QED BY <2>1, FS_EmptySet DEF Num
<1>3. Num(call, Holds) = 0 /\ Num(call, {"looking"}) = 0
  <2>1. "none" \notin Holds /\ "none" \notin {"looking"}
    BY DEF Holds
  <2> QED BY <1>2, <2>1
<1>4. Waiting = {}
  BY DEF Init, Waiting
<1>5. Gate
  BY <1>3, <1>4 DEF Init, Gate
<1>6. Scheduled /\ Stopping /\ Cached
  BY DEF Init, Scheduled, Stopping, Cached, Attempts
<1> QED BY <1>1, <1>5, <1>6 DEF IInv

\* A call outside the attempts moves to another stage there; waiters may wake.
LEMMA OutsideRest ==
  ASSUME TypeOK, Scheduled, Stopping, Cached, NEW c \in Calls,
         call' \in [Calls -> Stages],
         \A d \in Calls \ {c} : call'[d] = call[d] \/ (call[d] = "waiting" /\ call'[d] = "woken"),
         call[c] \notin Attempts,
         call'[c] \notin Attempts \cup {"announcing", "storing", "reporting", "failing"},
         attempt' = [attempt EXCEPT ![c] = 0],
         answered' \subseteq cache,
         UNCHANGED <<child, control, cache, kept>>
  PROVE  Scheduled' /\ Stopping' /\ Cached'
<1>1. Scheduled'
  BY DEF TypeOK, Scheduled, Attempts
<1>2. Stopping'
  <2>1. \A d \in Calls : call'[d] = "watching" => call[d] = "watching" /\ d # c
    BY DEF Attempts
  <2> QED BY <2>1 DEF TypeOK, Stopping, control
<1>3. Cached'
  BY DEF Cached, Attempts
<1> QED BY <1>1, <1>2, <1>3

\* Where the call of an action that uses the gate has gone.
LEMMA EntersMoves ==
  ASSUME TypeOK, NEW c \in Calls, call[c] # "waiting", NEW running \in Int,
         \/ Leaves(c, running)
         \/ \E t \in {"looking", "paused", "waiting", "done"} : Goes(c, t)
  PROVE  /\ call' \in [Calls -> Stages]
         /\ call'[c] \in {"looking", "paused", "waiting", "done"}
         /\ \A d \in Calls \ {c} :
              call'[d] = call[d] \/ (call[d] = "waiting" /\ call'[d] = "woken")
<1>1. CASE Leaves(c, running)
  BY <1>1, LeavesCounts
<1>2. CASE \E t \in {"looking", "paused", "waiting", "done"} : Goes(c, t)
  BY <1>2 DEF TypeOK, Goes, Stages, Queued
<1> QED BY <1>1, <1>2

LEMMA RequestsInv ==
  ASSUME IInv, NEW c \in Calls, Requests(c)
  PROVE  IInv'
<1>1. /\ call[c] = "none" /\ Quiet /\ attempt[c] = 0
      /\ UNCHANGED <<sandbox, attempt, child, callCount, requestCount, spent, control, results>>
      /\ TypeOK /\ Gate /\ Scheduled /\ Stopping /\ Cached
  BY DEF Requests, IInv, Scheduled, Attempts
<1>2. Gate' /\ runningCalls' \in 0..MaxConcurrency
  <2>1. CASE HasSlot /\ Enters(c)
    BY <1>1, <2>1, EntersGate DEF control
  <2>2. CASE ~HasSlot /\ Goes(c, "waiting") /\ UNCHANGED runningCalls
    <3>1. "waiting" \in Stages /\ "waiting" \notin Holds /\ "none" \notin Holds
      BY DEF Stages, Queued, Holds
    <3>2. Num(call', Holds) = Num(call, Holds) /\ Num(call', {"looking"}) = Num(call, {"looking"})
          /\ Num(call', {"woken"}) \in Nat
      BY <1>1, <2>2, <3>1, GoesCounts
    <3> QED BY <1>1, <2>2, <3>2 DEF Gate, HasSlot, TypeOK
  <2> QED BY <2>1, <2>2 DEF Requests
<1>3. /\ call' \in [Calls -> Stages]
      /\ call'[c] \in {"looking", "paused", "waiting", "done"}
      /\ \A d \in Calls \ {c} : call'[d] = call[d] \/ (call[d] = "waiting" /\ call'[d] = "woken")
  <2>1. call[c] # "waiting" /\ runningCalls + 1 \in Int
    BY <1>1 DEF TypeOK
  <2>2. \/ Leaves(c, runningCalls + 1)
        \/ \E t \in {"looking", "paused", "waiting", "done"} : Goes(c, t)
    BY DEF Requests, Enters, PassesOrLeaves
  <2> QED BY <1>1, <2>1, <2>2, EntersMoves
<1>4. Scheduled' /\ Stopping' /\ Cached'
  <2>1. attempt' = [attempt EXCEPT ![c] = 0] /\ answered' \subseteq cache
    BY <1>1 DEF results, TypeOK, Cached
  <2> QED BY <1>1, <1>3, <2>1, OutsideRest DEF results, Attempts
<1>5. TypeOK'
  BY <1>1, <1>2, <1>3 DEF TypeOK, control, results
<1> QED BY <1>2, <1>4, <1>5 DEF IInv

LEMMA WakesInv ==
  ASSUME IInv, NEW c \in Calls, Wakes(c)
  PROVE  IInv'
<1>1. /\ call[c] = "woken" /\ attempt[c] = 0
      /\ UNCHANGED <<sandbox, attempt, child, callCount, requestCount, spent, control, results>>
      /\ TypeOK /\ Gate /\ Scheduled /\ Stopping /\ Cached
  BY DEF Wakes, IInv, Scheduled, Attempts
<1>2. Gate' /\ runningCalls' \in 0..MaxConcurrency
  <2>1. CASE HasSlot /\ Enters(c)
    BY <1>1, <2>1, EntersGate DEF control
  <2>2. ASSUME NEW t \in {"waiting", "done"}, Goes(c, t), UNCHANGED runningCalls, stopped \/ ~HasSlot
        PROVE  Gate' /\ runningCalls' \in 0..MaxConcurrency
    <3>1. t \in Stages /\ t \notin Holds /\ "woken" \notin Holds /\ t # "looking"
      BY DEF Stages, Queued, Holds
    <3>2. Num(call', Holds) = Num(call, Holds) /\ Num(call', {"looking"}) = Num(call, {"looking"})
          /\ Num(call', {"woken"}) \in Nat
      BY <1>1, <2>2, <3>1, GoesCounts
    <3> QED BY <1>1, <2>2, <3>2 DEF Gate, HasSlot, TypeOK, control
  <2> QED BY <2>1, <2>2 DEF Wakes
<1>3. /\ call' \in [Calls -> Stages]
      /\ call'[c] \in {"looking", "paused", "waiting", "done"}
      /\ \A d \in Calls \ {c} : call'[d] = call[d] \/ (call[d] = "waiting" /\ call'[d] = "woken")
  <2>1. call[c] # "waiting" /\ runningCalls + 1 \in Int
    BY <1>1 DEF TypeOK
  <2>2. \/ Leaves(c, runningCalls + 1)
        \/ \E t \in {"looking", "paused", "waiting", "done"} : Goes(c, t)
    BY DEF Wakes, Enters, PassesOrLeaves
  <2> QED BY <1>1, <2>1, <2>2, EntersMoves
<1>4. Scheduled' /\ Stopping' /\ Cached'
  <2>1. attempt' = [attempt EXCEPT ![c] = 0] /\ answered' \subseteq cache
    BY <1>1 DEF results, TypeOK, Cached
  <2> QED BY <1>1, <1>3, <2>1, OutsideRest DEF results, Attempts
<1>5. TypeOK'
  BY <1>1, <1>2, <1>3 DEF TypeOK, control, results
<1> QED BY <1>2, <1>4, <1>5 DEF IInv

LEMMA GoesOnInv ==
  ASSUME IInv, NEW c \in Calls, GoesOn(c)
  PROVE  IInv'
<1>1. /\ call[c] = "resumed" /\ attempt[c] = 0
      /\ UNCHANGED <<sandbox, attempt, child, callCount, requestCount, spent, control, results>>
      /\ TypeOK /\ Gate /\ Scheduled /\ Stopping /\ Cached
  BY DEF GoesOn, IInv, Scheduled, Attempts
<1>2. call[c] \in Holds \ {"looking"} /\ "looking" \in Holds /\ "looking" \in Stages
  BY <1>1 DEF Holds, Stages
<1>3. Gate' /\ runningCalls' \in 0..MaxConcurrency
  <2>1. CASE Leaves(c, runningCalls)
    BY <1>1, <1>2, <2>1, LeavesGate DEF control
  <2>2. CASE CanSchedule /\ Goes(c, "looking") /\ runningCalls' = runningCalls
    <3>1. /\ call' \in [Calls -> Stages] /\ Num(call', Holds) = Num(call, Holds)
          /\ Num(call', {"woken"}) = Num(call, {"woken"}) /\ Waiting' = Waiting
      <4>1. c \notin Waiting
        BY <1>1 DEF Waiting
      <4> QED BY <1>1, <1>2, <2>2, <4>1, GoesCounts
    <3>2. Num(call', {"looking"}) <= Num(call', Holds) /\ Num(call', {"looking"}) \in Nat
      <4>1. {"looking"} \subseteq Holds
        BY <1>2
      <4> QED BY <3>1, <4>1, CountBounds
    <3>3. callCount < MaxCalls
      BY <2>2 DEF CanSchedule
    <3> QED BY <1>1, <2>2, <3>1, <3>2, <3>3 DEF Gate, TypeOK, control
  <2> QED BY <2>1, <2>2 DEF GoesOn, PassesOrLeaves
<1>4. /\ call' \in [Calls -> Stages]
      /\ call'[c] \in {"looking", "paused", "waiting", "done"}
      /\ \A d \in Calls \ {c} : call'[d] = call[d] \/ (call[d] = "waiting" /\ call'[d] = "woken")
  <2>1. call[c] # "waiting" /\ runningCalls \in Int
    BY <1>1 DEF TypeOK
  <2>2. \/ Leaves(c, runningCalls)
        \/ \E t \in {"looking", "paused", "waiting", "done"} : Goes(c, t)
    BY DEF GoesOn, PassesOrLeaves
  <2> QED BY <1>1, <2>1, <2>2, EntersMoves
<1>5. Scheduled' /\ Stopping' /\ Cached'
  <2>1. attempt' = [attempt EXCEPT ![c] = 0] /\ answered' \subseteq cache
    BY <1>1 DEF results, TypeOK, Cached
  <2> QED BY <1>1, <1>4, <2>1, OutsideRest DEF results, Attempts
<1>6. TypeOK'
  BY <1>1, <1>3, <1>4 DEF TypeOK, control, results
<1> QED BY <1>3, <1>5, <1>6 DEF IInv

\* A call that leaves after it was scheduled.
LEMMA FinishesInv ==
  ASSUME IInv, NEW c \in Calls, Reported(c) \/ Failed(c)
  PROVE  IInv'
<1>1. /\ call[c] \in {"reporting", "failing"} /\ Leaves(c, runningCalls)
      /\ attempt' = [attempt EXCEPT ![c] = 0]
      /\ answered' \in {answered, answered \cup {Key[c]}}
      /\ call[c] = "failing" => answered' = answered
      /\ UNCHANGED <<sandbox, child, callCount, requestCount, spent, control, cache, kept, executions>>
      /\ TypeOK /\ Gate /\ Scheduled /\ Stopping /\ Cached
  BY DEF Reported, Failed, IInv, results
<1>2. call[c] \in Holds \ {"looking"} /\ call[c] \notin Attempts /\ call[c] # "waiting"
  BY <1>1 DEF Holds, Stages, Attempts
<1>3. Gate' /\ runningCalls' \in 0..MaxConcurrency
  BY <1>1, <1>2, LeavesGate DEF control
<1>4. /\ call' \in [Calls -> Stages] /\ call'[c] = "done"
      /\ \A d \in Calls \ {c} : call'[d] = call[d] \/ (call[d] = "waiting" /\ call'[d] = "woken")
  <2>1. runningCalls \in Int
    BY <1>1 DEF TypeOK
  <2> QED BY <1>1, <1>2, <2>1, LeavesCounts
<1>5. Scheduled' /\ Stopping' /\ Cached'
  <2>1. answered' \subseteq cache /\ call'[c] \notin Attempts
    BY <1>1, <1>4 DEF Cached, Attempts
  <2> QED BY <1>1, <1>2, <1>4, <2>1, OutsideRest
<1>6. TypeOK'
  <2>1. attempt' \in [Calls -> 0..3] /\ answered' \subseteq Keys
    BY <1>1 DEF TypeOK
  <2> QED BY <1>1, <1>3, <1>4, <2>1 DEF TypeOK, control
<1> QED BY <1>3, <1>5, <1>6 DEF IInv

\* A call that looked goes on, from the cache or counted.
LEMMA LooksOnInv ==
  ASSUME IInv, NEW c \in Calls, Looks(c), NEW t \in {"reporting", "announcing"}, Goes(c, t),
         t = "reporting" => Key[c] \in cache /\ callCount' = callCount,
         t = "announcing" => Key[c] \notin cache /\ callCount' = callCount + 1,
         UNCHANGED runningCalls
  PROVE  IInv'
<1>1. /\ call[c] = "looking" /\ attempt[c] = 0
      /\ UNCHANGED <<sandbox, attempt, child, runningCalls, requestCount, spent, control, results>>
      /\ TypeOK /\ Gate /\ Scheduled /\ Stopping /\ Cached
  BY DEF Looks, IInv, Scheduled, Attempts
<1>2. /\ Goes(c, t)
      /\ t = "reporting" => Key[c] \in cache /\ callCount' = callCount
      /\ t = "announcing" => Key[c] \notin cache /\ callCount' = callCount + 1
  OBVIOUS
<1>3. t \in Stages /\ t \in Holds /\ "looking" \in Holds /\ t \notin {"waiting", "woken", "looking"}
  BY DEF Stages, Holds
<1>4. /\ call' \in [Calls -> Stages]
      /\ Num(call', Holds) = Num(call, Holds)
      /\ Num(call', {"woken"}) = Num(call, {"woken"})
      /\ Num(call', {"looking"}) = Num(call, {"looking"}) - 1
      /\ Waiting' = Waiting /\ \A S : Num(call, S) \in Nat
  <2>1. c \notin Waiting
    BY <1>1 DEF Waiting
  <2> QED BY <1>1, <1>2, <1>3, <2>1, GoesCounts
<1>5. Gate'
  <2>1. callCount' + Num(call', {"looking"}) < MaxCalls + MaxConcurrency
    BY <1>1, <1>2, <1>4 DEF Gate, TypeOK
  <2> QED BY <1>1, <1>4, <2>1 DEF Gate, control
<1>6. call'[c] = t /\ \A d \in Calls \ {c} : call'[d] = call[d]
  BY <1>1, <1>2 DEF Goes, TypeOK
<1>7. Scheduled' /\ Stopping'
  BY <1>1, <1>6 DEF Scheduled, Stopping, Attempts, control
<1>8. Cached'
  BY <1>1, <1>2, <1>6 DEF Cached, Attempts, results
<1>9. TypeOK'
  <2>1. callCount' \in Nat
    BY <1>1, <1>2 DEF TypeOK
  <2> QED BY <1>1, <1>4, <2>1 DEF TypeOK, control, results
<1> QED BY <1>5, <1>7, <1>8, <1>9 DEF IInv

\* A call that looks goes on, or throws and leaves.
LEMMA LooksInv ==
  ASSUME IInv, NEW c \in Calls, Looks(c)
  PROVE  IInv'
<1>1. /\ call[c] = "looking" /\ attempt[c] = 0
      /\ UNCHANGED <<sandbox, attempt, child, requestCount, spent, control, results>>
      /\ TypeOK /\ Gate /\ Scheduled /\ Stopping /\ Cached
  BY DEF Looks, IInv, Scheduled, Attempts
<1>2. CASE Leaves(c, runningCalls) /\ UNCHANGED callCount
  <2>1. Gate' /\ runningCalls' \in 0..MaxConcurrency
    <3>1. call[c] \in Holds
      BY <1>1 DEF Holds, Stages
    <3> QED BY <1>1, <1>2, <3>1, LeavesGate DEF control
  <2>2. /\ call' \in [Calls -> Stages] /\ call'[c] = "done"
        /\ \A d \in Calls \ {c} : call'[d] = call[d] \/ (call[d] = "waiting" /\ call'[d] = "woken")
    <3>1. runningCalls \in Int
      BY <1>1 DEF TypeOK
    <3> QED BY <1>1, <1>2, <3>1, LeavesCounts
  <2>3. Scheduled' /\ Stopping' /\ Cached'
    <3>1. attempt' = [attempt EXCEPT ![c] = 0] /\ answered' \subseteq cache
      BY <1>1 DEF results, TypeOK, Cached
    <3> QED BY <1>1, <2>2, <3>1, OutsideRest DEF results, Attempts
  <2>4. TypeOK'
    BY <1>1, <1>2, <2>1, <2>2 DEF TypeOK, control, results
  <2> QED BY <2>1, <2>3, <2>4 DEF IInv
<1>3. CASE Key[c] \in cache /\ Goes(c, "reporting") /\ UNCHANGED <<callCount, runningCalls>>
  BY <1>3, LooksOnInv
<1>4. CASE /\ Key[c] \notin cache /\ Goes(c, "announcing")
           /\ callCount' = callCount + 1 /\ UNCHANGED runningCalls
  BY <1>4, LooksOnInv
<1> QED BY <1>2, <1>3, <1>4 DEF Looks

\* An attempt that begins or is refused, with the child of the one before gone.
LEMMA AttemptInv ==
  ASSUME IInv, NEW c \in Calls, NEW exhausted \in BOOLEAN, Attempt(c, exhausted),
         call[c] \in {"announcing", "watching"}, attempt[c] < 3, child'[c] = "none",
         \A d \in Calls \ {c} : child'[d] = child[d], DOMAIN child' = Calls,
         child' = [d \in Calls |-> child'[d]], spent' \in BOOLEAN,
         UNCHANGED <<sandbox, runningCalls, callCount, control, results>>
  PROVE  IInv'
<1>1. TypeOK /\ Gate /\ Scheduled /\ Stopping /\ Cached
  BY DEF IInv
<1>2. PICK t \in {"spawning", "failing"} :
        /\ Goes(c, t)
        /\ t = "spawning" => attempt' = [attempt EXCEPT ![c] = @ + 1]
        /\ t = "failing" => attempt' = attempt
        /\ requestCount' \in Nat /\ requestCount' <= MaxRequests
  BY <1>1 DEF Attempt, Gate, TypeOK
<1>3. /\ t \in Holds \ {"looking"} /\ t \in Stages
      /\ call[c] \in Holds \ {"looking"}
  BY DEF Holds, Stages, Attempts
<1>4. Gate'
  BY <1>1, <1>2, <1>3, GoesGate DEF control
<1>5. /\ call' \in [Calls -> Stages] /\ call'[c] = t
      /\ \A d \in Calls \ {c} : call'[d] = call[d]
  BY <1>1, <1>2, <1>3 DEF Goes, TypeOK
<1>6. /\ attempt' \in [Calls -> 0..3] /\ \A d \in Calls \ {c} : attempt'[d] = attempt[d]
      /\ t = "spawning" => attempt'[c] > 0
  BY <1>1, <1>2 DEF TypeOK
<1>7. Scheduled'
  BY <1>1, <1>5, <1>6 DEF Scheduled, Attempts
<1>8. Stopping'
  BY <1>1, <1>5, <1>6 DEF Stopping, control
<1>9. Cached'
  BY <1>1, <1>5 DEF Cached, Attempts, results
<1>10. TypeOK'
  <2>1. child' \in [Calls -> {"none", "working", "completed", "failed"}]
    BY <1>1 DEF TypeOK
  <2> QED BY <1>1, <1>2, <1>5, <1>6, <2>1 DEF TypeOK, control, results
<1> QED BY <1>4, <1>7, <1>8, <1>9, <1>10 DEF IInv

\* A call that is being scheduled goes on without another attempt.
LEMMA ProceedsInv ==
  ASSUME IInv, NEW c \in Calls,
         NEW t \in {"linking", "stopping", "watching", "failing", "storing", "reporting"}, Goes(c, t),
         call[c] \in Attempts \cup {"storing"},
         t = "watching" => ~stopped /\ call[c] \in Attempts,
         t \in Attempts => child' = child,
         t \notin Attempts => child' = [child EXCEPT ![c] = "none"],
         t = "storing" => call[c] \in Attempts,
         t \in Attempts => call[c] \in Attempts,
         t = "reporting" => Key[c] \in cache',
         cache \subseteq cache', cache' \subseteq Keys, spent' \in BOOLEAN,
         UNCHANGED <<sandbox, attempt, runningCalls, callCount, requestCount, control, answered, kept, executions>>
  PROVE  IInv'
<1>1. TypeOK /\ Gate /\ Scheduled /\ Stopping /\ Cached
  BY DEF IInv
<1>2. /\ t \in Holds \ {"looking"} /\ t \in Stages
      /\ call[c] \in Holds \ {"looking"}
  BY DEF Holds, Stages, Attempts
<1>3. Gate'
  <2>1. requestCount' <= MaxRequests
    BY <1>1 DEF Gate
  <2> QED BY <1>1, <1>2, <2>1, GoesGate DEF control
<1>4. /\ call' \in [Calls -> Stages] /\ call'[c] = t
      /\ \A d \in Calls \ {c} : call'[d] = call[d]
  BY <1>1, <1>2 DEF Goes, TypeOK
<1>5. /\ child' \in [Calls -> {"none", "working", "completed", "failed"}]
      /\ \A d \in Calls \ {c} : child'[d] = child[d]
      /\ t \notin Attempts => child'[c] = "none"
  BY <1>1 DEF TypeOK
<1>6. Scheduled'
  BY <1>1, <1>4, <1>5 DEF Scheduled, Attempts
<1>7. Stopping'
  BY <1>1, <1>4, <1>5 DEF Stopping, control
<1>8. Cached'
  BY <1>1, <1>4 DEF Cached, Attempts
<1>9. TypeOK'
  BY <1>1, <1>4, <1>5 DEF TypeOK, control
<1> QED BY <1>3, <1>6, <1>7, <1>8, <1>9 DEF IInv

LEMMA AnnouncedInv ==
  ASSUME IInv, NEW c \in Calls, Announced(c)
  PROVE  IInv'
<1>1. /\ call[c] = "announcing" /\ Attempt(c, spent)
      /\ UNCHANGED <<sandbox, child, runningCalls, callCount, spent, control, results>>
      /\ child \in [Calls -> {"none", "working", "completed", "failed"}] /\ spent \in BOOLEAN
  BY DEF Announced, IInv, TypeOK
<1>2. attempt[c] = 0 /\ child[c] = "none"
  BY <1>1 DEF IInv, Scheduled, Attempts
<1> QED BY <1>1, <1>2, AttemptInv

LEMMA WatchedInv ==
  ASSUME IInv, NEW c \in Calls, Watched(c)
  PROVE  IInv'
<1>1. /\ call[c] = "watching" /\ child' = [child EXCEPT ![c] = "none"]
      /\ UNCHANGED <<sandbox, runningCalls, callCount, control, results>>
      /\ child \in [Calls -> {"none", "working", "completed", "failed"}]
      /\ cache \subseteq Keys /\ spent \in BOOLEAN
  BY DEF Watched, Over, IInv, TypeOK
<1>2. spent' \in BOOLEAN
  BY <1>1 DEF Watched
<1>3. CASE attempt[c] < 3 /\ Attempt(c, spent')
  <2>1. /\ child'[c] = "none" /\ \A d \in Calls \ {c} : child'[d] = child[d]
        /\ DOMAIN child' = Calls /\ child' = [d \in Calls |-> child'[d]]
    BY <1>1
  <2> QED BY <1>1, <1>2, <1>3, <2>1, AttemptInv
<1>4. ASSUME NEW t \in {"failing", "storing"}, Goes(c, t), UNCHANGED <<attempt, requestCount>>
      PROVE  IInv'
  BY <1>1, <1>2, <1>4, ProceedsInv DEF results, Attempts
<1> QED BY <1>3, <1>4 DEF Watched

\* The steps between the beginning of an attempt and its end.
LEMMA AttemptStepsInv ==
  ASSUME IInv, NEW c \in Calls, SpawnSettles(c) \/ Linked(c) \/ StopsLate(c) \/ Stored(c)
  PROVE  IInv'
<1>1. cache \subseteq Keys /\ spent \in BOOLEAN /\ Key[c] \in Keys
      /\ child \in [Calls -> {"none", "working", "completed", "failed"}]
  BY DEF IInv, TypeOK
<1>2. CASE SpawnSettles(c)
  <2>1. PICK t \in {"linking", "failing"} : Goes(c, t) /\ (t = "failing" => child[c] = "none")
    BY <1>2 DEF SpawnSettles
  <2>2. t = "failing" => child' = [child EXCEPT ![c] = "none"]
    BY <1>1, <1>2, <2>1 DEF SpawnSettles
  <2> QED BY <1>1, <1>2, <2>1, <2>2, ProceedsInv DEF SpawnSettles, results, counts, Attempts
<1>3. CASE Linked(c)
  <2>1. PICK t \in {"stopping", "watching"} : Goes(c, t) /\ (t = "watching" => ~stopped)
    BY <1>3 DEF Linked
  <2> QED BY <1>1, <1>3, <2>1, ProceedsInv DEF Linked, results, counts, Attempts
<1>4. CASE StopsLate(c)
  BY <1>1, <1>4, ProceedsInv DEF StopsLate, Over, results, counts, Attempts
<1>5. CASE Stored(c)
  <2>1. child' = [child EXCEPT ![c] = "none"]
    BY <1>1, <1>5 DEF Stored, IInv, Scheduled, Attempts
  <2> QED BY <1>1, <1>5, <2>1, ProceedsInv DEF Stored, counts, Attempts
<1> QED BY <1>2, <1>3, <1>4, <1>5

\* The children of calls register, end and are stopped.
LEMMA ChildrenInv ==
  ASSUME IInv, NEW c \in Calls, Registers(c) \/ ChildEnds(c) \/ ChildStopped(c)
  PROVE  IInv'
<1>1. /\ UNCHANGED <<sandbox, call, attempt, counts, paused, stopped, stopReturned, results>>
      /\ child' \in [Calls -> {"none", "working", "completed", "failed"}]
      /\ stopping' \subseteq stopping
  BY DEF Registers, ChildEnds, ChildStopped, IInv, TypeOK, control
<1>2. TypeOK' /\ Gate'
  <2>1. Waiting' = Waiting
    BY <1>1 DEF Waiting
  <2> QED BY <1>1, <2>1 DEF IInv, TypeOK, Gate, counts, results
<1>3. \A d \in Calls : child'[d] # "none" => child[d] # "none" \/ call[d] = "spawning"
  BY DEF Registers, ChildEnds, ChildStopped, IInv, TypeOK
<1>4. Scheduled'
  BY <1>1, <1>3 DEF IInv, Scheduled, Attempts
<1>5. Stopping'
  <2>1. \A d \in Calls : call[d] = "watching" /\ child'[d] = "working" => child[d] = "working"
    BY DEF Registers, ChildEnds, ChildStopped, IInv, TypeOK
  <2>2. ASSUME NEW d \in Calls, stopped, call[d] = "watching", child'[d] = "working"
        PROVE  <<d, attempt[d]>> \in stopping'
    <3>1. <<d, attempt[d]>> \in stopping
      BY <2>1, <2>2 DEF IInv, Stopping
    <3>2. CASE Registers(c) \/ ChildEnds(c)
      BY <3>1, <3>2 DEF Registers, ChildEnds, control
    <3>3. CASE ChildStopped(c)
      <4>1. PICK n \in 1..3 : /\ stopping' = stopping \ {<<c, n>>}
                              /\ child' = IF n = attempt[c] /\ child[c] = "working"
                                          THEN [child EXCEPT ![c] = "failed"] ELSE child
        BY <3>3 DEF ChildStopped
      <4>2. <<d, attempt[d]>> # <<c, n>>
        BY <2>2, <4>1 DEF IInv, TypeOK
      <4> QED BY <3>1, <4>1, <4>2
    <3> QED BY <3>2, <3>3
  <2>3. stopReturned' => stopped' /\ stopping' = {}
    BY <1>1 DEF IInv, Stopping
  <2> QED BY <1>1, <2>2, <2>3 DEF Stopping
<1>6. Cached'
  BY <1>1 DEF IInv, Cached, results
<1> QED BY <1>2, <1>4, <1>5, <1>6 DEF IInv

\* What holders, woken and looking calls are does not change with a pause.
LEMMA SameCounts ==
  ASSUME NEW S, In(call', S) = In(call, S)
  PROVE  Num(call', S) = Num(call, S)
BY DEF Num

LEMMA ResumeInv ==
  ASSUME IInv, Resume
  PROVE  IInv'
<1>1. /\ UNCHANGED <<sandbox, attempt, child, counts, stopped, stopping, stopReturned, results>>
      /\ paused' = FALSE
      /\ \A c \in Calls : call'[c] = IF call[c] = "paused" THEN "resumed" ELSE call[c]
      /\ DOMAIN call' = Calls /\ call' = [c \in Calls |-> call'[c]]
  BY DEF Resume, Unpaused, IInv, TypeOK
<1>2. call' \in [Calls -> Stages] /\ "resumed" \in Holds
  BY <1>1 DEF IInv, TypeOK, Stages, Holds
<1>3. In(call', Holds) = In(call, Holds) /\ In(call', {"woken"}) = In(call, {"woken"})
      /\ In(call', {"looking"}) = In(call, {"looking"}) /\ Waiting' = Waiting
  <2>1. "paused" \in Holds
    BY DEF Holds, Stages
  <2> QED BY <1>1, <1>2, <2>1 DEF In, Waiting
<1>4. Gate'
  BY <1>1, <1>3, SameCounts DEF IInv, Gate, counts
<1>5. Scheduled' /\ Stopping' /\ Cached'
  BY <1>1 DEF IInv, Scheduled, Stopping, Cached, Attempts, results
<1>6. TypeOK'
  BY <1>1, <1>2 DEF IInv, TypeOK, counts, results
<1> QED BY <1>4, <1>5, <1>6 DEF IInv

LEMMA StopInv ==
  ASSUME IInv, Stop
  PROVE  IInv'
<1>1. /\ UNCHANGED <<sandbox, attempt, child, counts, stopReturned, results>>
      /\ paused' = FALSE /\ stopped' = TRUE /\ ~stopped
      /\ stopping' = {<<c, attempt[c]>> : c \in {d \in Calls : call[d] \in Attempts}}
      /\ \A c \in Calls : call'[c] = IF call[c] = "waiting" THEN "woken"
                                   ELSE IF call[c] = "paused" THEN "resumed" ELSE call[c]
      /\ DOMAIN call' = Calls /\ call' = [c \in Calls |-> call'[c]]
  BY DEF Stop, Unpaused, Waiting, IInv, TypeOK
<1>2. /\ call' \in [Calls -> Stages] /\ "resumed" \in Holds /\ "paused" \in Holds
      /\ "waiting" \notin Holds /\ "woken" \notin Holds
  BY <1>1 DEF IInv, TypeOK, Stages, Queued, Holds
<1>3. In(call', Holds) = In(call, Holds) /\ In(call', {"looking"}) = In(call, {"looking"})
  BY <1>1, <1>2 DEF In
<1>4. Gate'
  BY <1>1, <1>3, SameCounts DEF IInv, Gate, counts
<1>5. Scheduled' /\ Cached'
  BY <1>1 DEF IInv, Scheduled, Cached, Attempts, results
<1>6. Stopping'
  <2>1. \A c \in Calls : call'[c] = "watching" => call[c] \in Attempts
    BY <1>1 DEF Attempts
  <2>2. ~stopReturned'
    BY <1>1 DEF IInv, Stopping
  <2> QED BY <1>1, <2>1, <2>2 DEF Stopping
<1>7. TypeOK'
  <2>1. stopping' \subseteq Calls \X (1..3)
    <3>1. ASSUME NEW c \in Calls, call[c] \in Attempts PROVE attempt[c] \in 1..3
      BY <3>1 DEF IInv, TypeOK, Scheduled
    <3> QED BY <1>1, <3>1
  <2> QED BY <1>1, <1>2, <2>1 DEF IInv, TypeOK, counts, results
<1> QED BY <1>4, <1>5, <1>6, <1>7 DEF IInv

LEMMA ControlInv ==
  ASSUME IInv, Pause \/ StopReturns \/ SandboxMoves
  PROVE  IInv'
<1>1. /\ UNCHANGED <<call, attempt, child, counts, stopped, stopping, results>>
      /\ paused' \in BOOLEAN /\ stopReturned' \in BOOLEAN
      /\ sandbox' \in {"starting", "open", "ended"}
      /\ stopReturned' => stopReturned \/ (stopped /\ stopping = {})
  <2>1. CASE Pause
    BY <2>1 DEF Pause, IInv, TypeOK
  <2>2. CASE StopReturns
    BY <2>2 DEF StopReturns, IInv, TypeOK
  <2>3. CASE SandboxMoves
    BY <2>3 DEF SandboxMoves, IInv, TypeOK, control
  <2> QED BY <2>1, <2>2, <2>3
<1>2. Waiting' = Waiting
  BY <1>1 DEF Waiting
<1> QED BY <1>1, <1>2 DEF IInv, TypeOK, Gate, Scheduled, Stopping, Cached, counts, results

LEMMA FreshInv ==
  ASSUME IInv, ExecutesAgain \/ Crash
  PROVE  IInv'
<1>1. /\ sandbox' = "starting" /\ Fresh /\ executions' = executions + 1 /\ executions < MaxExecutions
      /\ TypeOK /\ Cached
  BY DEF ExecutesAgain, Crash, IInv
<1>2. \A c \in Calls : call'[c] = "none" /\ attempt'[c] = 0 /\ child'[c] = "none"
  BY <1>1 DEF Fresh
<1>3. ASSUME NEW S, "none" \notin S PROVE Num(call', S) = 0
  <2>1. In(call', S) = {}
    BY <1>2, <1>3 DEF In
  <2> QED BY <2>1, FS_EmptySet DEF Num
<1>4. Gate'
  <2>1. Num(call', Holds) = 0 /\ Num(call', {"looking"}) = 0
    <3>1. "none" \notin Holds /\ "none" \notin {"looking"}
      BY DEF Holds
    <3> QED BY <1>3, <3>1
  <2>2. Waiting' = {}
    BY <1>2 DEF Waiting
  <2> QED BY <1>1, <2>1, <2>2 DEF Fresh, Gate
<1>5. Scheduled' /\ Stopping' /\ Cached'
  BY <1>1, <1>2 DEF Fresh, Scheduled, Stopping, Cached, Attempts
<1>6. TypeOK'
  <2>1. call' \in [Calls -> Stages] /\ attempt' \in [Calls -> 0..3]
        /\ child' \in [Calls -> {"none", "working", "completed", "failed"}]
    BY <1>1 DEF Fresh, Stages
  <2>2. executions' \in 1..MaxExecutions /\ runningCalls' \in 0..MaxConcurrency
        /\ callCount' \in Nat /\ requestCount' \in Nat
    BY <1>1 DEF Fresh, TypeOK
  <2>3. stopping' = {} /\ spent' = FALSE /\ paused' = FALSE /\ stopped' = FALSE /\ stopReturned' = FALSE
        /\ UNCHANGED <<cache, answered>> /\ kept' \subseteq Keys
    BY <1>1 DEF Fresh, TypeOK
  <2> QED BY <1>1, <2>1, <2>2, <2>3 DEF TypeOK
<1> QED BY <1>4, <1>5, <1>6 DEF IInv

LEMMA NextInv == IInv /\ [Next]_vars => IInv'
<1> SUFFICES ASSUME IInv, [Next]_vars PROVE IInv'
  OBVIOUS
<1>1. CASE UNCHANGED vars
  BY <1>1 DEF IInv, TypeOK, Gate, Scheduled, Stopping, Cached, Waiting, vars, counts, control, results
<1>2. ASSUME NEW c \in Calls, Requests(c) \/ Continues(c) \/ Registers(c) \/ ChildEnds(c) PROVE IInv'
  BY <1>2, RequestsInv, WakesInv, GoesOnInv, LooksInv, AnnouncedInv, WatchedInv, AttemptStepsInv,
     ChildrenInv, FinishesInv DEF Continues
<1> QED BY <1>1, <1>2, ResumeInv, StopInv, ControlInv, FreshInv DEF Next

LEMMA Invariant == Spec => []IInv
BY InitInv, NextInv, PTL DEF Spec

-----------------------------------------------------------------------------
(* The theorems.                                                           *)

\* Every state is one of the declared values.
THEOREM TypeCorrect == Spec => []TypeOK
<1>1. IInv => TypeOK
  BY DEF IInv
<1> QED BY <1>1, Invariant, PTL

\* The slots in use are those of the calls that hold one, at most maxConcurrency.
THEOREM SlotsMatch == Spec => []SlotsAccounted
<1>1. IInv => SlotsAccounted
  <2> SUFFICES ASSUME IInv PROVE SlotsAccounted
    OBVIOUS
  <2>1. Holding = In(call, Holds)
    BY DEF Holding, In, Holds, Queued, IInv, TypeOK
  <2> QED BY <2>1 DEF SlotsAccounted, Num, IInv, Gate
<1> QED BY <1>1, Invariant, PTL

\* How far the run may pass its budgets: requests not at all, and calls, which
\* CallsWithinBudget wants within theirs too, by less than the number of slots.
OverrunIsBounded == requestCount <= MaxRequests /\ callCount < MaxCalls + MaxConcurrency

\* However the calls of the script begin and fail, requests stay within their
\* budget and the calls that are counted exceed theirs by less than the slots.
THEOREM OverrunBounded == Spec => []OverrunIsBounded
<1>1. IInv => OverrunIsBounded
  <2> SUFFICES ASSUME IInv PROVE OverrunIsBounded
    OBVIOUS
  <2>1. Num(call, {"looking"}) \in Nat
    <3>1. {"looking"} \subseteq {"looking"} /\ call \in [Calls -> Stages]
      BY DEF IInv, TypeOK
    <3> QED BY <3>1, CountBounds
  <2> QED BY <2>1 DEF OverrunIsBounded, IInv, Gate, TypeOK
<1> QED BY <1>1, Invariant, PTL

\* No wakeup is lost: while calls wait, a woken one is on its way to each free
\* slot.
THEOREM WakeupsSuffice == Spec => []NoLostWakeup
<1>1. IInv => NoLostWakeup
  <2> SUFFICES ASSUME IInv PROVE NoLostWakeup
    OBVIOUS
  <2>1. Woken = In(call, {"woken"})
    BY DEF Woken, In
  <2> QED BY <2>1 DEF NoLostWakeup, Num, IInv, Gate
<1> QED BY <1>1, Invariant, PTL

\* When stop() has returned, only children whose spawn it could not see work,
\* and their calls are on the way to stop them.
THEOREM StopReachesAll == Spec => []StoppedChildrenEnd
<1>1. IInv => StoppedChildrenEnd
  BY DEF IInv, TypeOK, Scheduled, Stopping, StoppedChildrenEnd, Attempts
<1> QED BY <1>1, Invariant, PTL

\* What an execution answered is never given to a child by a later one.
THEOREM CompletedIsKept == Spec => NotReplayed
<1>1. IInv /\ [Next]_vars => [\A c \in Calls : Key[c] \in kept => attempt'[c] <= attempt[c]]_vars
  <2> SUFFICES ASSUME IInv, Next, NEW c \in Calls, Key[c] \in kept
               PROVE  attempt'[c] <= attempt[c]
    BY Zenon
  <2>1. call[c] \notin {"announcing", "watching"} /\ attempt[c] \in Nat
        /\ attempt \in [Calls -> 0..3]
    BY DEF IInv, Cached, Attempts, TypeOK
  <2>2. ASSUME NEW d \in Calls, Announced(d) \/ Watched(d) PROVE attempt'[c] <= attempt[c]
    <3>1. d # c
      BY <2>1, <2>2 DEF Announced, Watched
    <3>2. attempt' = attempt \/ attempt' = [attempt EXCEPT ![d] = @ + 1]
      BY <2>2 DEF Announced, Watched, Attempt
    <3> QED BY <2>1, <3>1, <3>2
  <2>3. ASSUME NEW d \in Calls, Reported(d) \/ Failed(d) PROVE attempt'[c] <= attempt[c]
    BY <2>1, <2>3 DEF Reported, Failed
  <2>4. ASSUME NEW d \in Calls,
               \/ Requests(d) \/ Wakes(d) \/ GoesOn(d) \/ Looks(d) \/ SpawnSettles(d)
               \/ Linked(d) \/ StopsLate(d) \/ Stored(d) \/ ChildStopped(d)
               \/ Registers(d) \/ ChildEnds(d)
        PROVE  attempt'[c] <= attempt[c]
    <3>1. attempt' = attempt
      BY <2>4 DEF Requests, Wakes, GoesOn, Looks, SpawnSettles, Linked, StopsLate, Stored,
                  ChildStopped, Registers, ChildEnds
    <3> QED BY <2>1, <3>1
  <2>5. CASE Pause \/ Resume \/ Stop \/ StopReturns \/ SandboxMoves
    <3>1. attempt' = attempt
      BY <2>5 DEF Pause, Resume, Stop, StopReturns, SandboxMoves
    <3> QED BY <2>1, <3>1
  <2>6. CASE ExecutesAgain \/ Crash
    BY <2>1, <2>6 DEF ExecutesAgain, Crash, Fresh
  <2> QED BY <2>2, <2>3, <2>4, <2>5, <2>6 DEF Next, Continues
<1> QED BY <1>1, Invariant, PTL DEF Spec, NotReplayed

=============================================================================
