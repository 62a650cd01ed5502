-------------------------- MODULE WorkflowScheduler --------------------------
(***************************************************************************)
(* One run of a workflow: its scheduler (workflows/scheduler.mjs) between  *)
(* the script in the sandbox process, which calls agent(), and the fleet   *)
(* controller, which runs the children; the cache of results on disk; and  *)
(* the executions of the run that follow each other (runtime.mjs).         *)
(*                                                                         *)
(* The scheduler runs on one thread.  A call that was resolved out of a    *)
(* queue goes on in a microtask, before the next message of the sandbox or *)
(* request of a user is handled (Quiet).  The fleet is abstracted to the   *)
(* promises AgentFleet shows: spawn() and stop() return, and stop() of a   *)
(* registered child ends it.  Bound: an execution begins when the calls of *)
(* the one before are over.                                                *)
(***************************************************************************)
EXTENDS Integers, FiniteSets

CONSTANTS Calls, Keys,
          Key,             \* the fingerprint of a call
          MaxConcurrency, MaxCalls, MaxRequests,
          MaxExecutions    \* bound: executions of the run

ASSUME WorkflowAssumption ==
  /\ IsFiniteSet(Calls) /\ Key \in [Calls -> Keys]
  /\ MaxConcurrency \in Nat \ {0} /\ MaxCalls \in Nat /\ MaxRequests \in Nat
  /\ MaxExecutions \in Nat \ {0}

\* Where a call is: in a queue of the scheduler or resolved out of it, or at
\* the await that the stage names.
Queued   == {"waiting", "woken"}                 \* concurrencyWaiters
Attempts == {"spawning", "linking", "stopping", "watching"}
Stages   == {"none", "paused", "resumed", "looking", "announcing", "storing",
             "reporting", "failing", "done"} \cup Queued \cup Attempts

VARIABLES
  sandbox,       \* "starting", "open", or "ended" (no longer in active)
  call,          \* stage of each call of the script
  attempt,       \* attempts of a call that is being scheduled
  child,         \* the child of its attempt, until the call has seen its end
  runningCalls, callCount, requestCount,
  spent,         \* tokenCount or costUsd has reached its limit
  paused, stopped,
  stopping,      \* attempts whose child stop() still waits for
  stopReturned,  \* scheduler.stop() has returned and the sandbox was aborted
  cache,         \* keys with a completed record on disk
  answered,      \* history: keys whose value the script has got
  kept,          \* history: the same, of earlier executions
  executions

counts  == <<runningCalls, callCount, requestCount, spent>>
control == <<paused, stopped, stopping, stopReturned>>
results == <<cache, answered, kept, executions>>
vars    == <<sandbox, call, attempt, child, counts, control, results>>

TypeOK ==
  /\ sandbox \in {"starting", "open", "ended"}
  /\ call \in [Calls -> Stages]
  /\ attempt \in [Calls -> 0..3]
  /\ child \in [Calls -> {"none", "working", "completed", "failed"}]
  /\ runningCalls \in 0..MaxConcurrency
  /\ callCount \in Nat /\ requestCount \in Nat /\ spent \in BOOLEAN
  /\ paused \in BOOLEAN /\ stopped \in BOOLEAN /\ stopReturned \in BOOLEAN
  /\ stopping \subseteq Calls \X (1..3)
  /\ cache \subseteq Keys /\ answered \subseteq Keys /\ kept \subseteq Keys
  /\ executions \in 1..MaxExecutions

Init ==
  /\ sandbox = "starting"
  /\ call = [c \in Calls |-> "none"] /\ attempt = [c \in Calls |-> 0]
  /\ child = [c \in Calls |-> "none"]
  /\ runningCalls = 0 /\ callCount = 0 /\ requestCount = 0 /\ spent = FALSE
  /\ paused = FALSE /\ stopped = FALSE /\ stopping = {} /\ stopReturned = FALSE
  /\ cache = {} /\ answered = {} /\ kept = {}
  /\ executions = 1

-----------------------------------------------------------------------------
(* The concurrency gate and the pause.                                     *)

Waiting == {c \in Calls : call[c] = "waiting"}
Woken   == {c \in Calls : call[c] = "woken"}
Holding == {c \in Calls : call[c] \notin Queued \cup {"none", "done"}}
Quiet   == \A c \in Calls : call[c] \notin {"woken", "resumed"}

\* Mutant: the last call that may run is one too many.
HasSlotInclusive == runningCalls <= MaxConcurrency
HasSlot == runningCalls < MaxConcurrency

CanSchedule == callCount < MaxCalls /\ requestCount < MaxRequests /\ ~spent

Goes(c, stage) == call' = [call EXCEPT ![c] = stage]

\* Mutant: the slot is given back and nobody is told.
LeavesSilently(c, running) == Goes(c, "done") /\ runningCalls' = running - 1

\* release(): the slot is given back and a waiter wakes.
Leaves(c, running) ==
  /\ \/ Waiting = {} /\ Goes(c, "done")
     \/ \E w \in Waiting : call' = [call EXCEPT ![c] = "done", ![w] = "woken"]
  /\ runningCalls' = running - 1

\* waitUntilRunnable() and assertCanSchedule() of a call that has its slot.
PassesOrLeaves(c, running) ==
  \/ (stopped \/ ~CanSchedule) /\ Leaves(c, running)
  \/ ~stopped /\ CanSchedule /\ Goes(c, "looking") /\ runningCalls' = running

Enters(c) ==
  \/ (stopped \/ ~paused) /\ PassesOrLeaves(c, runningCalls + 1)
  \/ ~stopped /\ paused /\ Goes(c, "paused") /\ runningCalls' = runningCalls + 1

\* agent() of the script.
Requests(c) ==
  /\ Quiet /\ sandbox = "open" /\ call[c] = "none"
  /\ \/ HasSlot /\ Enters(c)
     \/ ~HasSlot /\ Goes(c, "waiting") /\ UNCHANGED runningCalls
  /\ UNCHANGED <<sandbox, attempt, child, callCount, requestCount, spent, control, results>>

\* Mutant: a waiter that throws gives back a slot it never took.
WakesReleasing(c) ==
  /\ call[c] = "woken"
  /\ \/ stopped /\ Goes(c, "done") /\ runningCalls' = IF runningCalls > 0 THEN runningCalls - 1 ELSE 0
     \/ ~stopped /\ HasSlot /\ Enters(c)
     \/ ~stopped /\ ~HasSlot /\ Goes(c, "waiting") /\ UNCHANGED runningCalls
  /\ UNCHANGED <<sandbox, attempt, child, callCount, requestCount, spent, control, results>>

\* A woken waiter looks again for a slot, or throws.
Wakes(c) ==
  /\ call[c] = "woken"
  /\ \/ stopped /\ Goes(c, "done") /\ UNCHANGED runningCalls
     \/ ~stopped /\ HasSlot /\ Enters(c)
     \/ ~stopped /\ ~HasSlot /\ Goes(c, "waiting") /\ UNCHANGED runningCalls
  /\ UNCHANGED <<sandbox, attempt, child, callCount, requestCount, spent, control, results>>

GoesOn(c) ==
  /\ call[c] = "resumed"
  /\ PassesOrLeaves(c, runningCalls)
  /\ UNCHANGED <<sandbox, attempt, child, callCount, requestCount, spent, control, results>>

-----------------------------------------------------------------------------
(* scheduleAgent() behind the gate.                                        *)

\* Mutant: the record of another execution is not taken.
LooksAfresh(c) ==
  /\ call[c] = "looking"
  /\ Goes(c, "announcing") /\ callCount' = callCount + 1
  /\ UNCHANGED <<sandbox, attempt, child, runningCalls, requestCount, spent, control, results>>

\* The catalog is refreshed, a model is chosen and the cache is read; each may
\* throw, before anything was counted or an event appended.
Looks(c) ==
  /\ call[c] = "looking"
  /\ \/ Key[c] \in cache /\ Goes(c, "reporting") /\ UNCHANGED <<callCount, runningCalls>>
     \/ /\ Key[c] \notin cache /\ Goes(c, "announcing")
        /\ callCount' = callCount + 1 /\ UNCHANGED runningCalls
     \/ Leaves(c, runningCalls) /\ UNCHANGED callCount
  /\ UNCHANGED <<sandbox, attempt, child, requestCount, spent, control, results>>

\* runAgentAttempt() begins, or throws for the budget.
Attempt(c, exhausted) ==
  \/ /\ requestCount >= MaxRequests \/ exhausted
     /\ Goes(c, "failing")
     /\ UNCHANGED <<attempt, requestCount>>
  \/ /\ requestCount < MaxRequests /\ ~exhausted
     /\ Goes(c, "spawning")
     /\ attempt' = [attempt EXCEPT ![c] = @ + 1]
     /\ requestCount' = requestCount + 1

\* The "running" event is appended.
Announced(c) ==
  /\ call[c] = "announcing" /\ Attempt(c, spent)
  /\ UNCHANGED <<sandbox, child, runningCalls, callCount, spent, control, results>>

\* The controller registers the child of a spawn() under way.
Registers(c) ==
  /\ call[c] = "spawning" /\ child[c] = "none"
  /\ child' = [child EXCEPT ![c] = "working"]
  /\ UNCHANGED <<sandbox, call, attempt, counts, control, results>>

SpawnSettles(c) ==
  /\ call[c] = "spawning"
  /\ \/ child[c] # "none" /\ Goes(c, "linking")
     \/ child[c] = "none" /\ Goes(c, "failing")
  /\ UNCHANGED <<sandbox, attempt, child, counts, control, results>>

\* Mutant: a stop() during the spawn is not noticed.
LinkedUnseen(c) ==
  /\ call[c] = "linking" /\ Goes(c, "watching")
  /\ UNCHANGED <<sandbox, attempt, child, counts, control, results>>

\* The link is appended.
Linked(c) ==
  /\ call[c] = "linking"
  /\ \/ stopped /\ Goes(c, "stopping")
     \/ ~stopped /\ Goes(c, "watching")
  /\ UNCHANGED <<sandbox, attempt, child, counts, control, results>>

Over(c) == child' = [child EXCEPT ![c] = "none"]

\* The child that was late for stop() is stopped, and the call throws.
StopsLate(c) ==
  /\ call[c] = "stopping" /\ Goes(c, "failing") /\ Over(c)
  /\ UNCHANGED <<sandbox, attempt, counts, control, results>>

\* A child ends by itself, in time or not at all.
ChildEnds(c) ==
  /\ child[c] = "working"
  /\ \E end \in {"completed", "failed"} : child' = [child EXCEPT ![c] = end]
  /\ UNCHANGED <<sandbox, call, attempt, counts, control, results>>

\* wait() answers and usage is added up.  A value that does not fit the schema
\* is asked for again, twice at most; a child that failed makes the call throw.
Watched(c) ==
  /\ call[c] = "watching" /\ Over(c)
  /\ \/ child[c] = "failed" /\ Goes(c, "failing") /\ UNCHANGED <<attempt, requestCount, spent>>
     \/ /\ child[c] = "completed" /\ spent' \in {spent, TRUE}
        /\ \/ Goes(c, "storing") /\ UNCHANGED <<attempt, requestCount>>
           \/ attempt[c] < 3 /\ Attempt(c, spent')
           \/ attempt[c] = 3 /\ Goes(c, "failing") /\ UNCHANGED <<attempt, requestCount>>
  /\ UNCHANGED <<sandbox, runningCalls, callCount, control, results>>

Stored(c) ==
  /\ call[c] = "storing" /\ Goes(c, "reporting")
  /\ cache' = cache \cup {Key[c]}
  /\ UNCHANGED <<sandbox, attempt, child, counts, control, answered, kept, executions>>

\* The "cached" or "completed" event is appended, and the script gets the value.
Reported(c) ==
  /\ call[c] = "reporting" /\ Leaves(c, runningCalls)
  /\ answered' = answered \cup {Key[c]}
  /\ attempt' = [attempt EXCEPT ![c] = 0]
  /\ UNCHANGED <<sandbox, child, callCount, requestCount, spent, control, cache, kept, executions>>

\* The "failed" event is appended, and the script gets the error.
Failed(c) ==
  /\ call[c] = "failing" /\ Leaves(c, runningCalls)
  /\ attempt' = [attempt EXCEPT ![c] = 0]
  /\ UNCHANGED <<sandbox, child, callCount, requestCount, spent, control, results>>

-----------------------------------------------------------------------------
(* pause(), resume() and stop() of the runtime, and its executions.        *)

Pause ==
  /\ Quiet /\ sandbox # "ended"
  /\ paused' = TRUE
  /\ UNCHANGED <<sandbox, call, attempt, child, counts, stopped, stopping, stopReturned, results>>

Unpaused(f) == [c \in Calls |-> IF f[c] = "paused" THEN "resumed" ELSE f[c]]

\* Mutant: the calls that wait for the end of the pause are not resolved.
ResumeOnly ==
  /\ Quiet /\ sandbox # "ended" /\ paused
  /\ paused' = FALSE
  /\ UNCHANGED <<sandbox, call, attempt, child, counts, stopped, stopping, stopReturned, results>>

Resume ==
  /\ Quiet /\ sandbox # "ended" /\ paused
  /\ paused' = FALSE /\ call' = Unpaused(call)
  /\ UNCHANGED <<sandbox, attempt, child, counts, stopped, stopping, stopReturned, results>>

\* Every waiter is resolved, and the children of this moment are stopped.
\* Bound: one stop() of an execution.
Stop ==
  /\ Quiet /\ sandbox # "ended" /\ ~stopped
  /\ stopped' = TRUE /\ paused' = FALSE
  /\ call' = Unpaused([c \in Calls |-> IF c \in Waiting THEN "woken" ELSE call[c]])
  /\ stopping' = {<<c, attempt[c]>> : c \in {d \in Calls : call[d] \in Attempts}}
  /\ UNCHANGED <<sandbox, attempt, child, counts, stopReturned, results>>

\* controller.stop() of one child; it throws for a child that is not registered.
ChildStopped(c) ==
  /\ \E n \in 1..3 :
       /\ <<c, n>> \in stopping
       /\ stopping' = stopping \ {<<c, n>>}
       /\ child' = IF n = attempt[c] /\ child[c] = "working"
                   THEN [child EXCEPT ![c] = "failed"] ELSE child
  /\ UNCHANGED <<sandbox, call, attempt, counts, paused, stopped, stopReturned, results>>

\* The sandbox is aborted.  Before it has started that has no effect: execute()
\* listens for an abort to come.
StopReturns ==
  /\ stopped /\ stopping = {} /\ ~stopReturned
  /\ stopReturned' = TRUE
  /\ sandbox' = IF sandbox = "open" THEN "ended" ELSE sandbox
  /\ UNCHANGED <<call, attempt, child, counts, paused, stopped, stopping, results>>

\* workflow.started is appended.  The script returns or throws, whatever its
\* calls do, and the outcome is appended: until then it might as well be open.
SandboxMoves ==
  /\ \/ sandbox = "starting" /\ sandbox' = "open"
     \/ sandbox = "open" /\ sandbox' = "ended"
  /\ UNCHANGED <<call, attempt, child, counts, control, results>>

Fresh ==
  /\ call' = [c \in Calls |-> "none"] /\ attempt' = [c \in Calls |-> 0]
  /\ child' = [c \in Calls |-> "none"]
  /\ runningCalls' = 0 /\ callCount' = 0 /\ requestCount' = 0 /\ spent' = FALSE
  /\ paused' = FALSE /\ stopped' = FALSE /\ stopping' = {} /\ stopReturned' = FALSE
  /\ kept' = kept \cup answered
  /\ UNCHANGED <<cache, answered>>

\* resume() of a run that is over, or restart().
ExecutesAgain ==
  /\ sandbox = "ended" /\ executions < MaxExecutions
  /\ \A c \in Calls : call[c] \in {"none", "done"}
  /\ stopped => stopReturned
  /\ executions' = executions + 1 /\ sandbox' = "starting" /\ Fresh

\* The process dies, its children with it; the run is resumed by the next one.
Crash ==
  /\ executions < MaxExecutions
  /\ executions' = executions + 1 /\ sandbox' = "starting" /\ Fresh

-----------------------------------------------------------------------------

\* What the code goes on with by itself.
Continues(c) ==
  \/ Wakes(c) \/ GoesOn(c) \/ Looks(c) \/ Announced(c) \/ SpawnSettles(c)
  \/ Linked(c) \/ StopsLate(c) \/ Watched(c) \/ Stored(c)
  \/ Reported(c) \/ Failed(c) \/ ChildStopped(c)

Next ==
  \/ \E c \in Calls :
       Requests(c) \/ Continues(c) \/ Registers(c) \/ ChildEnds(c)
  \/ Pause \/ Resume \/ Stop \/ StopReturns \/ SandboxMoves \/ ExecutesAgain \/ Crash

\* Files, the event store and the controller answer.  A child need not end, a
\* script need not either, and nobody has to resume what is paused.
Fairness ==
  WF_vars(StopReturns \/ \E c \in Calls : Continues(c))

Spec == Init /\ [][Next]_vars /\ Fairness

-----------------------------------------------------------------------------
(* Properties.                                                             *)

\* "budget.maxConcurrency": the slots that are counted are those calls hold,
\* through queues, pauses, errors and stops, and never too many.
SlotsAccounted == runningCalls = Cardinality(Holding) /\ runningCalls <= MaxConcurrency

\* No free slot is forgotten: as long as calls wait, each free one has a woken
\* call on its way to it.
NoLostWakeup ==
  Waiting # {} /\ ~stopped => Cardinality(Woken) >= MaxConcurrency - runningCalls

\* When stop() has returned, no child of the workflow works but those whose
\* spawn it could not see yet, and their calls go on to stop them.
StoppedChildrenEnd ==
  stopReturned => \A c \in Calls :
    child[c] = "working" => call[c] \in {"spawning", "linking", "stopping"}

\* "Completed workflow calls are not replayed after resume": what an execution
\* answered, no later one gives to a child again, whatever crashed between.
NotReplayed ==
  [][\A c \in Calls : Key[c] \in kept => attempt'[c] <= attempt[c]]_vars

\* The queue drains: unless the workflow is paused or stopped, or its children
\* do not end, every call that waits for a slot gets one.
QueueDrains ==
  []<>(\A c \in Calls : child[c] # "working") =>
    (Waiting # {} ~> Waiting = {} \/ paused \/ stopped)

-----------------------------------------------------------------------------
(* A statement the code does not keep.                                     *)

\* "Hard total calls per run": a run never begins more calls than its budget
\* has.  Calls are looked at against it two awaits before they are counted.
CallsWithinBudget == callCount <= MaxCalls

=============================================================================
