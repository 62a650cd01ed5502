# Verification of the zyra agent fleet and server

TLA+ modules, TLC configurations and TLAPS proofs for the parts of zyra that
coordinate agents. Paths are relative to the root of the repository; `agents/`,
`workflows/` and `agent-server/` stand for the directories of that name under `src/`.

## 1. Inventory

zyra is a coding agent: a terminal program and SDK, an agent server that owns the
sessions of several clients (terminal, desktop, mobile, browser), and, inside each
root session, a *fleet* of child agents with a durable event log. The logic of its own
that is concurrent or must survive a crash is in these parts.

| part | state it keeps | operations | what is hard | what must hold |
| --- | --- | --- | --- | --- |
| Fleet event store (`agents/event-store.mjs`, `reducer.mjs`) | log, snapshot file, snapshot, sequence, append queue, snapshot chain, debounce timer | initialize/load, append, flush, the timer | crashes between and inside writes, gaps, replay, write order | every event folded once and in order; what was acknowledged is found again; snapshots never go back |
| Fleet controller (`agents/runtime/fleet-controller.mjs`) | queue, launching, active, follow-ups, hosts, waiters, executions | spawn, retry, resume, send, wait, stop, cancelAll, dispose, drain, execute | every operation is a chain of awaits; state is keyed by run id | session limit; cancelled work never starts; stop stops; nothing leaks; waiters are resolved |
| Cancellation tree (`cancellation-tree.mjs`) | nodes with one-shot controllers, children, cleanups | create, cancel, remove, dispose | nodes are replaced and handed over while cancelled | a cancellation reaches all that was below |
| Workspace guard (`workspace-guard.mjs`) | write locks by run | acquire (polls, times out), release | released by run id | overlapping scopes exclude each other |
| Runner and child session host (`agent-runner.mjs`, `child-session-host.mjs`) | session, heartbeat, turn count | run, send, abort | abort before, during and after a turn | no work after an abort, no heartbeat after the end |
| Workflow scheduler and runtime (`workflows/scheduler.mjs`, `runtime.mjs`) | concurrency gate, budgets, pause, active runs | agent, pause, resume, stop, restart | checks before awaits, restart over an old execution | budgets hold; stop is final; one execution per run |
| Thread mailbox, coordinator, delivery (`agent-server/thread-mailbox.mjs`, `thread-coordinator.mjs`, `threads/delivery.mjs`) | durable receipts, deliveries in progress, entries of the recipient | enqueue, pump, deliver, receive | restart between delivery and receipt, concurrent pumps | each message enters the recipient's session exactly once |
| Owned session (`agent-server/server.mjs`) | turn owner, pending requests, continuation epoch, replay window | prompt, abort, respond, attach, stop | several clients, late answers | one turn owner; an aborted turn publishes nothing more |
| Approval and user-input responses | remembered decisions (at most 128) | respond | forgetting, retries of a client | one decision per request |
| Event journal, replay window | journal file, last events by number and bytes | append, replay, compact | transient events are not journaled | a client never takes one event for another |
| Canonical ledger, attention, worker pool, client transport, memory jobs | operation ids, leases, queue, reconnects, job rows | idempotent appends, leases, retries | duplicates, expiry | idempotence, one owner per lease |

The controller calls the store for every transition and waits for the append; the
store's snapshot is what `status`, `wait`, `retry` and `stop` read. The controller owns
the tree and the guard and drives runner and host; hosts call back (linked, heartbeat,
activity). The workflow scheduler is a client of `spawn`, `wait` and `stop`. The thread
coordinator reaches fleets through the worker of an owned session: a message that finds the
session free owns its turn like a prompt, one that does not is queued in the agent's run.

The rest is data transformation (definitions, routing, capabilities, workflow
compiler), user interface (terminal, desktop, mobile), platform input and output
(worktrees, transcripts, browser extension, native helper) or adapted third-party code
(`src/runtime/`). `PROJECT.json` lists every part with its status.

## 2. Modules

### FleetEventStore

Disk is `log` (lines that parse), `tail` (how the file ends: cleanly, inside a line, or
with a whole line that lacks its newline) and `snap`. Memory is `snapshot`, `sequence`,
the running append `op` named by its next await, `timer` and `chain` (snapshot writes
captured and not yet done). A snapshot is abstracted to the events it applied, those that
wait behind a gap, and its last sequence number; what an event type patches is left out.

| action | code |
| --- | --- |
| `Initialize`, `InitializeFails`, `InitializeFresh` | `initialize()` with the outcomes of `load()` |
| `BeginAppend`, `BeginAppendThrows` | `append()` up to `appendFile`; the sequence number is taken although building the event throws |
| `LineWritten` | the line is in the file, the event is reduced, or the reduction throws |
| `RecordWritten` | the agent record is written; flush or debounce |
| `TimerFires`, `SnapshotWritten` | `scheduleSnapshot()`, `flushSnapshot()` and `atomicWrite()` |
| `Flush`, `Exit` | `dispose()` of the controller and the end of the process |
| `Crash` | at any await; of a line being written any part may be in the file |

The order of the random event ids (`localeCompare` in `bySequence`) is the constant
`UuidOrder`, any injective function. "unreducible" events are those whose patch throws in
`applyEventMutation`, which a result of more than 50 KiB does.

### CancellationTree

Operators on a tree value. A node object is a pair of an id and a number, because the code
compares nodes by identity (`spawn()` checks that the captured owner is still the node of
that id) and an abort is for ever. What `cancel()` walks, `Subtree`, is the least set that has the
node and the children of its members; `OwnersOf` in `AgentFleet` is a least set too.

### AgentFleet

An action is the code between two awaits of one async call. An actor is an execution
attempt, a follow-up of a completed child, or a call of `stop()`. The store is its queue of
appends: `Reduce` makes the first visible in the snapshot, the actor that waits for it goes
on later, and the next append starts only then; heartbeats are appended without anyone
waiting. `drain()` runs synchronously, so it is the operator `Drain` in every action whose
code ends with it, together with the first step of each launched `execute()`.

| actions | code |
| --- | --- |
| `Spawn`, `Retry`, `CatalogReady`, `Created`, `Attach` | `spawn()`: owner captured, catalog refreshed, `agent.created` appended, old node cancelled, new node made, item queued |
| `Started` ... `Reported`, `Unwound` | `execute()` with `AgentRunner.run()` and `ChildSessionHost.run()`, `finally` last |
| `Heartbeat` | the runner's interval |
| `Send`, `FollowUp...` | `send()` to a completed child, `sendCompleted()` |
| `Wait` | `wait()` and the promise of a foreground spawn |
| `Stop`, `StopCancels`, `StopCleansUp`, `StopReported` | `stop()`, children first |
| `CancelAll`, `CancelAllStops`, `CancelAllReturns`, `Dispose`, `Disposed` | `cancelAll()`, `dispose()` |

Choices made: "failed" stands for "cancelled" too, as the code treats the two alike except in
what it shows; the usage event is part of the append of the result; the control lease is only
the await of its revocation ("revoking"), and it is always awaited; a refresh of the catalog is
always an await. `session.abort()` returns when the session is idle (`agent-session.ts:1574`),
which is `HostsIdle`. A turn ends in any way at any time; a turn whose signal was aborted ends
only as a failure.

A follow-up keeps the host it was given (`followUp[r].host`). `DisposeHost` is the disposal of the
completed host by `spawn()`, and by `stop()` while the follow-up is not among `followUps` yet, as when
it polls for a slot. What such a follow-up does afterwards fails twice: `host.send()` throws, and in
the catch `host.resultSnapshot()` does (`fleet-controller.mjs:398`, `child-session-host.mjs:162`), so
that only the `finally` is left of the error path (`FollowUpAbandoned`; section 4 says what follows).

`CallersWait` is a discipline of callers, which the passing runs and some theorems assume and the
controller does not enforce: `send()` only to a run with no spawn, execution or follow-up under way
(`Resting`), `retry()` only when no `stop()` of it is under way either (`Unoccupied`).
`interruptAndSend()` waits for its own stop and for the execution or follow-up
(`fleet-controller.mjs:453-456`); `chatPrompt()` looks at `active`, `launching` and `followUps`
(531-533), which is less; the tools, the slash command and the agent manager look at nothing but the
status. `fleet_retry_race` shows what happens to callers that do not keep it.

### WorkflowScheduler

One run of a workflow, between the script, which calls `agent()`, and the fleet, which runs the
children. `call[c]` is the await at which a call of the script is; `runningCalls` and the other
counters are those of the code; `child[c]` is what the fleet does for the call. The module builds
on what `AgentFleet` shows of the fleet: `spawn()` and `stop()` return, and a registered child that
is stopped ends.

| actions | code |
| --- | --- |
| `Requests`, `Wakes`, `GoesOn` | `acquireConcurrency()`, `waitUntilRunnable()`, `assertCanSchedule()` |
| `Looks`, `Announced`, `Stored`, `Reported`, `Failed` | `scheduleAgent()`: the cache, the events, the release of the slot |
| `Registers`, `SpawnSettles`, `Linked`, `StopsLate`, `ChildEnds`, `Watched` | `runAgentAttempt()`, three times at most when a result does not fit its schema |
| `Pause`, `Resume`, `Stop`, `ChildStopped`, `StopReturns` | the scheduler's and the runtime's operations of these names |
| `SandboxMoves`, `ExecutesAgain`, `Crash` | `executeRun()`, `resume()` and `restart()`, and the end of the process |

Choices made: the waiters of the gate are a set, since a waiter that loses its slot again goes to
the end of the queue; tokens and cost are one Boolean `spent`; a call whose fingerprint is in
`cache` takes its value; the order of the call events in the log is that of `FleetEventStore`.

### ExactlyOnceDelivery and ThreadMailbox

`ExactlyOnceDelivery` is the promise to the sender of a thread message, in three variables: what was
sent, what the receipt says, how often the message is in the recipient's transcript. It enters at
most once; "delivered" means that it is there for good; until a receipt is settled a crash may take
the message out of a transcript that is not written yet; "failed" promises nothing.

`ThreadMailbox` is the code: receipts, pumps that stop at each lookup (`at`, `found`), deliveries
that are on the pipe, before or in a turn, queued, or answered (`delivery`), the turn and the queue
of each recipient, and the entries of its transcript. `Promise` maps `receipt` to `status` and
`entries` to `entered`; the property `KeepsPromise` is the abstract specification.

| actions | code |
| --- | --- |
| `SendMessage`, `Answered` | `enqueue()` and `deliver()` of the mailbox with `save()` and `prune()` |
| `PumpDelivers`, `CatalogAnswers`, `CatalogFails` | `pump()` after `findRecipient()` |
| `Receives`, `TimesOut` | `deliverThreadMessage()` in the worker |
| `PromptEnters`, `UserPrompts`, `Replies`, `TakesFollowUp`, `TurnEnds`, `ClearsQueue` | the session of the model runtime, its queue and `_persist()` |
| `Attach`, `FleetChanges` | the server's calls of `pump()` |
| `WorkerEnds`, `ServerCrash` | the exit of a worker; the end of the server, whose workers end with it |

A transcript is written to its file when it has its first assistant message
(`session-manager.ts:1019`); what a fresh transcript holds before is lost with the worker
(`Unwritten`). A recipient that is an agent of a fleet is not told apart from a chat.

### OwnedSession

Whose turn it is in one session of the server. `context` and `latest` are `activeRequestContext` and
`latestTurn`, `foreground` and `epoch` the counters of those names; `stage` says where a request of
a client is in `request()`, `stop` the same of a Stop. `pipe` holds the lines of the worker that the
server has not handled, in order; `work` is the worker's part of a request. The other direction of
the pipe has no delay.

| actions | code |
| --- | --- |
| `Prompt`, `Answer`, `Mail`, `Stop` | `request()` up to the write to the worker |
| `HandlesStart`, `HandlesEnd`, `HandlesRetryEnd`, `HandlesResponse`, `HandlesAck` | `handleLine()` and `publish()` |
| `Continues`, `Returns`, `StopReturns` | the continuations of `request()` and `continueUserInput()` |
| `Begins`, `RunEnds`, `Retries`, `Settles`, `Finishes`, `Acks` | `runZyraPrompt()`, the agent session's runs, `handleAbort()` |
| `WorkerExits` | the exit of the worker process |

Turns of requests bear the request's name; turns the server mints for a run nobody asked for
("agent-turn-") are numbers. Four history variables remember what is over, which continuations a
Stop silenced, whether a run overlaps another request (`overlap`), and whether the context was left
behind by the stop of an unowned run (`orphaned`); the last two delimit what section 4 describes.

### Modules for checking and proving

The modules named `..._proofs` are described in section 5: two for the store
(`FleetEventStore_proofs`, `FleetEventStoreRecovery_proofs`), three for the fleet, each on top of
the one before (`AgentFleet_proofs`, `AgentFleetAdmission_proofs`, `AgentFleetCancellation_proofs`),
and one each for the scheduler, the mailbox and the session. The modules named `MC...` only give values to
constants. The definitions marked *Mutant* in the modules are faulty variants of the definition
that follows; no specification uses them.

## 3. Runs

| run | states | what it shows |
| --- | --- | --- |
| `store_recovery` | about 150 000 | all properties of the store with crashes, gaps, unreducible events and torn lines |
| `store_poison`, `store_tail` | counterexamples | findings 1 and 2 |
| `fleet_tree` | about 23 000 | parent and child on one slot, `cancelAll` and `dispose`; these and their stops return, waits and the queue end |
| `fleet_writers` | about 940 000 | a parent and a child that write one scope: retry, follow-up, stop, heartbeat |
| `fleet_wait`, `fleet_follow_up`, `fleet_retry_race` | counterexamples | findings 3 to 5 |
| `workflow_scheduler` | about 1 290 000 | the gate, stop and the cache over two executions |
| `workflow_calls` | counterexample | finding 6 |
| `thread_delivery` | about 130 000 | the mailbox keeps its promise through pumps, crashes and timeouts |
| `owned_session` | about 640 000 | one owner of the turn, final outcomes, Stop, and nothing left behind |

Properties of the store: `ExactlyOnceInOrder` (every snapshot is the fold of one event for each
sequence number up to its last), `FlushedSurvives` and `AckedRecoverable` (acknowledged events
are found again), `SequenceNeverReused`, `SnapshotNeverRegresses`, `AppendSettles`,
`ProgressPersists`. Three of them hold *unless a line was glued* to an unterminated one: the
condition `~glued` is exactly finding 2, and without it they fail.

Properties of the fleet: `CapacityRespected` counts what really executes, not the sets the code
counts; `NoWorkUnderCancelledOwner` follows the owners captured by the spawns, not the tree, so
that a hand-over cannot hide a cancellation; `StopMeansStopped` remembers what was attached when
`stop()` was called, on the run and on everything below it; `WriteExclusion`, `NothingLeaks`,
`DisposedIsQuiet`; `QuiescentIsTerminal`, which excepts a run whose follow-up found its host disposed
(section 4); and the liveness properties.

Properties of the scheduler: `SlotsAccounted` (the counter is what the calls hold), `NoLostWakeup`
(as long as calls wait, every free slot has a woken call on its way), `StoppedChildrenEnd`,
`NotReplayed` (over executions), `QueueDrains`; `CallsWithinBudget` is what the documents say of the
budget and the code does not keep.

Properties of the mailbox: `KeepsPromise` is the refinement; `AtMostOnce` its main consequence;
`SettledAfterTheTurn`; and the liveness of the pumps (`ReachesItsRecipient`) and deliveries
(`DeliveriesEnd`).

Properties of the session: `OneOwnerAtATime`, `OutcomesAreFinal`, `StoppedStaysStopped`; `RestIsRest`
(when nothing is in flight no turn looks as if it ran and nobody waits), `RunsAreVisible` (an agent
that works has a running turn a Stop can name), `WaitersEnd`.

### Bounds

Store: four events (the first is `fleet.created`, so three appends follow), five sequence numbers
(one more than events, for a gap), two crashes (a crash during the recovery from a crash, and two
fleets in one log). Two ids that compare against the order of creation are among any three of
`<<2, 4, 1, 3>>`. Fleet: a parent with a child is the smallest tree with a hand-over; two runs are
the smallest conflict; one child slot makes every launch depend on a release; two attempts and one
retry make an id have two node objects; one `cancelAll` makes a second root, `dispose` follows it.
`fleet_tree` has one attempt of each run, because it checks liveness too: what it shows of the session
limit is the hand-over of the slot from the parent at work to the waiting child. A launch next to a
retry or a follow-up on a single slot is left to the theorem `CapacityIsRespected`, a dispose during a
retry to `DisposedStaysQuiet`. In `fleet_writers` the stop may be of the parent with the
child below it, or of the child, while either waits for the lock of the other.
At most one `stop()` per run and caller and one `cancelAll()` or `dispose()` at a time. `CHECK_DEADLOCK`
is off because the bounded calls run out, and an idle or disposed fleet, or a store that failed to
initialize, really rests.

Scheduler: three calls on two slots are the smallest instance with a waiter, a newcomer and a
holder; two of the calls have one fingerprint; `MaxCalls = 1` is below the concurrency, as
`workflow_calls` needs it; three requests allow one call its three attempts, or three calls one each; two
executions. One `stop()` per execution. A run that is over rests.

Mailbox: two peers' messages compete for one chat, a third comes from a supporting agent; the chat's
transcript is fresh, so that it can be lost; two pumps; one failure; `MaxCompleted = 2` and
`MaxQueued = 2` are reached. A message that was forgotten is not sent again while its recipient
still has it queued, and a supporting agent sends only to a recipient that has replied, because a
turn of that recipient started it. Users prompt for ever, so there is no deadlock.

Session: one prompt, one answer and one message (each can own the turn the others wait for), one
Stop, two agent runs (a run and its continuation, or two owners). A worker that exited is restarted
by the next request, but nothing connects it (`bridge-worker.mjs:69`): such requests fail.

### Fairness

Store: weak fairness of `LineWritten`, `RecordWritten`, `TimerFires` and `SnapshotWritten`: file
operations settle and timers fire while the process lives. Fleet: weak fairness of `Progress`, the
disjunction of all continuations: the event loop does not rest while a callback is due. Nothing is
assumed of callers. `fleet_tree`, which checks liveness, has neither retries (for their size) nor
follow-ups (finding 4); the stops whose return it shows are those of `cancelAll()` and `dispose()`.

Scheduler: weak fairness of the disjunction of its continuations and of `StopReturns`: files, the
event store and the controller answer. Children and scripts need not end (`QueueDrains` assumes in
its own statement that again and again no child works), and nobody has to resume what is paused.
Mailbox: weak fairness of each pump's step, of the worker's receipt of a request, of the answer, of
the ten-minute timer, and of the preparation of a turn, which enters or fails. Turns need not end
or take what is queued. Session: weak fairness of the disjunction of the server's steps, the
worker's continuations and acknowledgements; agent runs need not end, and `WaitersEnd` says so.

## 4. Where code and documentation differ

1. `store_poison` (`event-store.mjs:67`): an event that is written but cannot be reduced, or a
   sequence number taken in vain, blocks every later event; terminal states are acknowledged but
   not applied, and the next `initialize()` may reject.
2. `store_tail` (`event-store.mjs:66`): the first append after a crash inside a line is written
   onto the torn line and is lost at the next restart.
3. `fleet_retry_race` (`fleet-controller.mjs:688`): `retry()` after `stop()` overlaps the old
   execution; bookkeeping by run id then lets two writers of one scope work at once.
4. `fleet_wait` (`fleet-controller.mjs:424`): a `wait()` during a follow-up that succeeds is never
   resolved.
5. `fleet_follow_up` (`fleet-controller.mjs:394`): a follow-up prompts a session whose run was
   stopped while its running state was appended.
6. `workflow_calls` (`scheduler.mjs:94`): calls are compared with their budget two awaits before they
   are counted, so concurrent calls exceed the hard limit. `OverrunBounded` proves by how much at
   most: less than the concurrency.

`PROJECT.json` quotes the statements these contradict. Met while modelling, without a run:

- Fleet. A follow-up to a completed run waits for a slot; the run is stopped, which disposes the host
  and removes the node. The follow-up then finds no signal and a free slot, appends "running", and its
  error path throws before `agent.failed` (`fleet-controller.mjs:398`): the run stays running, and who
  waits for it waits, until it is stopped again. `docs/implementations/subagents-workflows.md:797`
  says "A completed agent is never represented as currently running merely because stale child task
  records remain." `QuiescentIsTerminal` excepts exactly this case through `followUp[r].abandoned`;
  without the exception it fails in `fleet_writers`.
- Mailbox. `thread-mailbox.mjs:8` says that a queued message survives worker restarts; one whose
  delivery is in progress when the worker exits becomes "failed", and nobody sends it again. A
  "failed" receipt after the ten-minute timeout may still be followed by the message's entry. A
  lookup in the catalog that rejects ends the pump before the receipts behind it
  (`thread-coordinator.mjs:92`); the next call of `pump()` takes them up.
- Scheduler. The code of a budget error does not pass the sandbox, so that such runs
  end "failed", not "partial". A `stop()` while `workflow.started` is appended does not abort the
  sandbox, which then runs to its end without being able to schedule. `restart()` over an execution
  that still unwinds loses the entry of the new one (`runtime.mjs:130`). Calls of a script that has
  ended go on.
- Session. A peer's message handed over while the request of a prompt is in flight starts a run whose
  turn is recorded as completed by the response of the prompt (`server.mjs:1299`); an acknowledgement
  of Stop that comes when the next run has begun under the same context does the same. A Stop between
  two attempts of a run without an owner ends the turn but leaves `activeRequestContext`: later
  prompts wait for nobody (`server.mjs:1292`, `:1544`). `RunsAreVisible` and `RestIsRest` except
  exactly these cases through `overlap` and `orphaned`; without the exceptions they fail. When the
  worker exits, those who wait behind a turn without an owner are not released.

## 5. Proofs

`FleetEventStore_proofs` proves, for every number of events, sequence numbers and crashes, every
order of the ids and every subset of the kinds of append:

- `TypeCorrect`: `Spec => []TypeOK`;
- `ExactlyOnce`: `Spec => []ExactlyOnceInOrder`.

They rest on the assumptions `BoundsAssumption` and `UuidAssumption` of the module, which TLC
evaluates. `ExactlyOnceInOrder` is not inductive: two events of one sequence number and one id
could both survive `bySequence`, which keeps the least id. The inductive invariant `IInv` adds
`OneEventPerId`: wherever an event is found, in the log, in its tail, in the running append or in
a snapshot, its id names that event only, and was drawn.

The argument: `FrontierProperty` says where the loop of `reduceFleetEvents` stops (a least number
exists because the library's strict subset ordering of finite sets is well founded);
`ReduceExact` says that one reduction keeps a snapshot exact. `SnapshotsOrigin` shows that every
snapshot of the next state is one of this state, an empty one, or the reduction of such a one by
written events, with one step per action, and `WrittenOrigin` that a step writes at most one new
event, with a new id. `OneEventStep` and `ExactStep` follow from these two without looking at the
actions again; `TypeStep` has one step per action.

`FleetEventStoreRecovery_proofs` proves the other safety properties of the store from the same
assumptions: `AcknowledgedIsRecoverable`, `FlushedIsKept`, `NumbersAreNew`, `SnapshotsOnlyAdvance`.
Its invariant `RecoveryInv` adds `Durable` to `IInv`: as long as no line was glued, acknowledged
events are lines of the log (`Recorded`), one number of a fleet has one event wherever a restart
could read it, and the next number is above all of them while the file ends with a newline
(`Numbered`), a snapshot that applied nothing holds nothing (`Rooted`), flushed events are in every
snapshot that can still reach the disk (`Kept`), and the snapshots on their way to the disk are in
the order of their sequence numbers (`Ordered`, glued lines or not). `~glued` is part of the
properties and not an assumption; finding 2 is what happens without it.

The fleet is proved for any runs, parents, isolation, conflicts and bounds, from `FleetAssumption`:
conflicts are symmetric (`findConflicts` compares two scopes), the null parent and the ids of roots
are no runs, there is a slot and an attempt at least. Callers are restricted only where it says so.

- `AgentFleet_proofs`: `FleetTypeCorrect`, `NothingIsLeaked`, `RunsEnd` (`QuiescentIsTerminal`) and
  `DisposedStaysQuiet`, for all callers; `RunsEnd` with the exception of section 4.
  `DrainEffect` says what `drain()` does: it launches a first part of the queue, and nothing beyond
  the capacity. `StepKinds` puts the steps into a few kinds (an attempt moves, is attached, unwinds;
  a follow-up moves or ends; a stop takes an item; the rest), by which the later proofs go. The
  invariant `Kept`: items of the queue are queued attempts, each once; a run that takes a slot has an
  attempt that executes, or a follow-up past its admission; a lock has a holder that is still to
  release it; nothing of this is left after `dispose()`.
  `RunsEnd` needs an invariant over the events that wait to be appended, because a heartbeat, the
  report of a stop or the announcement of a retry may be reduced long after its author went on. Every
  step is one of this queue (`QueueStep`): its first append is over or not, the others stay in order,
  and what is added is said by who moves. `AppendsOK`: an append in the queue is the one its actor
  waits for, the end reported by a stop, or a heartbeat of an attempt that is at work or whose end
  follows it. `ReportsOK`: a run that is queued, starting or running has its end in the queue, or an
  attempt, a follow-up or a stop that still owes it, or it was abandoned by a follow-up without a host.
  When nothing goes on nobody owes anything. No
  restriction on callers is needed, since what one attempt appends does not depend on the run having
  one attempt only.
- `AgentFleetAdmission_proofs`: `CapacityIsRespected`, `WritersExclude` and `WritesAreSerialized`, only
  for callers that keep the discipline (`ASSUME CallersWait`, section 2; without it executions of one
  run overlap, which is finding 3, and these theorems say nothing of them). `Orderly` adds that a run has
  one live attempt, or one follow-up after all attempts (`Solo`), that what executes is in a set the
  code counts (`Counted`), and that holders of locks are those the guard knows (`Exclusive`). The
  capacity follows by mapping executing attempts one to one into the runs counted.
  `WritesAreSerialized` proves `SharedWritesSerialized`, the statement that `fleet_retry_race` refutes
  for callers without the discipline: a writer at work holds its lock (`Equipped`), and locks exclude
  each other. So the documented serialization fails only through retries over an old execution.
- `AgentFleetCancellation_proofs`: `OldChildrenStayIdle` (`NoWorkUnderCancelledOwner`) and `StopsStop`
  (`StopMeansStopped`), for the same callers only: of a retry or a follow-up against a `stop()` under
  way, which the code allows, nothing is shown. `Tracked` adds: a node is that of the latest attached
  attempt, and an attempt that can start work has captured the signal of its own node, which is still
  there (`NodesOK`); a stop that emptied the queue keeps its run at rest (`WaitsOK`); what was attached
  below a run when its stop was called is its own node, or is cancelled or gone and not at work for
  good (`Finished`), or is left to the stop of a child that is still waited for (`Left`, `BeforeOK`),
  because a node may be handed over to somebody else before the stop gets to it; the stops below a
  stop are those of children it waits for (`StopsOK`); owners are attempts that were attached or roots (`OwnedOK`); and
  `OwnersOK`: the node of an attempt is below those of its captured owners that are in the tree,
  unless it is aborted, and aborted when one of them is. `OwnersOK` is what the property needs at the
  moment an abort comes: the abort reaches what is *below* a node, the property speaks of *captured
  owners*. It is kept because `remove()` keeps what is below the other nodes (`RemoveKeepsSubtree`),
  `create()` puts a node below all its parent is below of (`CreateKeepsSubtree`), and `spawn()`
  makes an aborted orphan when the captured object is gone.

Before they were proved, the named parts of these invariants were checked with TLC on instances like
those of `fleet_tree` and `fleet_writers`, `AppendsOK` and `ReportsOK` also on those of `fleet_follow_up` and
`fleet_retry_race` (where callers do not wait).

`WorkflowScheduler_proofs` proves the safety properties that hold of the scheduler, and the bound on
finding 6, for every set of calls, fingerprints, concurrency, budgets and executions, from
`WorkflowAssumption`. Its invariant adds
that the calls of a slot, of a queue and of an attempt are where the counters say, that a child
belongs to a call in an attempt, and that what was answered is cached; `NoLostWakeup` is inductive
with `SlotsAccounted`, by counting the woken and the holding calls before and after each step.

`ThreadMailbox_proofs` proves `TypeCorrect`, `DeliveredOnce`, `ReceiptsFollowTurns` and `Implements`
(the refinement, step by step), from `MailboxAssumption`; `PromiseSuffices` shows that the abstract
specification alone implies `AtMostOnce`. The invariant says where a message can be at once: in the
transcript, in a delivery, in the queue of its recipient or in a turn, and that a delivery and a
queued receipt belong together.

`OwnedSession_proofs` proves all safety properties of the session, from `SessionAssumption`:
`TypeCorrect`, `OneOwner`, `FinalOutcomes`, `StopHolds`, `Rests` (`RestIsRest`) and `Shows`
(`RunsAreVisible`). The first invariant relates the stage of a request to `owning` and `foreground`
(`Owners`), keeps every recorded or current turn id one that was made (`Named`), and the epochs of
silenced requests below the current one (`Early`).

The second, `RInv`, is about the lines in the pipe (`Foreseen`: `Spec => []RInv`), and is what the last
two theorems need: who waits waits for a busy turn (`Awaited`); without a context no turn looks as if
it ran (`Idle`); a request has one response line at most, after its work, and is still waiting for it
(`Answered`); one run is active (`OneRun`), beside no other owner and no Stop under way, unless it
overlaps a request (`Beside`); a context that is held and a start line on its way are followed by an
end line, by the run of the moment, or by the return of the owner (`Closed`); and the run of the
moment has a start that no end of a turn follows (`Shown`). `Closed` and `Shown` are stated over the
order of the lines, which is where the hazards are: an end that is handled after the next start, a
response behind the start of the next run, a Stop acknowledged in between. The cases they except,
`orphaned`, `exited` and `overlap`, are those of section 4.

Every invariant and action property that a run finds to hold is the property of a theorem. Only
model-checked: everything about liveness
(`AppendSettles`, `ProgressPersists`, `StopsReturn`, `CancelReturns`, `WaitersResolve`, `QueueDrains` of
fleet and scheduler, `ReachesItsRecipient`, `DeliveriesEnd`, `WaitersEnd`), which is out of the
prover's reach, as are `ENABLED` and inductions over data.

## 6. Not modelled

Store and fleet: the caps of 2048 applied ids and waiting events; `recover()` and the restored
ancestry; steering of a running child and context-only delivery; delegation of leases; routing,
capabilities, depth limits; failures of the store's file operations while the process lives (a
rejected append settles as `BeginAppendThrows` does, but the record and snapshot writes are taken to
succeed); concurrent `cancelAll()` calls.

Workflows: phase events, an execution that starts while the one before unwinds, a second `stop()`
of an execution, the status events of the runtime, the compiler and the messages of the sandbox. The
events of a call are taken to be appended; what throws before a call is counted (the catalog, the
choice of a model, the cache) is an outcome of `Looks`.

Threads: starting agents, listing and status by the tool, recipients in a fleet with their own
statuses, several projects, receipts that do not parse.

Session: attachment and replay of events, the idle stop (which does not look at turns without an
owner), revocation and dispose, the transport of harness models (an await before the check for a
busy session, `server.mjs:1222`), the early `_emitAgentSettled` of a prompt that is refused because
another one is under way (`Begins` lets the refused prompt return only), approvals and their bounded memory, the set of pending questions,
control routing, presence. The outcomes "error" and "interrupted" of a request that failed are not
told apart.

The rest of the table in section 1 (journal and replay window, ledger, attention, worker pool, client
transport, memory jobs) is not modelled yet; the parts named below the table are user interface,
platform input and output, data transformation or third-party code, whose states and interleavings
the core above does not depend on beyond what the modules take from them.

## 7. Plan

What remains worth doing, in this order.

1. `EventJournal`: sequence numbers seen by a client across a restart of the server.
2. A composition of the store's crash with the fleet's `recover()`, and of overlapping executions of
   a workflow.

## 8. Running

    tlc -workers 2 -config FleetEventStore.cfg MCFleetEventStore
    tlc -workers 2 -config AgentFleetTree.cfg MCAgentFleet
    tlc -workers 2 -config WorkflowScheduler.cfg MCWorkflowScheduler
    tlc -workers 2 -config ThreadMailbox.cfg MCThreadMailbox
    tlc -workers 2 -config OwnedSession.cfg MCOwnedSession
    tlapm FleetEventStore_proofs.tla

The other runs are named in `PROJECT.json`; the proof modules are checked in the same way. The run
of the scheduler takes about three minutes, the proofs some minutes per module.
