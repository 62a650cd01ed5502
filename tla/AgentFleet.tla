------------------------------ MODULE AgentFleet ------------------------------
(***************************************************************************)
(* The controller of one agent fleet: src/agents/runtime/                  *)
(* fleet-controller.mjs with the parts it drives, agent-runner.mjs,        *)
(* child-session-host.mjs, workspace-guard.mjs and cancellation-tree.mjs.  *)
(*                                                                         *)
(* Everything runs on one thread; the processes are async calls that       *)
(* interleave at their awaits, so an action is the code between two        *)
(* awaits.  An actor is named by a record: an execution attempt, a         *)
(* follow-up sent to a completed child, or one call of stop().  An awaited *)
(* append is visible in the snapshot (Reduce) before the actor that waits  *)
(* for it goes on, and the next append starts after that.                  *)
(***************************************************************************)
EXTENDS CancellationTree, Integers, Sequences

CONSTANTS Runs,          \* agentRunIds
          ParentOf,      \* parentAgentRunId of each run, NoId for the root agent's
          Isolation,     \* "read-only", "shared" (a writer) or "worktree"
          Conflicts,     \* pairs of runs whose write scopes overlap
          MaxSessions,   \* maxSessions, the root session included
          MaxAttempts,   \* bound: attempts of one run
          MaxRetries, MaxStops, MaxCancels, MaxSends, MaxHeartbeats,   \* bounds: calls
          MayDispose,    \* whether the fleet is disposed in this instance
          CallersWait    \* the discipline of callers: no send() to a run that is not
                         \* Resting, no retry() of one that is not Unoccupied

RootId(g) == [root |-> g]
RootIds   == {RootId(g) : g \in 0..MaxCancels}
Attempts  == Runs \X (1..MaxAttempts)
Capacity  == MaxSessions - 1

ASSUME FleetAssumption ==
  /\ IsFiniteSet(Runs) /\ Runs \cap RootIds = {} /\ NoId \notin Runs \cup RootIds
  /\ ParentOf \in [Runs -> Runs \cup {NoId}]
  /\ Isolation \in [Runs -> {"read-only", "shared", "worktree"}]
  /\ \A c \in Conflicts : <<c[2], c[1]>> \in Conflicts
  /\ MaxSessions \in Nat \ {0, 1}
  /\ MaxAttempts \in Nat \ {0} /\ MaxRetries \in Nat /\ MaxStops \in Nat /\ MaxCancels \in Nat
  /\ MaxSends \in Nat /\ MaxHeartbeats \in Nat
  /\ MayDispose \in BOOLEAN /\ CallersWait \in BOOLEAN

Terminal == {"completed", "failed"}      \* "failed" stands for "cancelled" too
Statuses == {"absent", "queued", "starting", "running"} \cup Terminal

\* Where an attempt is; Executing is execute(), from launch to its finally.
Executing == {"starting", "isolating", "announcing", "opening", "linking",
              "working", "reporting", "failing", "revoking"}
Phases == {"none", "catalog", "creating", "replacing", "queued", "done"} \cup Executing
FollowUpPhases == {"none", "slot", "locking", "announcing", "working", "reporting", "failing"}

Exec(a)     == [run |-> a[1], n |-> a[2], from |-> a[1], via |-> "exec"]
FollowUp(r) == [run |-> r, n |-> 0, from |-> r, via |-> "send"]
NoOne(r)    == [run |-> r, n |-> 0, from |-> r, via |-> "nobody"]
\* stop(run), called by the user or by cancelAll for the run `from`, or by the
\* stop of a run above it.
StopIds     == [run : Runs, n : {0}, from : Runs, via : {"user", "all"}]
Actors      == {Exec(a) : a \in Attempts} \cup {FollowUp(r) : r \in Runs}
                 \cup {NoOne(r) : r \in Runs} \cup StopIds

VARIABLES
  status,         \* snapshot: agents[r].status
  appends,        \* the event store's queue of appends
  reduced,        \* the first of them is in the snapshot, its append() not settled
  phase,          \* of each attempt
  owner,          \* cancellationParentNode of each attempt
  signal,         \* the abort signal execute() passed on, as a node object's number
  lock,           \* who has a lock to release: attempts, <<r, 0>> for a follow-up
  queue, launching, active, followUps, completedHosts,   \* as in the code
  locks,          \* WorkspaceGuard.locks, by run
  tree, root,     \* CancellationTree.nodes and cancellationRootId
  aborted,        \* node objects whose controller was aborted
  linked,         \* attempts whose host.abort is a cleanup of their run's node
  waiters,        \* runs with an unresolved resultPromise
  followUp,       \* of each run: phase, the attempt whose host is used (0: disposed),
                  \* and whether one was left "running" that nobody ends any more
  stop,           \* calls of stop()
  cancelling,     \* cancelAll() or dispose()
  disposed,
  stops, sends, heartbeats    \* counters of the bounded calls

store     == <<status, appends, reduced>>
attempts  == <<phase, owner, signal>>
admission == <<queue, launching, active, followUps>>
guard     == <<lock, locks>>
ownership == <<tree, root, aborted, linked>>
counters  == <<stops, sends, heartbeats>>
calls     == <<stop, cancelling, disposed>>
vars == <<store, attempts, admission, guard, ownership, completedHosts, waiters,
          followUp, calls, counters>>

-----------------------------------------------------------------------------
(* Helpers                                                                  *)

Begun(r)  == {k \in 1..MaxAttempts : phase[<<r, k>>] # "none"}
Event(actor, st) == [by |-> actor, run |-> actor.run, status |-> st]
Settled(actor)   == reduced /\ Head(appends).by = actor

\* throwIfCancelled and every lookup of a signal go by the id.
SignalAborted(r) == Has(tree, r) /\ Object(tree, r) \in aborted
CapturedAborted(a) == <<a[1], signal[a]>> \in aborted

\* Mutant: a session that works is not counted.
SlotsLaunching(l, act, fu) == Cardinality(l) + Cardinality(fu)

Slots(l, act, fu) == Cardinality(l) + Cardinality({r \in Runs : act[r] # 0}) + Cardinality(fu)

\* Mutant: drain() goes on after dispose().
LaunchableDisposed(q, l, act, fu) ==
  {m \in 1..Len(q) :
     \A i \in 1..m : Slots(l \cup {q[j][1] : j \in 1..(i - 1)}, act, fu) < Capacity}

\* The queued items drain() launches one after the other.
Launchable(q, l, act, fu) ==
  {m \in 1..Len(q) :
     /\ ~disposed
     /\ \A i \in 1..m : Slots(l \cup {q[j][1] : j \in 1..(i - 1)}, act, fu) < Capacity}

\* What a caller that ends with drain() leaves behind: each launched execute()
\* runs to its first append, "failed" if its signal is aborted already.
Drain(q, l, act, fu, ph, ap) ==
  LET n == Cardinality(Launchable(q, l, act, fu))
      launched == {q[i] : i \in 1..n}
      first(a) == IF Has(tree', a[1]) /\ Object(tree', a[1]) \in aborted'
                    THEN "failing" ELSE "starting"
  IN  /\ queue' = SubSeq(q, n + 1, Len(q))
      /\ launching' = l \cup {a[1] : a \in launched}
      /\ active' = act
      /\ followUps' = fu
      /\ phase' = [a \in Attempts |-> IF a \in launched THEN first(a) ELSE ph[a]]
      /\ appends' = ap \o [i \in 1..n |->
           Event(Exec(q[i]), IF first(q[i]) = "failing" THEN "failed" ELSE "starting")]

\* The session of the child that host a[2] of run a[1] wraps is at work.
Busy(a) == \/ phase[a] = "working"
           \/ followUp[a[1]].phase = "working" /\ followUp[a[1]].host = a[2]

\* cancel() is through: session.abort() waits until the session is idle.
HostsIdle(ids) == \A a \in linked : a[1] \in ids => ~Busy(a)

LinkedWithout(r) == {a \in linked : a[1] # r}

\* host.dispose() of the completed host, before the caller appends "queued" or
\* "failed" for the run: a follow-up that has the host finds it closed.
DisposeHost(r) ==
  /\ completedHosts' = [completedHosts EXCEPT ![r] = 0]
  /\ followUp' = [followUp EXCEPT ![r].host = IF @ = completedHosts[r] THEN 0 ELSE @,
                                 ![r].abandoned = FALSE]

NoFollowUp == [phase |-> "none", host |-> 0, abandoned |-> FALSE]

\* No spawn, execution or follow-up of the run is under way, and no stop either.
Resting(r) ==
  /\ \A k \in 1..MaxAttempts : phase[<<r, k>>] \in {"none", "done"}
  /\ followUp[r].phase = "none"

Unoccupied(r) == Resting(r) /\ \A s \in StopIds : s.run = r => stop[s].phase = "idle"

Init ==
  /\ status = [r \in Runs |-> "absent"] /\ appends = <<>> /\ reduced = FALSE
  /\ phase = [a \in Attempts |-> "none"]
  /\ owner = [a \in Attempts |-> <<RootId(0), 1>>] /\ signal = [a \in Attempts |-> 0]
  /\ lock = {} /\ locks = {}
  /\ queue = <<>> /\ launching = {} /\ active = [r \in Runs |-> 0] /\ followUps = {}
  /\ completedHosts = [r \in Runs |-> 0]
  /\ root = 0 /\ aborted = {} /\ linked = {}
  /\ tree = [id \in Runs \cup RootIds |->
               IF id = RootId(0) THEN [n |-> 1, up |-> NoId] ELSE Absent]
  /\ waiters = {}
  /\ followUp = [r \in Runs |-> NoFollowUp]
  /\ stop = [s \in StopIds |->
               [phase |-> "idle", kids |-> {}, wasQueued |-> FALSE, before |-> {}]]
  /\ cancelling = [phase |-> "idle", root |-> 0, runs |-> {}]
  /\ disposed = FALSE
  /\ stops = 0 /\ sends = 0 /\ heartbeats = 0

\* Mutant: a patch without a status overwrites it (no definedEntries).
ReduceUndefined ==
  /\ appends # <<>> /\ ~reduced
  /\ LET e == Head(appends)
     IN  /\ status' = [status EXCEPT ![e.run] = e.status]
         /\ reduced' = (e.by.via # "nobody")
         /\ appends' = IF e.by.via # "nobody" THEN appends ELSE Tail(appends)
  /\ UNCHANGED <<attempts, admission, guard, ownership, completedHosts, waiters,
                 followUp, calls, counters>>

\* append(): the event is in the snapshot.  An append nobody waits for is over.
Reduce ==
  /\ appends # <<>> /\ ~reduced
  /\ LET e == Head(appends)
     IN  /\ status' = IF e.status = "same" THEN status
                      ELSE [status EXCEPT ![e.run] = e.status]
         /\ reduced' = (e.by.via # "nobody")
         /\ appends' = IF e.by.via # "nobody" THEN appends ELSE Tail(appends)
  /\ UNCHANGED <<attempts, admission, guard, ownership, completedHosts, waiters,
                 followUp, calls, counters>>

-----------------------------------------------------------------------------
(* spawn() and retry()                                                      *)

ParentId(r) == IF ParentOf[r] = NoId THEN RootId(root) ELSE ParentOf[r]

\* spawn(): the guards, and the owner, are taken before the first await.
BeginSpawn(r, k) ==
  /\ ~disposed
  /\ Begun(r) = 1..(k - 1)
  /\ ParentOf[r] # NoId => status[ParentOf[r]] \in {"running", "completed"}
  /\ Has(tree, ParentId(r))
  /\ owner' = [owner EXCEPT ![<<r, k>>] = Object(tree, ParentId(r))]
  /\ phase' = [phase EXCEPT ![<<r, k>>] = "catalog"]
  /\ UNCHANGED <<store, signal, admission, guard, ownership, completedHosts,
                 waiters, followUp, calls, counters>>

Spawn(r) == BeginSpawn(r, 1)

\* retry() and resume(); interruptAndSend() is stop(), a wait, and this.
Retry(r) ==
  /\ Cardinality({a \in Attempts : a[2] > 1 /\ phase[a] # "none"}) < MaxRetries
  /\ status[r] \in Terminal
  /\ CallersWait => Unoccupied(r)
  /\ \E k \in 2..MaxAttempts : BeginSpawn(r, k)

\* spawn(): the model catalog is refreshed; agent.created is appended.
CatalogReady(a) ==
  /\ phase[a] = "catalog"
  /\ phase' = [phase EXCEPT ![a] = "creating"]
  /\ appends' = Append(appends, Event(Exec(a), "queued"))
  /\ UNCHANGED <<status, reduced, owner, signal, admission, guard, ownership,
                 completedHosts, waiters, followUp, calls, counters>>

\* Mutant: a spawn whose owner is gone becomes a root of its own, not aborted.
AttachToOrphan(a, ap) ==
  LET r == a[1]
      t == Remove(tree, r)
      id == owner[a][1]
      adopted == Has(t, id) /\ Object(t, id) = owner[a]
  IN  /\ tree' = Create(t, r, a[2], IF adopted THEN id ELSE NoId)
      /\ aborted' = IF adopted /\ owner[a] \in aborted THEN aborted \cup {a} ELSE aborted
      /\ linked' = LinkedWithout(r)
      /\ Drain(Append(queue, a), launching, active, followUps,
               [phase EXCEPT ![a] = "queued"], ap)

\* spawn(): the node is made under the captured owner if that very object is
\* still there, else as an aborted orphan; the item is queued; drain().
AttachTo(a, ap) ==
  LET r == a[1]
      t == Remove(tree, r)
      id == owner[a][1]
      adopted == Has(t, id) /\ Object(t, id) = owner[a]
  IN  /\ tree' = Create(t, r, a[2], IF adopted THEN id ELSE NoId)
      /\ aborted' = IF adopted /\ owner[a] \notin aborted THEN aborted ELSE aborted \cup {a}
      /\ linked' = LinkedWithout(r)
      /\ Drain(Append(queue, a), launching, active, followUps,
               [phase EXCEPT ![a] = "queued"], ap)

\* spawn(): agent.created is appended; the old host goes, the old node is
\* cancelled first.
Created(a) ==
  /\ phase[a] = "creating" /\ Settled(Exec(a))
  /\ reduced' = FALSE
  /\ DisposeHost(a[1])
  /\ IF Has(tree, a[1])
       THEN /\ aborted' = aborted \cup Objects(tree, Subtree(tree, a[1]))
            /\ phase' = [phase EXCEPT ![a] = "replacing"]
            /\ appends' = Tail(appends)
            /\ UNCHANGED <<tree, linked, admission>>
       ELSE AttachTo(a, Tail(appends))
  /\ UNCHANGED <<status, owner, signal, guard, root, waiters, calls, counters>>

\* spawn(): the replaced node's sessions are idle.
Attach(a) ==
  /\ phase[a] = "replacing" /\ HostsIdle(Subtree(tree, a[1]))
  /\ AttachTo(a, appends)
  /\ UNCHANGED <<status, reduced, owner, signal, guard, root, completedHosts,
                 waiters, followUp, calls, counters>>

\* wait(), and the resultPromise of a foreground spawn.
Wait(r) ==
  /\ status[r] \notin Terminal \cup {"absent"}
  /\ waiters' = waiters \cup {r}
  /\ UNCHANGED <<store, attempts, admission, guard, ownership, completedHosts,
                 followUp, calls, counters>>

-----------------------------------------------------------------------------
(* execute()                                                                *)

\* The event an action appends, and the one it was waiting for.
Emit(ap, actor, st) == appends' = Append(ap, Event(actor, st))
MoveTo(a, p)        == phase' = [phase EXCEPT ![a] = p]
Fail(a, ap)         == MoveTo(a, "failing") /\ Emit(ap, Exec(a), "failed")

\* execute(): the attempt moves from launching to active and says so.
Announce(a, ap) ==
  /\ active' = [active EXCEPT ![a[1]] = a[2]]
  /\ launching' = launching \ {a[1]}
  /\ MoveTo(a, "announcing")
  /\ Emit(ap, Exec(a), "running")

\* execute(): agent.attempt.started is appended.
Started(a) ==
  /\ phase[a] = "starting" /\ Settled(Exec(a))
  /\ reduced' = FALSE
  /\ IF SignalAborted(a[1]) THEN Fail(a, Tail(appends)) /\ UNCHANGED <<signal, launching, active>>
     ELSE IF Isolation[a[1]] = "read-only"
       THEN Announce(a, Tail(appends)) /\ UNCHANGED signal
       ELSE /\ MoveTo(a, "isolating")
            /\ signal' = [signal EXCEPT ![a] = tree[a[1]].n]
            /\ appends' = Tail(appends)
            /\ UNCHANGED <<launching, active>>
  /\ UNCHANGED <<status, owner, queue, followUps, guard, ownership, completedHosts,
                 waiters, followUp, calls, counters>>

\* Mutant: only the same run is looked for.
FreeSameRun(r) == r \notin locks

\* findConflicts: a run never conflicts with itself.
Free(r) == \A o \in locks \ {r} : <<o, r>> \notin Conflicts

\* execute(): the worktree is there, or acquire() found no conflict.
Isolated(a) ==
  /\ phase[a] = "isolating"
  /\ IF Isolation[a[1]] = "shared"
       THEN /\ ~CapturedAborted(a) /\ Free(a[1])
            /\ lock' = lock \cup {a} /\ locks' = locks \cup {a[1]}
       ELSE UNCHANGED guard
  /\ IF SignalAborted(a[1]) THEN Fail(a, appends) /\ UNCHANGED <<launching, active>>
     ELSE Announce(a, appends)
  /\ UNCHANGED <<status, reduced, owner, signal, queue, followUps, ownership,
                 completedHosts, waiters, followUp, calls, counters>>

\* execute(): no worktree can be made; acquire() sees its signal aborted or
\* gives up on a conflict after its timeout.
IsolationFails(a) ==
  /\ phase[a] = "isolating"
  /\ Isolation[a[1]] = "shared" => CapturedAborted(a) \/ ~Free(a[1])
  /\ Fail(a, appends)
  /\ UNCHANGED <<status, reduced, owner, signal, admission, guard, ownership,
                 completedHosts, waiters, followUp, calls, counters>>

\* execute(): runner.run() gets the signal the id has now and opens a session.
Announced(a) ==
  /\ phase[a] = "announcing" /\ Settled(Exec(a))
  /\ reduced' = FALSE
  /\ signal' = [signal EXCEPT ![a] = tree[a[1]].n]
  /\ IF SignalAborted(a[1]) THEN Fail(a, Tail(appends))
     ELSE MoveTo(a, "opening") /\ appends' = Tail(appends)
  /\ UNCHANGED <<status, owner, admission, guard, ownership, completedHosts,
                 waiters, followUp, calls, counters>>

\* Mutant: the abort of the session is not registered as a cleanup.
OpenedUnlinked(a) ==
  /\ phase[a] = "opening"
  /\ IF CapturedAborted(a) \/ ~Has(tree, a[1])
       THEN Fail(a, appends)
       ELSE MoveTo(a, "linking") /\ Emit(appends, Exec(a), "same")
  /\ UNCHANGED <<status, reduced, owner, signal, admission, guard, ownership,
                 completedHosts, waiters, followUp, calls, counters>>

\* runner.run(): the session is open; onLinked registers its abort with the
\* node of the run, which throws when there is none.
Opened(a) ==
  /\ phase[a] = "opening"
  /\ IF CapturedAborted(a) \/ ~Has(tree, a[1])
       THEN Fail(a, appends) /\ UNCHANGED linked
       ELSE /\ linked' = linked \cup {a}
            /\ MoveTo(a, "linking")
            /\ Emit(appends, Exec(a), "same")
  /\ UNCHANGED <<status, reduced, owner, signal, admission, guard, tree, root, aborted,
                 completedHosts, waiters, followUp, calls, counters>>

\* runner.run(): the session cannot be opened.
OpenFails(a) ==
  /\ phase[a] = "opening"
  /\ Fail(a, appends)
  /\ UNCHANGED <<status, reduced, owner, signal, admission, guard, ownership,
                 completedHosts, waiters, followUp, calls, counters>>

\* runner.run(): agent.session.linked is appended; host.run() starts the work.
Linked(a) ==
  /\ phase[a] = "linking" /\ Settled(Exec(a))
  /\ reduced' = FALSE
  /\ IF CapturedAborted(a) THEN Fail(a, Tail(appends))
     ELSE MoveTo(a, "working") /\ appends' = Tail(appends)
  /\ UNCHANGED <<status, owner, signal, admission, guard, ownership, completedHosts,
                 waiters, followUp, calls, counters>>

\* host.run(): the turn ended; agent.result.completed is appended.
WorkDone(a) ==
  /\ phase[a] = "working" /\ ~CapturedAborted(a)
  /\ MoveTo(a, "reporting")
  /\ Emit(appends, Exec(a), "completed")
  /\ UNCHANGED <<status, reduced, owner, signal, admission, guard, ownership,
                 completedHosts, waiters, followUp, calls, counters>>

\* Mutant: the turn does not react to the abort.
WorkFailsDeaf(a) ==
  /\ phase[a] = "working" /\ ~CapturedAborted(a)
  /\ Fail(a, appends)
  /\ UNCHANGED <<status, reduced, owner, signal, admission, guard, ownership,
                 completedHosts, waiters, followUp, calls, counters>>

\* host.run(): aborted, out of turns, or the provider failed.
WorkFails(a) ==
  /\ phase[a] = "working"
  /\ Fail(a, appends)
  /\ UNCHANGED <<status, reduced, owner, signal, admission, guard, ownership,
                 completedHosts, waiters, followUp, calls, counters>>

\* Mutant: the interval is not cleared when the run ends.
HeartbeatUncleared(a) ==
  /\ phase[a] \in {"opening", "linking", "working", "reporting", "failing", "revoking"}
  /\ heartbeats < MaxHeartbeats /\ heartbeats' = heartbeats + 1
  /\ Emit(appends, NoOne(a[1]), "running")
  /\ UNCHANGED <<status, reduced, attempts, admission, guard, ownership,
                 completedHosts, waiters, followUp, calls, stops, sends>>

\* runner.run(): the heartbeat interval; nobody waits for the append.
Heartbeat(a) ==
  /\ phase[a] \in {"opening", "linking", "working"}
  /\ heartbeats < MaxHeartbeats /\ heartbeats' = heartbeats + 1
  /\ Emit(appends, NoOne(a[1]), "running")
  /\ UNCHANGED <<status, reduced, attempts, admission, guard, ownership,
                 completedHosts, waiters, followUp, calls, stops, sends>>

\* finally: lock.release() deletes the lock of the run, whoever took it.
Release(who) ==
  /\ lock' = lock \ {who}
  /\ locks' = IF who \in lock THEN locks \ {who[1]} ELSE locks

\* Mutant: a failure does not resolve the waiters.
ReportedNoWaiters(a) ==
  /\ phase[a] \in {"reporting", "failing"} /\ Settled(Exec(a))
  /\ reduced' = FALSE
  /\ completedHosts' = IF phase[a] = "reporting"
                         THEN [completedHosts EXCEPT ![a[1]] = a[2]] ELSE completedHosts
  /\ waiters' = IF phase[a] = "reporting" THEN waiters \ {a[1]} ELSE waiters
  /\ Release(a)
  /\ MoveTo(a, "revoking")
  /\ appends' = Tail(appends)
  /\ UNCHANGED <<status, owner, signal, admission, ownership, followUp, calls, counters>>

\* execute(): the result or the failure is appended; the waiters are resolved,
\* the lock is released and the control session revoked.
Reported(a) ==
  /\ phase[a] \in {"reporting", "failing"} /\ Settled(Exec(a))
  /\ reduced' = FALSE
  /\ completedHosts' = IF phase[a] = "reporting"
                         THEN [completedHosts EXCEPT ![a[1]] = a[2]] ELSE completedHosts
  /\ waiters' = waiters \ {a[1]}
  /\ Release(a)
  /\ MoveTo(a, "revoking")
  /\ appends' = Tail(appends)
  /\ UNCHANGED <<status, owner, signal, admission, ownership, followUp, calls, counters>>

\* Mutant: finally forgets launching, which a failed start is still in.
UnwoundLaunching(a) ==
  LET r == a[1] IN
  /\ phase[a] = "revoking"
  /\ IF completedHosts[r] = 0 /\ Children(tree, r) = {}
       THEN tree' = Remove(tree, r) /\ linked' = LinkedWithout(r)
       ELSE UNCHANGED <<tree, linked>>
  /\ signal' = [signal EXCEPT ![a] = 0]
  /\ UNCHANGED aborted
  /\ Drain(queue, launching, [active EXCEPT ![r] = 0], followUps,
           [phase EXCEPT ![a] = "done"], appends)
  /\ UNCHANGED <<status, reduced, owner, guard, root, completedHosts, waiters,
                 followUp, calls, counters>>

\* Mutant: finally does not drain the queue.
UnwoundNoDrain(a) ==
  LET r == a[1] IN
  /\ phase[a] = "revoking"
  /\ IF completedHosts[r] = 0 /\ Children(tree, r) = {}
       THEN tree' = Remove(tree, r) /\ linked' = LinkedWithout(r)
       ELSE UNCHANGED <<tree, linked>>
  /\ signal' = [signal EXCEPT ![a] = 0]
  /\ launching' = launching \ {r} /\ active' = [active EXCEPT ![r] = 0]
  /\ MoveTo(a, "done")
  /\ UNCHANGED <<status, reduced, appends, owner, guard, root, aborted, queue, followUps,
                 completedHosts, waiters, followUp, calls, counters>>

\* execute(): the rest of finally, by run id.
Unwound(a) ==
  LET r == a[1] IN
  /\ phase[a] = "revoking"
  /\ IF completedHosts[r] = 0 /\ Children(tree, r) = {}
       THEN tree' = Remove(tree, r) /\ linked' = LinkedWithout(r)
       ELSE UNCHANGED <<tree, linked>>
  /\ signal' = [signal EXCEPT ![a] = 0]
  /\ UNCHANGED aborted
  /\ Drain(queue, launching \ {r}, [active EXCEPT ![r] = 0], followUps,
           [phase EXCEPT ![a] = "done"], appends)
  /\ UNCHANGED <<status, reduced, owner, guard, root, completedHosts, waiters,
                 followUp, calls, counters>>

-----------------------------------------------------------------------------
(* send() to a completed child: sendCompleted()                             *)

FollowUpAt(r, p) == followUp' = [followUp EXCEPT ![r].phase = p]

\* send(): the chain runs one follow-up of a run at a time.
Send(r) ==
  /\ sends < MaxSends /\ sends' = sends + 1
  /\ completedHosts[r] # 0 /\ active[r] = 0 /\ followUp[r].phase = "none"
  /\ ~disposed /\ ~SignalAborted(r)
  /\ CallersWait => Resting(r)
  /\ followUp' = [followUp EXCEPT ![r].phase = "slot", ![r].host = completedHosts[r]]
  /\ UNCHANGED <<store, attempts, admission, guard, ownership, completedHosts,
                 waiters, calls, stops, heartbeats>>

\* sendCompleted(): the poll for a slot ends, for a writer the wait for its
\* scope begins.
FollowUpAdmitted(r) ==
  /\ followUp[r].phase = "slot" /\ ~disposed /\ ~SignalAborted(r)
  /\ Slots(launching, active, followUps) < Capacity
  /\ followUps' = followUps \cup {r}
  /\ IF Isolation[r] = "shared"
       THEN FollowUpAt(r, "locking") /\ UNCHANGED appends
       ELSE FollowUpAt(r, "announcing") /\ Emit(appends, FollowUp(r), "running")
  /\ UNCHANGED <<status, reduced, attempts, queue, launching, active, guard, ownership,
                 completedHosts, waiters, calls, counters>>

FollowUpDropped(r) ==
  /\ followUp[r].phase = "slot" /\ (disposed \/ SignalAborted(r))
  /\ followUp' = [followUp EXCEPT ![r].phase = "none", ![r].host = 0]
  /\ UNCHANGED <<store, attempts, admission, guard, ownership, completedHosts,
                 waiters, calls, counters>>

FollowUpLocked(r) ==
  /\ followUp[r].phase = "locking" /\ ~SignalAborted(r) /\ Free(r)
  /\ lock' = lock \cup {<<r, 0>>} /\ locks' = locks \cup {r}
  /\ FollowUpAt(r, "announcing")
  /\ Emit(appends, FollowUp(r), "running")
  /\ UNCHANGED <<status, reduced, attempts, admission, ownership, completedHosts,
                 waiters, calls, counters>>

FollowUpLockFails(r) ==
  /\ followUp[r].phase = "locking" /\ (SignalAborted(r) \/ ~Free(r))
  /\ followUp[r].host # 0
  /\ FollowUpAt(r, "failing")
  /\ Emit(appends, FollowUp(r), "failed")
  /\ UNCHANGED <<status, reduced, attempts, admission, guard, ownership,
                 completedHosts, waiters, calls, counters>>

\* sendCompleted(): "running" is appended; host.send() prompts the session
\* without another look at the signal.
FollowUpStarts(r) ==
  /\ followUp[r].phase = "announcing" /\ Settled(FollowUp(r)) /\ followUp[r].host # 0
  /\ reduced' = FALSE /\ appends' = Tail(appends)
  /\ FollowUpAt(r, "working")
  /\ UNCHANGED <<status, attempts, admission, guard, ownership, completedHosts,
                 waiters, calls, counters>>

\* sendCompleted(): the turn ended; finally gives the lock and the slot back
\* before the result is appended.
FollowUpDone(r) ==
  /\ followUp[r].phase = "working" /\ ~SignalAborted(r) /\ followUp[r].host # 0
  /\ FollowUpAt(r, "reporting")
  /\ Release(<<r, 0>>)
  /\ UNCHANGED ownership
  /\ Drain(queue, launching, active, followUps \ {r}, phase,
           Append(appends, Event(FollowUp(r), "completed")))
  /\ UNCHANGED <<status, reduced, owner, signal, completedHosts, waiters, calls, counters>>

\* sendCompleted(): the turn was aborted, or it failed.
FollowUpFails(r) ==
  /\ followUp[r].phase = "working" /\ followUp[r].host # 0
  /\ FollowUpAt(r, "failing")
  /\ Emit(appends, FollowUp(r), "failed")
  /\ UNCHANGED <<status, reduced, attempts, admission, guard, ownership,
                 completedHosts, waiters, calls, counters>>

\* sendCompleted(): the wait for the scope, send() or the turn fails and the host
\* is disposed: resultSnapshot() throws in the catch, before agent.failed, and
\* only the finally is left.
FollowUpAbandoned(r) ==
  /\ followUp[r].host = 0
  /\ \/ followUp[r].phase = "locking" /\ (SignalAborted(r) \/ ~Free(r)) /\ UNCHANGED reduced
     \/ followUp[r].phase = "announcing" /\ Settled(FollowUp(r)) /\ reduced' = FALSE
     \/ followUp[r].phase = "working" /\ UNCHANGED reduced
  /\ followUp' = [followUp EXCEPT ![r] =
       [phase |-> "none", host |-> 0, abandoned |-> @.abandoned \/ @.phase # "locking"]]
  /\ Release(<<r, 0>>)
  /\ UNCHANGED ownership
  /\ Drain(queue, launching, active, followUps \ {r}, phase,
           IF followUp[r].phase = "announcing" THEN Tail(appends) ELSE appends)
  /\ UNCHANGED <<status, owner, signal, completedHosts, waiters, calls, counters>>

\* sendCompleted(): agent.result.completed is appended.
FollowUpReported(r) ==
  /\ followUp[r].phase = "reporting" /\ Settled(FollowUp(r))
  /\ reduced' = FALSE /\ appends' = Tail(appends)
  /\ followUp' = [followUp EXCEPT ![r] = NoFollowUp]
  /\ UNCHANGED <<status, attempts, admission, guard, ownership, completedHosts,
                 waiters, calls, counters>>

\* sendCompleted(): agent.failed is appended; the host goes, the waiters are
\* resolved, the lock and the slot given back.
FollowUpFailed(r) ==
  /\ followUp[r].phase = "failing" /\ Settled(FollowUp(r))
  /\ reduced' = FALSE
  /\ followUp' = [followUp EXCEPT ![r] = NoFollowUp]
  /\ completedHosts' = [completedHosts EXCEPT ![r] = 0]
  /\ waiters' = waiters \ {r}
  /\ Release(<<r, 0>>)
  /\ UNCHANGED ownership
  /\ Drain(queue, launching, active, followUps \ {r}, phase, Tail(appends))
  /\ UNCHANGED <<status, owner, signal, calls, counters>>

-----------------------------------------------------------------------------
(* stop(), cancelAll() and dispose()                                        *)

StopIdle == [phase |-> "idle", kids |-> {}, wasQueued |-> FALSE, before |-> {}]
StopId(r, from, via) == [run |-> r, n |-> 0, from |-> from, via |-> via]

\* stop() of each run in `runs`: each call collects the children of its node
\* and calls stop() for them first.  `before` remembers what is attached.
BeginStops(runs, via) ==
  stop' = [s \in StopIds |->
    IF s.via = via /\ s.from \in runs /\ s.run \in {s.from} \cup Subtree(tree, s.from)
      THEN [phase |-> "children", kids |-> Children(tree, s.run), wasQueued |-> FALSE,
            before |-> {a \in Attempts : \E id \in Subtree(tree, s.run) : a = Object(tree, id)}]
      ELSE stop[s]]

Stop(r) ==
  /\ stops < MaxStops /\ stops' = stops + 1
  /\ status[r] # "absent" /\ stop[StopId(r, r, "user")].phase = "idle"
  /\ BeginStops({r}, "user")
  /\ UNCHANGED <<store, attempts, admission, guard, ownership, completedHosts,
                 waiters, followUp, cancelling, disposed, sends, heartbeats>>

\* stop(): the children are stopped; the queued item goes, the node and all
\* below it are aborted.
StopCancels(s) ==
  LET items == {i \in DOMAIN queue : queue[i][1] = s.run}
      first == CHOOSE i \in items : \A j \in items : i <= j
  IN
  /\ stop[s].phase = "children"
  /\ \A c \in stop[s].kids : stop[StopId(c, s.from, s.via)].phase = "idle"
  /\ stop' = [stop EXCEPT ![s].phase = "cleanup", ![s].wasQueued = items # {}]
  /\ IF items # {}
       THEN /\ queue' = SubSeq(queue, 1, first - 1) \o SubSeq(queue, first + 1, Len(queue))
            /\ MoveTo(queue[first], "done")
       ELSE UNCHANGED <<queue, phase>>
  /\ aborted' = aborted \cup Objects(tree, Subtree(tree, s.run))
  /\ UNCHANGED <<store, owner, signal, launching, active, followUps, guard, tree, root,
                 linked, completedHosts, waiters, followUp, cancelling, disposed, counters>>

\* stop(): the node goes unless an execution or a follow-up still needs it.
StopReturns(s, waited) ==
  /\ stop' = [stop EXCEPT ![s] = StopIdle]
  /\ waiters' = IF waited THEN waiters \ {s.run} ELSE waiters
  /\ IF stop[s].wasQueued \/ s.run \notin
            launching \cup followUps \cup {r \in Runs : active[r] # 0}
       THEN tree' = Remove(tree, s.run) /\ linked' = LinkedWithout(s.run)
       ELSE UNCHANGED <<tree, linked>>

\* Mutant: a stop of a run that is terminal already never goes on.
StopCleansUpStuck(s) ==
  /\ stop[s].phase = "cleanup" /\ HostsIdle(Subtree(tree, s.run))
  /\ status[s.run] \notin Terminal \cup {"absent"}
  /\ IF s.run \in followUps THEN UNCHANGED <<completedHosts, followUp>> ELSE DisposeHost(s.run)
  /\ stop' = [stop EXCEPT ![s].phase = "reporting"]
  /\ Emit(appends, s, "failed")
  /\ UNCHANGED <<status, reduced, attempts, admission, guard, ownership, waiters,
                 cancelling, disposed, counters>>

\* stop(): the sessions are idle; a run that is not terminal is reported.
StopCleansUp(s) ==
  /\ stop[s].phase = "cleanup" /\ HostsIdle(Subtree(tree, s.run))
  /\ IF s.run \in followUps THEN UNCHANGED <<completedHosts, followUp>> ELSE DisposeHost(s.run)
  /\ IF status[s.run] \in Terminal \cup {"absent"}
       THEN StopReturns(s, FALSE) /\ UNCHANGED appends
       ELSE /\ stop' = [stop EXCEPT ![s].phase = "reporting"]
            /\ Emit(appends, s, "failed")
            /\ UNCHANGED <<tree, linked, waiters>>
  /\ UNCHANGED <<status, reduced, attempts, admission, guard, root, aborted,
                 cancelling, disposed, counters>>

\* stop(): agent.failed is appended.
StopReported(s) ==
  /\ stop[s].phase = "reporting" /\ Settled(s)
  /\ reduced' = FALSE /\ appends' = Tail(appends)
  /\ StopReturns(s, TRUE)
  /\ UNCHANGED <<status, attempts, admission, guard, root, aborted, completedHosts,
                 followUp, cancelling, disposed, counters>>

\* cancelAll(): collects everything below the root, and aborts it.
BeginCancelAll ==
  /\ cancelling.phase = "idle"
  /\ cancelling' = [phase |-> "cleanup", root |-> root,
                    runs |-> Subtree(tree, RootId(root)) \ {RootId(root)}]
  /\ aborted' = aborted \cup Objects(tree, Subtree(tree, RootId(root)))
  /\ UNCHANGED <<store, attempts, admission, guard, linked, completedHosts, waiters,
                 followUp, stop, counters>>

\* cancelAll() for a new turn: spawns from now on get a fresh root.
CancelAll ==
  /\ ~disposed /\ root < MaxCancels
  /\ BeginCancelAll
  /\ root' = root + 1
  /\ tree' = Create(tree, RootId(root + 1), 1, NoId)
  /\ UNCHANGED disposed

Dispose ==
  /\ MayDispose /\ ~disposed
  /\ BeginCancelAll
  /\ disposed' = TRUE
  /\ UNCHANGED <<root, tree>>

\* cancelAll(): the sessions are idle; every collected run is stopped.
CancelAllStops ==
  /\ cancelling.phase = "cleanup" /\ HostsIdle(Subtree(tree, RootId(cancelling.root)))
  /\ cancelling' = [cancelling EXCEPT !.phase = "stops"]
  /\ BeginStops(cancelling.runs, "all")
  /\ UNCHANGED <<store, attempts, admission, guard, ownership, completedHosts,
                 waiters, followUp, disposed, counters>>

\* cancelAll(): the stops have settled; the old root goes.
CancelAllReturns ==
  /\ cancelling.phase = "stops"
  /\ \A s \in StopIds : s.via = "all" => stop[s].phase = "idle"
  /\ tree' = Remove(tree, RootId(cancelling.root))
  /\ cancelling' = [phase |-> IF disposed THEN "executions" ELSE "idle",
                    root |-> 0, runs |-> {}]
  /\ UNCHANGED <<store, attempts, admission, guard, root, aborted, linked,
                 completedHosts, waiters, followUp, stop, disposed, counters>>

\* dispose(): all executions have ended; hosts and nodes go.
Disposed ==
  /\ cancelling.phase = "executions"
  /\ \A a \in Attempts : phase[a] \notin Executing
  /\ \A r \in Runs : followUp[r].phase = "none"
  /\ completedHosts' = [r \in Runs |-> 0]
  /\ aborted' = aborted \cup {Object(tree, id) : id \in {i \in DOMAIN tree : Has(tree, i)}}
  /\ tree' = [id \in DOMAIN tree |-> Absent]
  /\ linked' = {}
  /\ cancelling' = [cancelling EXCEPT !.phase = "closed"]
  /\ UNCHANGED <<store, attempts, admission, guard, root, waiters, followUp, stop,
                 disposed, counters>>

-----------------------------------------------------------------------------
AttemptStep(a) ==
  \/ CatalogReady(a) \/ Created(a) \/ Attach(a)
  \/ Started(a) \/ Isolated(a) \/ IsolationFails(a) \/ Announced(a)
  \/ Opened(a) \/ OpenFails(a) \/ Linked(a) \/ WorkDone(a) \/ WorkFails(a)
  \/ Reported(a) \/ Unwound(a)

FollowUpStep(r) ==
  \/ FollowUpAdmitted(r) \/ FollowUpDropped(r) \/ FollowUpLocked(r) \/ FollowUpLockFails(r)
  \/ FollowUpStarts(r) \/ FollowUpDone(r) \/ FollowUpFails(r)
  \/ FollowUpReported(r) \/ FollowUpFailed(r) \/ FollowUpAbandoned(r)

StopStep(s) == StopCancels(s) \/ StopCleansUp(s) \/ StopReported(s)
CancelStep  == CancelAllStops \/ CancelAllReturns \/ Disposed

\* The steps that are not calls from outside.
Progress ==
  \/ Reduce
  \/ \E a \in Attempts : AttemptStep(a)
  \/ \E r \in Runs : FollowUpStep(r)
  \/ \E s \in StopIds : StopStep(s)
  \/ CancelStep

Next ==
  \/ Progress
  \/ \E r \in Runs : Spawn(r) \/ Retry(r) \/ Wait(r) \/ Send(r) \/ Stop(r)
  \/ \E a \in Attempts : Heartbeat(a)
  \/ CancelAll \/ Dispose

\* Appends, timeouts and turns (maxTurns) end and the event loop does not rest
\* while a callback is due; calls need not be made.
Fairness == WF_vars(Progress)

Spec == Init /\ [][Next]_vars /\ Fairness

-----------------------------------------------------------------------------
(* Properties                                                               *)

NodeObjects == Attempts \cup {<<id, 1>> : id \in RootIds}
Events      == [by : Actors, run : Runs, status : Statuses \cup {"same"}]

TypeOK ==
  /\ status \in [Runs -> Statuses] /\ reduced \in BOOLEAN
  /\ appends \in Seq(Events)
  /\ phase \in [Attempts -> Phases] /\ owner \in [Attempts -> NodeObjects]
  /\ signal \in [Attempts -> 0..MaxAttempts]
  /\ lock \subseteq Runs \X (0..MaxAttempts) /\ locks \subseteq Runs
  /\ queue \in Seq(Attempts)
  /\ launching \subseteq Runs /\ active \in [Runs -> 0..MaxAttempts]
  /\ followUps \subseteq Runs /\ completedHosts \in [Runs -> 0..MaxAttempts]
  /\ tree \in [Runs \cup RootIds -> [n : 0..MaxAttempts, up : Runs \cup RootIds \cup {NoId}]]
  /\ root \in 0..MaxCancels /\ aborted \subseteq NodeObjects /\ linked \subseteq Attempts
  /\ waiters \subseteq Runs
  /\ followUp \in [Runs -> [phase : FollowUpPhases, host : 0..MaxAttempts,
                         abandoned : BOOLEAN]]
  /\ stop \in [StopIds -> [phase : {"idle", "children", "cleanup", "reporting"},
                           kids : SUBSET Runs, wasQueued : BOOLEAN, before : SUBSET Attempts]]
  /\ cancelling \in [phase : {"idle", "cleanup", "stops", "executions", "closed"},
                     root : 0..MaxCancels, runs : SUBSET (Runs \cup RootIds)]
  /\ disposed \in BOOLEAN

\* Child sessions at work never exceed maxSessions - 1, counting what really
\* executes rather than the sets drain() and sendCompleted() count by run id.
CapacityRespected ==
  Cardinality({a \in Attempts : phase[a] \in Executing}) + Cardinality(followUps) <= Capacity

\* "Shared-worktree writes: serialized by declared scope": two actors that hold
\* a write lock have scopes that do not overlap, and are not of one run
\* (WorkspaceGuard keeps its locks by run id).
WriteExclusion ==
  \A x, y \in lock : x # y => x[1] # y[1] /\ <<x[1], y[1]>> \notin Conflicts

\* The captured owners of an attempt, up to its root: the least set that has
\* the attempt and the owners of all attempts in it.
OwnersOf(a) ==
  {b \in NodeObjects : \A S \in SUBSET NodeObjects :
     a \in S /\ (\A c \in S \cap Attempts : owner[c] \in S) => b \in S}

\* No attempt starts model work when it, or an owner captured by its spawn, or
\* an owner of that owner, was cancelled: "old queued and inflight children
\* cannot execute model work" (cancelAll against spawns in flight, drain, and
\* remove()'s hand-over of children).
NoWorkUnderCancelledOwner ==
  [][\A a \in Attempts : phase[a] # "working" /\ phase'[a] = "working"
       => OwnersOf(a) \cap aborted = {}]_vars

\* When stop() returns, none of the attempts that were attached to the tree
\* below the run when it was called is at work (the cleanups are awaited).
StopMeansStopped ==
  [][\A s \in StopIds : stop[s].phase # "idle" /\ stop'[s].phase = "idle"
       => \A a \in stop[s].before : phase'[a] # "working"]_vars

\* When nothing goes on any more, every run that was created has a terminal
\* state in the snapshot: no late heartbeat, stop or result leaves it running,
\* only a follow-up that found its host disposed.
Quiet == /\ \A r \in Runs : Unoccupied(r)
         /\ appends = <<>> /\ ~disposed
QuiescentIsTerminal ==
  Quiet => \A r \in Runs : status[r] \in Terminal \cup {"absent"} \/ followUp[r].abandoned

\* When nothing goes on any more, no slot, lock or queue entry is left behind.
NothingLeaks ==
  Quiet => /\ queue = <<>> /\ launching = {} /\ followUps = {} /\ locks = {} /\ lock = {}
           /\ \A r \in Runs : active[r] = 0

\* After dispose() returned no child executes and no host is retained, also
\* not one whose spawn was in flight.
DisposedIsQuiet ==
  cancelling.phase = "closed" =>
    /\ \A a \in Attempts : phase[a] \notin Executing
    /\ \A r \in Runs : completedHosts[r] = 0 /\ followUp[r].phase = "none"

\* Every stop() returns, and so do cancelAll() and dispose().
StopsReturn == \A s \in StopIds : stop[s].phase # "idle" ~> stop[s].phase = "idle"
CancelReturns == cancelling.phase # "idle" ~> cancelling.phase \in {"idle", "closed"}

\* Whoever waits for a run gets its result, unless the fleet is disposed.
WaitersResolve == \A r \in Runs : r \in waiters ~> (r \notin waiters \/ disposed)

\* A queued child is launched or dropped: no slot is lost (drain's callers).
QueueDrains == \A a \in Attempts : phase[a] = "queued" ~> (phase[a] # "queued" \/ disposed)

-----------------------------------------------------------------------------
(* Three statements the code does not keep                                  *)

\* "Shared-worktree writes: serialized by declared scope", for callers that
\* retry a run that was stopped while its old execution still unwinds: two
\* writers with overlapping scopes are never at work together.
SharedWritesSerialized ==
  \A a, b \in Attempts :
    /\ a # b /\ phase[a] = "working" /\ phase[b] = "working"
    /\ Isolation[a[1]] = "shared" /\ Isolation[b[1]] = "shared"
    => a[1] # b[1] /\ <<a[1], b[1]>> \notin Conflicts

\* No follow-up starts model work for a run whose stop has begun to cancel it.
FollowUpRespectsStop ==
  [][\A r \in Runs : followUp[r].phase # "working" /\ followUp'[r].phase = "working"
       => ~SignalAborted(r)]_vars
=============================================================================
