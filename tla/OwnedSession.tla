----------------------------- MODULE OwnedSession -----------------------------
(***************************************************************************)
(* Whose turn it is in a session that the agent server owns: ServerOwned-  *)
(* Session of agent-server/server.mjs with user-input-responses.mjs,       *)
(* between the clients, which prompt, answer questions and press Stop, and *)
(* the worker process (zyra-ui-bridge.mjs), which runs the agent.          *)
(*                                                                         *)
(* The server runs on one thread.  The worker's lines arrive in order, and *)
(* several of them may be handled before the requests they answer go on in *)
(* microtasks; a client is heard only after those (Quiet).  A line to the  *)
(* worker is modelled as read when it is written: the delays of the two    *)
(* pipes are all on the way back.                                          *)
(***************************************************************************)
EXTENDS Integers, Sequences, FiniteSets

CONSTANTS Prompts,       \* prompts of clients
          Answers,       \* answers to questions that continue the conversation
          Mails,         \* thread messages of peers
          None,
          MaxStops,      \* bound: presses of Stop
          MaxStarts      \* bound: agent runs, restarted ones included

Requests == Prompts \cup Answers \cup Mails
Stops    == 1..MaxStops
Turns    == Requests \cup Nat    \* a number is a minted agent-turn id

ASSUME SessionAssumption ==
  /\ Prompts \cap Answers = {} /\ Requests \cap Int = {}
  /\ (Prompts \cup Answers) \cap Mails = {} /\ None \notin Turns
  /\ MaxStops \in Nat /\ MaxStarts \in Nat

\* A request: an answer whose response is outstanding or was read, a wait for
\* the turn before, the worker's part, and what follows its response.
Stages   == {"none", "answering", "continuing", "waiting", "woken", "sent",
             "returned", "failed", "done"}
\* The worker's part: before, in and between the agent runs, after them (context
\* maintenance), or queued for a run of somebody else.
Works    == {"none", "preflight", "running", "retrying", "settling", "after", "queued"}
Over     == {"completed", "interrupted", "error"}
Line     == [kind : {"start", "end", "retryEnd", "response", "ack"},
             of : Requests \cup Stops \cup {None}, well : BOOLEAN]

VARIABLES
  context,      \* turn of activeRequestContext, or None
  latest,       \* latestTurn: its id and state
  foreground,   \* foregroundPromptRequests
  owning,       \* requests in flight with ownsTurn
  minted,       \* agent-turn ids made so far
  stage, captured,     \* of each request; captured is its continuationEpoch
  epoch,        \* userInputContinuationEpoch
  stop, target,        \* of each Stop; target is its stoppingTurnId
  pipe,         \* lines of the worker the server has not handled
  work,         \* the worker's part of each request
  halted,       \* an abort reached the agent run that is active
  starts,
  exited,       \* the worker has exited; the session is no longer listed
  over,         \* history: turns that were recorded as over
  silenced,     \* history: answers and waiting prompts older than a Stop
  overlap,      \* history: the run is beside a request that owns another turn, or
                \* began when a Stop was under way
  orphaned      \* history: an unowned run was stopped between two attempts

turn     == <<context, latest, foreground, owning, minted>>
calls    == <<stage, captured, epoch, stop, target>>
worker   == <<work, halted, starts, exited>>
history  == <<over, silenced, overlap, orphaned>>
vars     == <<turn, calls, pipe, worker, history>>

TypeOK ==
  /\ context \in Turns \cup {None}
  /\ latest \in [id : Turns \cup {None}, state : Over \cup {"running", "none"}]
  /\ foreground \in 0..1 /\ owning \subseteq Requests /\ minted \in Nat
  /\ stage \in [Requests -> Stages]
  /\ captured \in [Requests -> 0..MaxStops] /\ epoch \in 0..MaxStops
  /\ stop \in [Stops -> {"none", "waiting", "due", "acking", "acked", "done"}]
  /\ target \in [Stops -> Turns \cup {None}]
  /\ pipe \in Seq(Line)
  /\ work \in [Requests -> Works] /\ halted \in BOOLEAN /\ starts \in 0..MaxStarts
  /\ exited \in BOOLEAN
  /\ over \subseteq Turns /\ silenced \subseteq Requests
  /\ overlap \in BOOLEAN /\ orphaned \in BOOLEAN

Init ==
  /\ context = None /\ latest = [id |-> None, state |-> "none"]
  /\ foreground = 0 /\ owning = {} /\ minted = 0
  /\ stage = [r \in Requests |-> "none"] /\ captured = [r \in Requests |-> 0]
  /\ epoch = 0
  /\ stop = [n \in Stops |-> "none"] /\ target = [n \in Stops |-> None]
  /\ pipe = <<>>
  /\ work = [r \in Requests |-> "none"] /\ halted = FALSE /\ starts = 0 /\ exited = FALSE
  /\ over = {} /\ silenced = {} /\ overlap = FALSE /\ orphaned = FALSE

-----------------------------------------------------------------------------
(* The latest turn, the context and those who wait for it.                 *)

Terminal(t, l) == t # None /\ l.id = t /\ l.state \in Over       \* isTurnTerminal()
Busy  == context # None \/ foreground > 0
Quiet == /\ \A r \in Requests : stage[r] \notin {"continuing", "woken", "returned", "failed"}
         /\ \A n \in Stops : stop[n] # "acked"

\* updateLatestTurnSummary(): an event of context c, and one that ends its turn.
Under(c, l)      == IF c # None /\ l.id # c THEN [id |-> c, state |-> "running"] ELSE l
Ended(l, outcome) == IF l.id = None \/ l.state \in Over THEN l ELSE [l EXCEPT !.state = outcome]

\* Mutant: the end of a turn wakes nobody.
ReleasedNever(st, c, f) == st

\* releaseUserInputContinuations() when nothing holds the turn any more.
Released(st, c, f) ==
  IF c # None \/ f > 0 THEN st
  ELSE [r \in Requests |-> IF st[r] = "waiting" THEN "woken" ELSE st[r]]

\* The end of publish() for an event that ends the turn of the context.
EndsTurn(outcome) ==
  LET c == IF foreground = 0 THEN None ELSE context IN
  /\ latest' = Ended(Under(context, latest), outcome)
  /\ context' = c
  /\ stage' = IF context # None THEN Released(stage, c, foreground) ELSE stage
  /\ UNCHANGED <<foreground, owning, minted>>

Says(kind, of, well) == pipe' = Append(pipe, [kind |-> kind, of |-> of, well |-> well])

Active(w) == {r \in Requests : w[r] \in {"running", "retrying", "settling"}}

\* The request is written to the worker; with own it takes the turn.  A prompt
\* is prepared; a message starts a run, or is queued in the one that is active.
\* A worker that exited is started again, but nothing connects it.
Sends(r, own) ==
  /\ stage' = [stage EXCEPT ![r] = "sent"]
  /\ IF own THEN /\ foreground' = foreground + 1 /\ owning' = owning \cup {r}
                 /\ context' = r /\ latest' = [id |-> r, state |-> "running"]
            ELSE UNCHANGED <<foreground, owning, context, latest>>
  /\ \/ /\ exited /\ Says("response", r, FALSE) /\ UNCHANGED <<work, halted, starts>>
     \/ /\ ~exited /\ r \notin Mails
        /\ work' = [work EXCEPT ![r] = "preflight"] /\ UNCHANGED <<pipe, halted, starts>>
     \/ /\ ~exited /\ r \in Mails /\ Active(work) # {}
        /\ work' = [work EXCEPT ![r] = "queued"] /\ UNCHANGED <<pipe, halted, starts>>
     \/ /\ ~exited /\ r \in Mails /\ Active(work) = {} /\ starts < MaxStarts
        /\ work' = [work EXCEPT ![r] = "running"] /\ halted' = FALSE
        /\ starts' = starts + 1 /\ Says("start", None, TRUE)
  /\ UNCHANGED <<minted, exited>>

\* What the history variables note in every step.
Observes ==
  /\ over' = IF latest'.state \in Over THEN over \cup {latest'.id} ELSE over
  /\ silenced' = IF epoch' = epoch THEN silenced
                 ELSE silenced \cup {r \in Requests : stage[r] \in {"answering", "waiting"}}
  /\ overlap' = \/ overlap /\ Active(work') # {}
                \/ \E r \in Active(work') : owning' \ {r} # {}
                \/ starts' # starts /\ \E n \in Stops : stop[n] \notin {"none", "done"}
  /\ orphaned' = (orphaned \/ (epoch' # epoch /\ \E r \in Requests \ owning : work[r] = "retrying"))

-----------------------------------------------------------------------------
(* What clients and other chats ask for.                                   *)

\* request("prompt"): refused while a turn runs, and behind a turn that is over
\* but still owns the worker it waits.
Prompt(r) ==
  /\ Quiet /\ ~exited /\ r \in Prompts /\ stage[r] = "none"
  /\ \/ ~Busy /\ Sends(r, TRUE) /\ UNCHANGED captured
     \/ /\ Busy /\ Terminal(context, latest)
        /\ captured' = [captured EXCEPT ![r] = epoch]
        /\ stage' = [stage EXCEPT ![r] = "waiting"] /\ UNCHANGED <<turn, pipe, worker>>
  /\ UNCHANGED <<epoch, stop, target>> /\ Observes

\* user_input.respond with a continuation.  The worker answers at once, or does
\* not know the question any more.
Answer(r) ==
  /\ Quiet /\ ~exited /\ r \in Answers /\ stage[r] = "none" /\ latest.id # None
  /\ captured' = [captured EXCEPT ![r] = epoch]
  /\ stage' = [stage EXCEPT ![r] = "answering"]
  /\ \E well \in BOOLEAN : Says("response", r, well)
  /\ UNCHANGED <<turn, epoch, stop, target, worker>> /\ Observes

\* thread_message.receive owns the turn when there is none.
Mail(r) ==
  /\ ~exited /\ r \in Mails /\ stage[r] = "none"
  /\ Sends(r, ~Busy)
  /\ UNCHANGED <<captured, epoch, stop, target>> /\ Observes

\* Stop of the turn that is active (one for another turn does nothing): whoever
\* waits is rejected.  handleAbort() ends a wait between two attempts at once;
\* a run it reaches will not start again.
Stop(n) ==
  /\ Quiet /\ ~exited /\ n = epoch + 1
  /\ epoch' = epoch + 1
  /\ target' = [target EXCEPT ![n] = context]
  /\ stage' = [r \in Requests |-> IF stage[r] = "waiting" THEN "done" ELSE stage[r]]
  /\ stop' = [stop EXCEPT ![n] = IF \E r \in Active(work) : work[r] # "retrying"
                                 THEN "waiting" ELSE "due"]
  /\ work' = [r \in Requests |-> IF work[r] = "retrying" THEN "after" ELSE work[r]]
  /\ halted' = (\E r \in Active(work) : work[r] # "retrying")
  /\ IF \E r \in Requests : work[r] = "retrying" THEN Says("retryEnd", None, FALSE)
                                                 ELSE UNCHANGED pipe
  /\ UNCHANGED <<turn, captured, starts, exited>> /\ Observes

-----------------------------------------------------------------------------
(* The server handles a line.                                              *)

Reads(kind) == pipe # <<>> /\ Head(pipe).kind = kind /\ pipe' = Tail(pipe)

\* Mutant: a run that begins after the answer goes on under the finished turn.
HandlesStartReusing ==
  /\ Reads("start")
  /\ LET t == IF context = None THEN minted + 1 ELSE context IN
       /\ context' = t
       /\ minted' = IF t = context THEN minted ELSE t
       /\ latest' = Under(t, latest)
  /\ UNCHANGED <<foreground, owning, calls, worker>> /\ Observes

\* agent_start: a run without a turn, or behind one that is over, gets a new id.
HandlesStart ==
  /\ Reads("start")
  /\ LET t == IF context = None \/ Terminal(context, latest) THEN minted + 1 ELSE context IN
       /\ context' = t
       /\ minted' = IF t = context THEN minted ELSE t
       /\ latest' = Under(t, latest)
  /\ UNCHANGED <<foreground, owning, calls, worker>> /\ Observes

\* agent_end that is not retried.
HandlesEnd ==
  /\ Reads("end")
  /\ EndsTurn(IF Head(pipe).well THEN "completed" ELSE "interrupted")
  /\ UNCHANGED <<captured, epoch, stop, target, worker>> /\ Observes

\* auto_retry_end without success ends the turn and leaves the context.
HandlesRetryEnd ==
  /\ Reads("retryEnd")
  /\ latest' = Ended(Under(context, latest), "error")
  /\ UNCHANGED <<context, foreground, owning, minted, calls, worker>> /\ Observes

\* A response; those of requests rejected meanwhile are unknown.
HandlesResponse ==
  /\ Reads("response")
  /\ LET r == Head(pipe).of IN
       stage' = [stage EXCEPT ![r] =
         CASE @ = "sent"      -> IF Head(pipe).well THEN "returned" ELSE "failed"
           [] @ = "answering" -> IF Head(pipe).well THEN "continuing" ELSE "done"
           [] OTHER           -> @]
  /\ UNCHANGED <<turn, captured, epoch, stop, target, worker>> /\ Observes

HandlesAck ==
  /\ Reads("ack")
  /\ stop' = [stop EXCEPT ![Head(pipe).of] = IF @ = "acking" THEN "acked" ELSE @]
  /\ UNCHANGED <<turn, stage, captured, epoch, target, worker>> /\ Observes

-----------------------------------------------------------------------------
(* Requests go on.                                                         *)

Waits(r) == stage' = [stage EXCEPT ![r] = "waiting"] /\ UNCHANGED <<turn, pipe, worker>>
Rejected(r) == stage' = [stage EXCEPT ![r] = "done"] /\ UNCHANGED <<turn, pipe, worker>>

\* Mutant: the wait for the turn is an `if`, not a `while`.
ContinuesOnce(r) ==
  /\ stage[r] \in {"continuing", "woken"}
  /\ \/ captured[r] # epoch /\ Rejected(r)
     \/ captured[r] = epoch /\ Busy /\ stage[r] = "continuing" /\ Waits(r)
     \/ captured[r] = epoch /\ (~Busy \/ stage[r] = "woken") /\ Sends(r, TRUE)
  /\ UNCHANGED <<captured, epoch, stop, target>> /\ Observes

\* Mutant: the epoch is read when the continuation begins.
ContinuesAnew(r) ==
  /\ stage[r] \in {"continuing", "woken"}
  /\ captured' = [captured EXCEPT ![r] = epoch]
  /\ \/ Busy /\ Waits(r)
     \/ ~Busy /\ Sends(r, TRUE)
  /\ UNCHANGED <<epoch, stop, target>> /\ Observes

\* continueUserInput() with the epoch of the answer, and a request that is
\* released: each looks at the epoch, and for a turn in its way.
Continues(r) ==
  /\ stage[r] \in {"continuing", "woken"}
  /\ \/ captured[r] # epoch /\ Rejected(r)
     \/ captured[r] = epoch /\ Busy /\ Waits(r)
     \/ captured[r] = epoch /\ ~Busy /\ Sends(r, TRUE)
  /\ UNCHANGED <<captured, epoch, stop, target>> /\ Observes

\* Mutant: only the request's own turn is given up.
FreedOwn(r, l, f) == IF r \in owning /\ context = r THEN None ELSE context

\* The context after an owner of the turn has returned: its turn is given up,
\* and a minted one that is over with it.
Freed(r, l, f) ==
  IF r \in owning /\ (context = r \/ (f = 0 /\ Terminal(context, l))) THEN None ELSE context

\* The response of the worker is known.  A turn that is not over is published
\* as over; then the turn is given up.
Returns(r) ==
  /\ stage[r] \in {"returned", "failed"}
  /\ LET own == r \in owning
         l == IF own /\ ~Terminal(r, latest)
              THEN Ended(Under(context, latest), IF stage[r] = "returned" THEN "completed" ELSE "error")
              ELSE latest
         f == IF own THEN foreground - 1 ELSE foreground
         c == Freed(r, l, f)
     IN /\ latest' = l /\ foreground' = f /\ context' = c
        /\ owning' = owning \ {r}
        /\ stage' = Released([stage EXCEPT ![r] = "done"], c, f)
  /\ UNCHANGED <<minted, captured, epoch, stop, target, pipe, worker>> /\ Observes

\* Mutant: every acknowledged Stop ends the turn of the moment.
StopReturnsLate(n) ==
  /\ stop[n] = "acked"
  /\ stop' = [stop EXCEPT ![n] = "done"]
  /\ LET l == IF context # None THEN [id |-> context, state |-> "interrupted"] ELSE latest
         c == IF foreground = 0 THEN None ELSE context
     IN /\ latest' = l /\ context' = c /\ stage' = Released(stage, c, foreground)
  /\ UNCHANGED <<foreground, owning, minted, captured, epoch, target, pipe, worker>> /\ Observes

\* Stop is acknowledged: the turn it was for, if it still runs, is over.
StopReturns(n) ==
  /\ stop[n] = "acked"
  /\ stop' = [stop EXCEPT ![n] = "done"]
  /\ IF target[n] # None /\ context = target[n] /\ latest = [id |-> target[n], state |-> "running"]
     THEN EndsTurn("interrupted")
     ELSE /\ stage' = Released(stage, context, foreground)
          /\ UNCHANGED turn
  /\ UNCHANGED <<captured, epoch, target, pipe, worker>> /\ Observes

-----------------------------------------------------------------------------
(* The worker.                                                             *)

At(r, from, to) == work[r] = from /\ work' = [work EXCEPT ![r] = to]
Starts(r, from) ==
  /\ At(r, from, "running") /\ starts < MaxStarts
  /\ starts' = starts + 1 /\ Says("start", None, TRUE)

\* A prompt is handled without a run, fails before it, or runs; a run in its way
\* makes it fail.
Begins(r) ==
  /\ \/ /\ Active(work) = {} /\ Starts(r, "preflight") /\ halted' = FALSE
     \/ /\ At(r, "preflight", "none") /\ UNCHANGED <<starts, halted>>
        /\ \E well \in BOOLEAN : Says("response", r, well)
  /\ UNCHANGED <<turn, calls, exited>> /\ Observes

RunEnds(r) ==
  /\ At(r, "running", "settling") /\ Says("end", None, ~halted)
  /\ UNCHANGED <<turn, calls, halted, starts, exited>> /\ Observes

\* A retryable error (agent_end with willRetry), and the next attempt.
Retries(r) ==
  /\ \/ ~halted /\ At(r, "running", "retrying") /\ UNCHANGED <<pipe, starts>>
     \/ Starts(r, "retrying")
  /\ UNCHANGED <<turn, calls, halted, exited>> /\ Observes

\* _handlePostAgentRun(): the agent continues, or is idle; then aborts go on.
Settles(r) ==
  /\ \/ ~halted /\ Starts(r, "settling") /\ UNCHANGED <<stop, halted>>
     \/ /\ At(r, "settling", "after") /\ halted' = FALSE /\ UNCHANGED <<pipe, starts>>
        /\ stop' = [n \in Stops |-> IF stop[n] = "waiting" THEN "due" ELSE stop[n]]
  /\ UNCHANGED <<turn, stage, captured, epoch, target, exited>> /\ Observes

\* Maintenance after the run is done, or a queued message has been taken.
Finishes(r) ==
  /\ \/ At(r, "after", "none") /\ \E well \in BOOLEAN : Says("response", r, well)
     \/ At(r, "queued", "none") /\ Says("response", r, TRUE)
  /\ UNCHANGED <<turn, calls, halted, starts, exited>> /\ Observes

\* The abort has waited for the agent, the fleet and the jobs of the turn.  A
\* response without success acknowledges nothing.
Acks(n) ==
  /\ stop[n] = "due"
  /\ \/ stop' = [stop EXCEPT ![n] = "acking"] /\ Says("ack", n, TRUE)
     \/ stop' = [stop EXCEPT ![n] = "done"] /\ UNCHANGED pipe
  /\ UNCHANGED <<turn, stage, captured, epoch, target, worker>> /\ Observes

\* The worker exits: pending requests are rejected, the session is removed.
WorkerExits ==
  /\ ~exited /\ exited' = TRUE
  /\ stage' = [r \in Requests |-> CASE stage[r] = "sent" -> "failed"
                                    [] stage[r] = "answering" -> "done"
                                    [] OTHER -> stage[r]]
  /\ stop' = [n \in Stops |-> IF stop[n] = "none" THEN "none" ELSE "done"]
  /\ work' = [r \in Requests |-> "none"]
  /\ pipe' = <<>> /\ halted' = FALSE
  /\ UNCHANGED <<turn, captured, epoch, target, starts>> /\ Observes

-----------------------------------------------------------------------------

Client == (\E r \in Requests : Prompt(r) \/ Answer(r) \/ Mail(r)) \/ (\E n \in Stops : Stop(n))
Server ==
  \/ HandlesStart \/ HandlesEnd \/ HandlesRetryEnd \/ HandlesResponse \/ HandlesAck
  \/ \E r \in Requests : Continues(r) \/ Returns(r)
  \/ \E n \in Stops : StopReturns(n)
Agent == \E r \in Requests : Begins(r) \/ Retries(r) \/ Settles(r) \/ Finishes(r)

Next ==
  \/ Client \/ Server \/ Agent \/ WorkerExits
  \/ \E r \in Requests : RunEnds(r)
  \/ \E n \in Stops : Acks(n)

\* Lines are handled, and the worker's requests go on but for their agent runs,
\* which need not end.
Fairness ==
  WF_vars(Server \/ Agent \/ \E n \in Stops : Acks(n))

Spec == Init /\ [][Next]_vars /\ Fairness

-----------------------------------------------------------------------------
(* Properties.                                                             *)

\* "instead of racing a second session.prompt" (server.mjs:1258): requests that
\* own the turn are at the worker one at a time, through waits, releases, stops
\* and responses, and the counter says so.
OneOwnerAtATime ==
  /\ foreground = Cardinality(owning) /\ foreground <= 1
  /\ \A r \in Prompts \cup Answers : stage[r] \in {"sent", "returned", "failed"} <=> r \in owning

\* When nothing is in flight, the turn is free, no turn looks as if it ran, and
\* nobody waits for one: "neither can keep this turn running" (server.mjs:1296).
\* A run without an owner that is stopped between two attempts, or whose worker
\* exits, leaves its context behind.
AtRest ==
  /\ Quiet /\ pipe = <<>>
  /\ \A r \in Requests : work[r] = "none" /\ stage[r] \notin {"answering", "sent"}
  /\ \A n \in Stops : stop[n] \in {"none", "done"}
RestIsRest ==
  AtRest /\ ~orphaned /\ ~exited =>
    /\ context = None /\ latest.state # "running"
    /\ \A r \in Requests : stage[r] # "waiting"

\* "A resumed run must remain visible and stoppable": when the server has seen
\* all lines and an agent works, the context names a turn that is running.  Not
\* so for a run that began while the request of another turn was in flight.
RunsAreVisible ==
  Quiet /\ pipe = <<>> /\ (\E r \in Requests : work[r] \in {"running", "retrying"}) /\ ~overlap
    => context # None /\ latest = [id |-> context, state |-> "running"]

\* "Completed IDs are immutable on every client": the outcome of a turn does not
\* change, and its id does not come back, whatever lines arrive late.
OutcomesAreFinal ==
  [][ /\ latest.state \in Over /\ latest'.id = latest.id => latest' = latest
      /\ latest'.id # latest.id => latest'.id \notin over ]_vars

\* "The queued question continuation was stopped": what was answered or waited
\* before a Stop does not start after it.
StoppedStaysStopped ==
  [][\A r \in silenced : stage[r] # "sent" => stage'[r] # "sent"]_vars

\* If the agent runs end, whoever waits for a turn gets it or is told otherwise.
WaitersEnd ==
  []<>(Active(work) = {}) =>
    \A r \in Prompts \cup Answers :
      stage[r] = "waiting" ~> (stage[r] # "waiting" \/ orphaned \/ exited)

=============================================================================
