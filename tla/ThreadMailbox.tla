---------------------------- MODULE ThreadMailbox ----------------------------
(***************************************************************************)
(* Messages between conversations: the durable receipts of agent-server/   *)
(* thread-mailbox.mjs, the pump of thread-coordinator.mjs, the requests of *)
(* bridge-worker.mjs, and the recipient's worker process, which takes a    *)
(* message with threads/delivery.mjs into a transcript written by the      *)
(* session of the model runtime.                                           *)
(*                                                                         *)
(* The server runs on one thread.  A pump that found the recipient's owner *)
(* goes on after a microtask, before any input or output is handled: only  *)
(* steps of other pumps come between (Quiet).  A pump that found no owner  *)
(* waits for the catalog, and whatever it answers hands nothing over.      *)
(* Recipients are chats; an agent of a fleet is reached the same way       *)
(* through the worker of its owner.                                        *)
(***************************************************************************)
EXTENDS Integers, FiniteSets

CONSTANTS Messages, Recipients,
          To,             \* the recipient of a message
          Supporting,     \* messages of supporting agents; the others are peers'
          Fresh,          \* recipients whose transcript file does not exist yet
          MaxCompleted,   \* settled receipts that are kept
          MaxQueued,      \* queued receipts the mailbox takes
          MaxPumps,       \* bound: calls of pump() at once
          MaxFailures,    \* bound: crashes of the server and ends of workers
          None, User      \* values of `at` and `turn` that are no message

Pumps == 1..MaxPumps

ASSUME MailboxAssumption ==
  /\ To \in [Messages -> Recipients]
  /\ Supporting \subseteq Messages /\ Fresh \subseteq Recipients
  /\ MaxCompleted \in Nat \ {0} /\ MaxQueued \in Nat
  /\ MaxPumps \in Nat /\ MaxFailures \in Nat
  /\ None # User /\ {None, User} \cap Messages = {}

Receipts == {"absent", "queued", "delivered", "failed"}
\* A delivery: its request is on the pipe ("asked"), its prompt has started but
\* is not in the transcript ("preflight"), its turn runs ("turn"), it waits in
\* the queue of a running turn ("waiting"), or its answer is on the way.
Deliveries == {"none", "asked", "preflight", "turn", "waiting", "ok", "error"}

VARIABLES
  receipt,       \* messages map and receipt files
  sent,          \* history: messages the mailbox accepted
  delivering,    \* deliver() in progress
  visited,       \* per pump: receipts its loop has passed
  at,            \* per pump: the receipt whose recipient it looks up, or None
  found,         \* per pump: whether the lookup found an owner
  lookupFailed,  \* history: a pump ended in an error since the last one started
  delivery,      \* where each delivery is
  attached,      \* recipients whose session is owned by this server
  turn,          \* per recipient: None, User, or the message whose turn runs
  followUps,     \* messages queued in their recipient's session
  entries,       \* how often the transcript holds the message
  replied,       \* recipients whose transcript is written to its file
  failures

server == <<receipt, sent, delivering, visited, at, found, lookupFailed>>
worker == <<turn, followUps, entries, replied>>
vars   == <<server, delivery, attached, worker, failures>>

TypeOK ==
  /\ receipt \in [Messages -> Receipts]
  /\ sent \subseteq Messages /\ delivering \subseteq Messages
  /\ visited \in [Pumps -> SUBSET Messages]
  /\ at \in [Pumps -> Messages \cup {None}]
  /\ found \in [Pumps -> BOOLEAN] /\ lookupFailed \in BOOLEAN
  /\ delivery \in [Messages -> Deliveries]
  /\ attached \subseteq Recipients
  /\ turn \in [Recipients -> Messages \cup {None, User}]
  /\ followUps \subseteq Messages
  /\ entries \in [Messages -> Nat]
  /\ replied \subseteq Recipients
  /\ failures \in 0..MaxFailures

Init ==
  /\ receipt = [m \in Messages |-> "absent"]
  /\ sent = {} /\ delivering = {}
  /\ visited = [p \in Pumps |-> {}]
  /\ at = [p \in Pumps |-> None]
  /\ found = [p \in Pumps |-> FALSE] /\ lookupFailed = FALSE
  /\ delivery = [m \in Messages |-> "none"]
  /\ attached = {}
  /\ turn = [r \in Recipients |-> None]
  /\ followUps = {}
  /\ entries = [m \in Messages |-> 0]
  /\ replied = Recipients \ Fresh
  /\ failures = 0

-----------------------------------------------------------------------------
(* The pump: one pass over the receipts, stopping at each lookup.          *)

Queued(rc) == {m \in Messages : rc[m] = "queued"}
Settled    == {m \in Messages : receipt[m] \in {"delivered", "failed"}}
Idle       == {p \in Pumps : at[p] = None}
Quiet      == \A p \in Pumps : at[p] # None => ~found[p]

\* Pump p has passed the receipts in seen and goes on to the next one that is
\* queued and not being delivered, or ends.
GoOn(p, seen, rc, busy, owned) ==
  \/ /\ Queued(rc) \subseteq seen \cup busy
     /\ at' = [at EXCEPT ![p] = None]
     /\ visited' = [visited EXCEPT ![p] = {}]
     /\ found' = [found EXCEPT ![p] = FALSE]
  \/ \E m \in Queued(rc) \ (seen \cup busy) :
       /\ at' = [at EXCEPT ![p] = m]
       /\ visited' = [visited EXCEPT ![p] = seen \cup {m}]
       /\ found' = [found EXCEPT ![p] = To[m] \in owned]

\* pump() is called after a change of the receipts or the sessions.
StartPump(rc, owned) ==
  /\ \E p \in Idle : (\A q \in Idle : p <= q) /\ GoOn(p, {}, rc, delivering, owned)
  /\ lookupFailed' = FALSE

\* Mutant: deliver() does not look at `delivering` again.
PumpDeliversTwice(p) ==
  LET m == at[p] IN
  /\ m # None /\ found[p]
  /\ delivering' = delivering \cup {m}
  /\ delivery' = [delivery EXCEPT ![m] = "asked"]
  /\ GoOn(p, visited[p], receipt, delivering', attached)
  /\ UNCHANGED <<receipt, sent, lookupFailed, attached, worker, failures>>

\* The owner was found: deliver() writes the request to the worker, unless
\* another pump has done so meanwhile.
PumpDelivers(p) ==
  LET m == at[p] IN
  /\ m # None /\ found[p]
  /\ delivering' = delivering \cup {m}
  /\ delivery' = IF m \in delivering THEN delivery ELSE [delivery EXCEPT ![m] = "asked"]
  /\ GoOn(p, visited[p], receipt, delivering', attached)
  /\ UNCHANGED <<receipt, sent, lookupFailed, attached, worker, failures>>

\* The catalog answers; a recipient without an owner is left for later.
CatalogAnswers(p) ==
  /\ at[p] # None /\ ~found[p]
  /\ GoOn(p, visited[p], receipt, delivering, attached)
  /\ UNCHANGED <<receipt, sent, delivering, lookupFailed, delivery, attached, worker, failures>>

\* A lookup that throws ends the pump before the receipts behind it.
CatalogFails(p) ==
  /\ at[p] # None /\ ~found[p]
  /\ at' = [at EXCEPT ![p] = None]
  /\ visited' = [visited EXCEPT ![p] = {}]
  /\ lookupFailed' = TRUE
  /\ UNCHANGED <<receipt, sent, delivering, found, delivery, attached, worker, failures>>

-----------------------------------------------------------------------------
(* Receipts.                                                               *)

\* prune(): the oldest settled receipts beyond MaxCompleted go, unless their
\* file cannot be removed.
Prunable(gone, count) ==
  gone \subseteq Settled /\ Cardinality(gone) <= (IF count > MaxCompleted THEN count - MaxCompleted ELSE 0)
Forgetting(gone, rc) == [m \in Messages |-> IF m \in gone THEN "absent" ELSE rc[m]]

\* request() of a thread that sends, again for a message already known.  A full
\* mailbox throws.  A supporting agent was started by a turn of its recipient.
\* Bound: a forgotten message is not sent again while its recipient has it queued.
SendMessage(m) ==
  /\ Quiet /\ (m \in Supporting => To[m] \in replied)
  /\ \/ receipt[m] # "absent" /\ UNCHANGED <<receipt, sent>>
     \/ /\ receipt[m] = "absent" /\ m \notin followUps
        /\ Cardinality(Queued(receipt)) < MaxQueued
        /\ receipt' = [receipt EXCEPT ![m] = "queued"]
        /\ sent' = sent \cup {m}
  /\ StartPump(receipt', attached)
  /\ UNCHANGED <<delivering, delivery, attached, worker, failures>>

\* The answer of the worker, or the rejection of its request, settles the receipt.
Answered(m) ==
  /\ delivery[m] \in {"ok", "error"} /\ \A p \in Pumps : ~(found[p] /\ at[p] = m)
  /\ \E gone \in SUBSET Settled :
       /\ Prunable(gone, Cardinality(Settled) + 1)
       /\ receipt' = Forgetting(gone, [receipt EXCEPT ![m] =
                       IF delivery[m] = "ok" THEN "delivered" ELSE "failed"])
       /\ visited' = [p \in Pumps |-> visited[p] \ gone]   \* sent again, it is a new entry
  /\ delivering' = delivering \ {m}
  /\ delivery' = [delivery EXCEPT ![m] = "none"]
  /\ UNCHANGED <<sent, at, found, lookupFailed, attached, worker, failures>>

-----------------------------------------------------------------------------
(* The recipient's worker.                                                 *)

\* Mutant: the transcript is not searched for the message.
ReceivesBlindly(m) ==
  /\ delivery[m] = "asked"
  /\ IF turn[To[m]] = None
     THEN /\ turn' = [turn EXCEPT ![To[m]] = m]
          /\ delivery' = [delivery EXCEPT ![m] = "preflight"]
          /\ UNCHANGED followUps
     ELSE /\ followUps' = followUps \cup {m}
          /\ delivery' = [delivery EXCEPT ![m] = "waiting"]
          /\ UNCHANGED turn
  /\ UNCHANGED <<server, attached, entries, replied, failures>>

\* deliverThreadMessage(): a message in the transcript is not taken again, a
\* supporting one is appended, a peer's starts a turn or is queued for one.
Receives(m) ==
  LET r == To[m] IN
  /\ delivery[m] = "asked"
  /\ \/ /\ entries[m] > 0
        /\ delivery' = [delivery EXCEPT ![m] = "ok"]
        /\ UNCHANGED <<turn, followUps, entries>>
     \/ /\ entries[m] = 0 /\ m \in Supporting
        /\ entries' = [entries EXCEPT ![m] = @ + 1]
        /\ delivery' = [delivery EXCEPT ![m] = "ok"]
        /\ UNCHANGED <<turn, followUps>>
     \/ /\ entries[m] = 0 /\ m \notin Supporting /\ turn[r] # None
        /\ followUps' = followUps \cup {m}
        /\ delivery' = [delivery EXCEPT ![m] = "waiting"]
        /\ UNCHANGED <<turn, entries>>
     \/ /\ entries[m] = 0 /\ m \notin Supporting /\ turn[r] = None
        /\ turn' = [turn EXCEPT ![r] = m]
        /\ delivery' = [delivery EXCEPT ![m] = "preflight"]
        /\ UNCHANGED <<followUps, entries>>
  /\ UNCHANGED <<server, attached, replied, failures>>

\* Events of the agent run: the prompt is in the transcript.
PromptEnters(m) ==
  /\ delivery[m] = "preflight"
  /\ entries' = [entries EXCEPT ![m] = @ + 1]
  /\ delivery' = [delivery EXCEPT ![m] = "turn"]
  /\ UNCHANGED <<server, attached, turn, followUps, replied, failures>>

\* The user prompts an idle recipient.
UserPrompts(r) ==
  /\ r \in attached /\ turn[r] = None
  /\ turn' = [turn EXCEPT ![r] = User]
  /\ UNCHANGED <<server, delivery, attached, followUps, entries, replied, failures>>

\* The turn of r runs, and its prompt is in the transcript.
Working(r) == turn[r] = User \/ (turn[r] \in Messages /\ delivery[turn[r]] = "turn")

\* The first assistant message of a transcript writes all of it to its file.
Replies(r) ==
  /\ Working(r) /\ r \notin replied
  /\ replied' = replied \cup {r}
  /\ UNCHANGED <<server, delivery, attached, turn, followUps, entries, failures>>

\* A turn that would end takes a queued message instead.
TakesFollowUp(m) ==
  /\ m \in followUps /\ Working(To[m]) /\ To[m] \in replied
  /\ followUps' = followUps \ {m}
  /\ entries' = [entries EXCEPT ![m] = @ + 1]
  /\ delivery' = IF delivery[m] = "waiting" THEN [delivery EXCEPT ![m] = "ok"] ELSE delivery
  /\ UNCHANGED <<server, attached, turn, replied, failures>>

\* Mutant: the message is reported as delivered when its turn fails before it.
TurnEndsUnread(r, well) ==
  /\ turn[r] # None
  /\ delivery' = IF turn[r] \in Messages THEN [delivery EXCEPT ![turn[r]] = "ok"] ELSE delivery
  /\ turn' = [turn EXCEPT ![r] = None]
  /\ replied' = replied \cup {r}
  /\ UNCHANGED <<server, attached, followUps, entries, failures>>

\* A turn ends: well, with nothing queued and a reply written, or in an error or
\* an abort, which is an assistant message in the transcript too.  The delivery
\* that started the turn ends with it.
TurnEnds(r, well) ==
  /\ IF well THEN Working(r) /\ r \in replied /\ \A m \in followUps : To[m] # r
             ELSE turn[r] # None
  /\ delivery' = IF turn[r] \in Messages
                 THEN [delivery EXCEPT ![turn[r]] = IF well THEN "ok" ELSE "error"]
                 ELSE delivery
  /\ turn' = [turn EXCEPT ![r] = None]
  /\ replied' = replied \cup {r}
  /\ UNCHANGED <<server, attached, followUps, entries, failures>>

\* Mutant: nothing limits the wait.
NeverTimesOut(m) == FALSE /\ UNCHANGED vars

\* Ten minutes in the queue: the delivery fails, the message stays queued.
TimesOut(m) ==
  /\ delivery[m] = "waiting"
  /\ delivery' = [delivery EXCEPT ![m] = "error"]
  /\ UNCHANGED <<server, attached, worker, failures>>

\* clear_queue of a client.
ClearsQueue(r) ==
  /\ r \in attached
  /\ followUps' = {m \in followUps : To[m] # r}
  /\ UNCHANGED <<server, delivery, attached, turn, entries, replied, failures>>

-----------------------------------------------------------------------------
(* Sessions come and go.                                                   *)

\* Mutant: attaching does not pump.
AttachOnly(r) ==
  /\ Quiet /\ r \notin attached
  /\ attached' = attached \cup {r}
  /\ UNCHANGED <<server, delivery, worker, failures>>

\* A client attaches to a chat, whose worker reads the transcript from its file.
Attach(r) ==
  /\ Quiet /\ r \notin attached
  /\ attached' = attached \cup {r}
  /\ StartPump(receipt, attached')
  /\ UNCHANGED <<receipt, sent, delivering, delivery, worker, failures>>

\* A fleet snapshot of any session is published.
FleetChanges ==
  /\ Quiet /\ attached # {} /\ StartPump(receipt, attached)
  /\ UNCHANGED <<receipt, sent, delivering, delivery, attached, worker, failures>>

\* Mutant: every delivery of an ended worker is taken back.
UnwrittenAny(rs) == {m \in Messages : To[m] \in rs /\ delivery[m] # "none"}

\* What the transcripts lose when the workers of rs end: in a chat without an
\* answer yet, the message whose turn runs.
Unwritten(rs) == {m \in Messages : To[m] \in rs \ replied /\ delivery[m] = "turn"}
WorkersEnd(rs) ==
  /\ turn' = [r \in Recipients |-> IF r \in rs THEN None ELSE turn[r]]
  /\ followUps' = {m \in followUps : To[m] \notin rs}
  /\ entries' = [m \in Messages |-> IF m \in Unwritten(rs) THEN entries[m] - 1 ELSE entries[m]]
  /\ UNCHANGED replied

\* The worker exits or its session is stopped: its requests are rejected.
WorkerEnds(r) ==
  /\ Quiet /\ r \in attached /\ failures < MaxFailures
  /\ attached' = attached \ {r}
  /\ WorkersEnd({r})
  /\ delivery' = [m \in Messages |-> IF To[m] = r /\ delivery[m] # "none" THEN "error" ELSE delivery[m]]
  /\ failures' = failures + 1
  /\ UNCHANGED server

\* The server dies, its workers with it; the next one reads the receipts.
ServerCrash ==
  /\ failures < MaxFailures
  /\ \E gone \in SUBSET Settled :
       Prunable(gone, Cardinality(Settled)) /\ receipt' = Forgetting(gone, receipt)
  /\ delivering' = {}
  /\ visited' = [p \in Pumps |-> {}]
  /\ at' = [p \in Pumps |-> None]
  /\ found' = [p \in Pumps |-> FALSE] /\ lookupFailed' = FALSE
  /\ delivery' = [m \in Messages |-> "none"]
  /\ attached' = {}
  /\ WorkersEnd(Recipients)
  /\ failures' = failures + 1
  /\ UNCHANGED sent

-----------------------------------------------------------------------------

Next ==
  \/ \E p \in Pumps : PumpDelivers(p) \/ CatalogAnswers(p) \/ CatalogFails(p)
  \/ \E m \in Messages :
       \/ SendMessage(m) \/ Answered(m) \/ Receives(m) \/ PromptEnters(m)
       \/ TakesFollowUp(m) \/ TimesOut(m)
  \/ \E r \in Recipients :
       \/ UserPrompts(r) \/ Replies(r) \/ ClearsQueue(r) \/ Attach(r) \/ WorkerEnds(r)
       \/ \E well \in BOOLEAN : TurnEnds(r, well)
  \/ FleetChanges \/ ServerCrash

\* The event loops of both processes go on, lookups are answered and timers
\* fire.  A turn need not end, nor take what is queued.
Fairness ==
  /\ \A p \in Pumps : WF_vars(PumpDelivers(p)) /\ WF_vars(CatalogAnswers(p) \/ CatalogFails(p))
  /\ \A m \in Messages :
       /\ WF_vars(Receives(m)) /\ WF_vars(Answered(m)) /\ WF_vars(TimesOut(m))
       /\ WF_vars(delivery[m] = "preflight" /\ (PromptEnters(m) \/ TurnEnds(To[m], FALSE)))

Spec == Init /\ [][Next]_vars /\ Fairness

-----------------------------------------------------------------------------
(* Properties.                                                             *)

\* "Bounded durable receipts" (thread-mailbox.mjs): every message enters its
\* recipient's transcript at most once, through crashes, repeated sends and
\* repeated deliveries, and a delivered one is in it.
AtMostOnce ==
  \A m \in Messages : entries[m] \in {0, 1} /\ (receipt[m] = "delivered" => entries[m] = 1)

\* The receipt of a message that started a turn is settled after that turn: no
\* second pump or second delivery may report it earlier.
SettledAfterTheTurn ==
  \A m \in Messages : receipt[m] # "queued" => turn[To[m]] # m

\* Receipts, transcripts and crashes together keep the promise made to senders.
Promise == INSTANCE ExactlyOnceDelivery WITH status <- receipt, entered <- entries
KeepsPromise == Promise!Spec

\* A queued message of an attached recipient is handed over by some pump: it
\* enters or is settled, unless the recipient goes away or a lookup throws.
ReachesItsRecipient ==
  \A m \in Messages :
    (receipt[m] = "queued" /\ To[m] \in attached)
      ~> \/ receipt[m] # "queued" \/ entries[m] > 0
         \/ To[m] \notin attached \/ lookupFailed

\* A delivery does not stay in progress behind a turn of somebody else.
DeliveriesEnd ==
  \A m \in Messages : (m \in delivering) ~> (m \notin delivering \/ turn[To[m]] = m)

=============================================================================
