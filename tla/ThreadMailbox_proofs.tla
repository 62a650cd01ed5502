------------------------ MODULE ThreadMailbox_proofs ------------------------
(***************************************************************************)
(* Proofs about ThreadMailbox for all messages, recipients, pumps and      *)
(* bounds: it implements ExactlyOnceDelivery, and what that promises.      *)
(*                                                                         *)
(* The inductive invariant relates the four places that know of a message: *)
(* the receipt, the delivery in progress, the turn or queue of the         *)
(* recipient, and the transcript.  A delivery in progress has a queued     *)
(* receipt (InFlight), its stage tells whether the message is in the       *)
(* transcript (Stages), and a message waiting in a queue is neither in the *)
(* transcript nor about to be handed over again (Waiting).                 *)
(***************************************************************************)
EXTENDS ThreadMailbox, TLAPS

InFlight ==
  /\ \A m \in Messages : m \in delivering <=> delivery[m] # "none"
  /\ \A m \in delivering : receipt[m] = "queued"
  /\ \A m \in Messages : receipt[m] # "absent" => m \in sent

\* A pump about to deliver has a receipt that is still queued.
Captured == \A p \in Pumps : at[p] \in Messages /\ found[p] => receipt[at[p]] = "queued"

Stages ==
  /\ \A m \in Messages : delivery[m] \in {"preflight", "turn"} => turn[To[m]] = m
  /\ \A r \in Recipients :
       turn[r] \in Messages => To[turn[r]] = r /\ delivery[turn[r]] \in {"preflight", "turn"}
  /\ \A m \in Messages :
       /\ delivery[m] \in {"preflight", "waiting"} => entries[m] = 0
       /\ delivery[m] \in {"turn", "ok"} => entries[m] = 1

Waiting ==
  \A m \in followUps :
    /\ m \in sent /\ entries[m] = 0
    /\ delivery[m] \in {"none", "waiting", "error"}
    /\ delivery[m] = "none" => receipt[m] # "queued"

IInv == TypeOK /\ InFlight /\ Captured /\ Stages /\ Waiting /\ AtMostOnce

USE MailboxAssumption DEF MailboxAssumption

-----------------------------------------------------------------------------
(* The pump.                                                               *)

\* Whatever a pump goes on to, its receipt is queued, and nothing else moves.
LEMMA GoOnTypes ==
  ASSUME TypeOK, NEW p \in Pumps, NEW seen \in SUBSET Messages,
         NEW rc \in [Messages -> Receipts], NEW busy, NEW owned,
         GoOn(p, seen, rc, busy, owned)
  PROVE  /\ at' \in [Pumps -> Messages \cup {None}]
         /\ visited' \in [Pumps -> SUBSET Messages]
         /\ found' \in [Pumps -> BOOLEAN]
         /\ at'[p] \in Messages => rc[at'[p]] = "queued"
         /\ \A q \in Pumps \ {p} : at'[q] = at[q] /\ found'[q] = found[q]
<1>1. CASE /\ at' = [at EXCEPT ![p] = None]
           /\ visited' = [visited EXCEPT ![p] = {}]
           /\ found' = [found EXCEPT ![p] = FALSE]
  BY <1>1 DEF TypeOK
<1>2. ASSUME NEW m \in Queued(rc) \ (seen \cup busy),
             at' = [at EXCEPT ![p] = m],
             visited' = [visited EXCEPT ![p] = seen \cup {m}],
             found' = [found EXCEPT ![p] = To[m] \in owned]
      PROVE  /\ at' \in [Pumps -> Messages \cup {None}]
             /\ visited' \in [Pumps -> SUBSET Messages]
             /\ found' \in [Pumps -> BOOLEAN]
             /\ at'[p] \in Messages => rc[at'[p]] = "queued"
             /\ \A q \in Pumps \ {p} : at'[q] = at[q] /\ found'[q] = found[q]
  <2>1. m \in Messages /\ rc[m] = "queued"
    BY DEF Queued
  <2> QED BY <1>2, <2>1 DEF TypeOK
<1> QED BY <1>1, <1>2 DEF GoOn

\* A pump that starts keeps the types and, with receipts rc, what is captured.
LEMMA StartPumpTypes ==
  ASSUME TypeOK, Captured, NEW rc \in [Messages -> Receipts], NEW owned,
         \A m \in Messages : receipt[m] = "queued" => rc[m] = "queued",
         StartPump(rc, owned)
  PROVE  /\ at' \in [Pumps -> Messages \cup {None}]
         /\ visited' \in [Pumps -> SUBSET Messages]
         /\ found' \in [Pumps -> BOOLEAN] /\ lookupFailed' \in BOOLEAN
         /\ \A p \in Pumps : at'[p] \in Messages /\ found'[p] => rc[at'[p]] = "queued"
<1>1. PICK p \in Idle : GoOn(p, {}, rc, delivering, owned)
  BY DEF StartPump
<1>2. p \in Pumps
  BY DEF Idle
<1>3. lookupFailed' \in BOOLEAN
  BY DEF StartPump
<1>4. /\ at' \in [Pumps -> Messages \cup {None}]
      /\ visited' \in [Pumps -> SUBSET Messages]
      /\ found' \in [Pumps -> BOOLEAN]
      /\ at'[p] \in Messages => rc[at'[p]] = "queued"
      /\ \A q \in Pumps \ {p} : at'[q] = at[q] /\ found'[q] = found[q]
  BY <1>1, <1>2, GoOnTypes
<1> QED BY <1>2, <1>3, <1>4 DEF Captured

-----------------------------------------------------------------------------
(* The invariant, action by action.                                        *)

LEMMA InitInv == Init => IInv
<1> SUFFICES ASSUME Init PROVE IInv
  OBVIOUS
<1>1. TypeOK
  <2>1. failures \in 0..MaxFailures
    BY DEF Init
  <2>2. "absent" \in Receipts /\ "none" \in Deliveries
    BY DEF Receipts, Deliveries
  <2> QED BY <2>1, <2>2 DEF Init, TypeOK
<1>2. InFlight /\ Captured /\ Waiting /\ AtMostOnce
  BY DEF Init, InFlight, Captured, Waiting, AtMostOnce
<1>3. Stages
  BY DEF Init, Stages
<1> QED BY <1>1, <1>2, <1>3 DEF IInv

LEMMA PumpDeliversInv ==
  ASSUME IInv, NEW p \in Pumps, PumpDelivers(p)
  PROVE  IInv'
<1> DEFINE m == at[p]
<1>1. m \in Messages /\ receipt[m] = "queued" /\ (m \notin followUps \/ m \in delivering)
  BY DEF PumpDelivers, IInv, TypeOK, Captured, Waiting, InFlight
<1>2. m \in Messages /\ receipt[m] = "queued"
  BY DEF PumpDelivers, IInv, TypeOK, Captured
<1>3. /\ at' \in [Pumps -> Messages \cup {None}]
      /\ visited' \in [Pumps -> SUBSET Messages]
      /\ found' \in [Pumps -> BOOLEAN]
      /\ at'[p] \in Messages => receipt[at'[p]] = "queued"
      /\ \A q \in Pumps \ {p} : at'[q] = at[q] /\ found'[q] = found[q]
  <2>1. visited[p] \in SUBSET Messages /\ receipt \in [Messages -> Receipts]
    BY DEF IInv, TypeOK
  <2> QED BY <2>1, GoOnTypes DEF PumpDelivers, IInv
<1>4. delivering' = delivering \cup {m} /\ UNCHANGED <<receipt, sent, lookupFailed, attached, worker, failures>>
  BY DEF PumpDelivers
<1>5. CASE m \in delivering
  <2>1. UNCHANGED <<delivery, delivering>>
    BY <1>5 DEF PumpDelivers
  <2> QED BY <1>3, <1>4, <2>1 DEF IInv, TypeOK, InFlight, Captured, Stages, Waiting, AtMostOnce, worker
<1>6. CASE m \notin delivering
  <2>1. delivery' = [delivery EXCEPT ![m] = "asked"] /\ delivery[m] = "none"
    BY <1>2, <1>6 DEF PumpDelivers, IInv, InFlight
  <2>2. TypeOK'
    BY <1>2, <1>3, <1>4, <2>1 DEF IInv, TypeOK, worker, Deliveries
  <2>3. InFlight' /\ Captured'
    BY <1>2, <1>3, <1>4, <2>1 DEF IInv, TypeOK, InFlight, Captured
  <2>4. Stages' /\ Waiting' /\ AtMostOnce'
    BY <1>1, <1>2, <1>4, <1>6, <2>1 DEF IInv, TypeOK, Stages, Waiting, AtMostOnce, worker
  <2> QED BY <2>2, <2>3, <2>4 DEF IInv
<1> QED BY <1>5, <1>6

LEMMA CatalogInv ==
  ASSUME IInv, NEW p \in Pumps, CatalogAnswers(p) \/ CatalogFails(p)
  PROVE  IInv'
<1>1. UNCHANGED <<receipt, sent, delivering, delivery, attached, worker, failures>>
  BY DEF CatalogAnswers, CatalogFails
<1>2. /\ at' \in [Pumps -> Messages \cup {None}]
      /\ visited' \in [Pumps -> SUBSET Messages]
      /\ found' \in [Pumps -> BOOLEAN] /\ lookupFailed' \in BOOLEAN
      /\ \A q \in Pumps : at'[q] \in Messages /\ found'[q] => receipt[at'[q]] = "queued"
  <2>1. CASE CatalogAnswers(p)
    <3>1. visited[p] \in SUBSET Messages /\ receipt \in [Messages -> Receipts] /\ lookupFailed \in BOOLEAN
      BY DEF IInv, TypeOK
    <3>2. GoOn(p, visited[p], receipt, delivering, attached) /\ lookupFailed' = lookupFailed
      BY <2>1 DEF CatalogAnswers
    <3>3. /\ at' \in [Pumps -> Messages \cup {None}]
          /\ visited' \in [Pumps -> SUBSET Messages]
          /\ found' \in [Pumps -> BOOLEAN]
          /\ at'[p] \in Messages => receipt[at'[p]] = "queued"
          /\ \A q \in Pumps \ {p} : at'[q] = at[q] /\ found'[q] = found[q]
      BY <3>1, <3>2, GoOnTypes DEF IInv
    <3> QED BY <3>1, <3>2, <3>3 DEF IInv, Captured
  <2>2. CASE CatalogFails(p)
    BY <2>2 DEF CatalogFails, IInv, TypeOK, Captured
  <2> QED BY <2>1, <2>2
<1> QED BY <1>1, <1>2 DEF IInv, TypeOK, InFlight, Captured, Stages, Waiting, AtMostOnce, worker

LEMMA SendMessageInv ==
  ASSUME IInv, NEW m \in Messages, SendMessage(m)
  PROVE  IInv'
<1>1. UNCHANGED <<delivering, delivery, attached, worker, failures>>
  BY DEF SendMessage
<1>2. CASE UNCHANGED <<receipt, sent>>
  <2>1. StartPump(receipt, attached) /\ receipt \in [Messages -> Receipts]
    BY <1>2 DEF SendMessage, IInv, TypeOK
  <2>2. /\ at' \in [Pumps -> Messages \cup {None}]
        /\ visited' \in [Pumps -> SUBSET Messages]
        /\ found' \in [Pumps -> BOOLEAN] /\ lookupFailed' \in BOOLEAN
        /\ \A p \in Pumps : at'[p] \in Messages /\ found'[p] => receipt[at'[p]] = "queued"
    BY <2>1, StartPumpTypes DEF IInv
  <2> QED BY <1>1, <1>2, <2>2 DEF IInv, TypeOK, InFlight, Captured, Stages, Waiting, AtMostOnce, worker
<1>3. CASE /\ receipt[m] = "absent" /\ m \notin followUps
           /\ receipt' = [receipt EXCEPT ![m] = "queued"] /\ sent' = sent \cup {m}
  <2>1. receipt' \in [Messages -> Receipts] /\ \A x \in Messages : receipt[x] = "queued" => receipt'[x] = "queued"
    BY <1>3 DEF IInv, TypeOK, Receipts
  <2>2. StartPump(receipt', attached)
    BY DEF SendMessage
  <2>3. /\ at' \in [Pumps -> Messages \cup {None}]
        /\ visited' \in [Pumps -> SUBSET Messages]
        /\ found' \in [Pumps -> BOOLEAN] /\ lookupFailed' \in BOOLEAN
        /\ \A p \in Pumps : at'[p] \in Messages /\ found'[p] => receipt'[at'[p]] = "queued"
    BY <2>1, <2>2, StartPumpTypes DEF IInv
  <2>4. TypeOK' /\ Captured'
    BY <1>1, <1>3, <2>1, <2>3 DEF IInv, TypeOK, Captured, worker
  <2>5. InFlight'
    BY <1>1, <1>3 DEF IInv, TypeOK, InFlight
  <2>6. Stages' /\ Waiting' /\ AtMostOnce'
    BY <1>1, <1>3 DEF IInv, TypeOK, Stages, Waiting, AtMostOnce, worker
  <2> QED BY <2>4, <2>5, <2>6 DEF IInv
<1> QED BY <1>2, <1>3 DEF SendMessage

\* Attach and FleetChanges only start a pump.
LEMMA PumpStartsInv ==
  ASSUME IInv, NEW owned, StartPump(receipt, owned),
         attached' \subseteq Recipients,
         UNCHANGED <<receipt, sent, delivering, delivery, worker, failures>>
  PROVE  IInv'
<1>1. receipt \in [Messages -> Receipts]
  BY DEF IInv, TypeOK
<1>2. /\ at' \in [Pumps -> Messages \cup {None}]
      /\ visited' \in [Pumps -> SUBSET Messages]
      /\ found' \in [Pumps -> BOOLEAN] /\ lookupFailed' \in BOOLEAN
      /\ \A p \in Pumps : at'[p] \in Messages /\ found'[p] => receipt[at'[p]] = "queued"
  BY <1>1, StartPumpTypes DEF IInv
<1> QED BY <1>2 DEF IInv, TypeOK, InFlight, Captured, Stages, Waiting, AtMostOnce, worker

LEMMA AnsweredInv ==
  ASSUME IInv, NEW m \in Messages, Answered(m)
  PROVE  IInv'
<1>1. PICK gone \in SUBSET Settled :
        /\ receipt' = Forgetting(gone, [receipt EXCEPT ![m] =
                         IF delivery[m] = "ok" THEN "delivered" ELSE "failed"])
        /\ visited' = [p \in Pumps |-> visited[p] \ gone]
  BY DEF Answered
<1>2. /\ delivering' = delivering \ {m} /\ delivery' = [delivery EXCEPT ![m] = "none"]
      /\ UNCHANGED <<sent, at, found, lookupFailed, attached, worker, failures>>
      /\ delivery[m] \in {"ok", "error"} /\ \A p \in Pumps : ~(found[p] /\ at[p] = m)
  BY DEF Answered
<1>3. receipt[m] = "queued" /\ m \in sent
  BY <1>2 DEF IInv, InFlight
<1>4. \A x \in Messages :
        receipt'[x] = IF x \in gone THEN "absent"
                      ELSE IF x # m THEN receipt[x]
                      ELSE IF delivery[m] = "ok" THEN "delivered" ELSE "failed"
  BY <1>1 DEF Forgetting, IInv, TypeOK
<1>5. m \notin gone /\ \A x \in gone : receipt[x] # "queued"
  BY <1>3 DEF Settled
<1>6. receipt' \in [Messages -> Receipts]
  <2>1. DOMAIN receipt' = Messages /\ receipt' = [x \in Messages |-> receipt'[x]]
    BY <1>1 DEF Forgetting
  <2>2. \A x \in Messages : receipt'[x] \in Receipts
    BY <1>4 DEF IInv, TypeOK, Receipts
  <2> QED BY <2>1, <2>2
<1>7. TypeOK'
  BY <1>1, <1>2, <1>6 DEF IInv, TypeOK, worker, Deliveries
<1>8. InFlight' /\ Captured'
  BY <1>2, <1>3, <1>4, <1>5 DEF IInv, TypeOK, InFlight, Captured
<1>9. Stages' /\ Waiting' /\ AtMostOnce'
  BY <1>2, <1>3, <1>4, <1>5 DEF IInv, TypeOK, Stages, Waiting, AtMostOnce, worker
<1> QED BY <1>7, <1>8, <1>9 DEF IInv

\* What a step of a worker leaves alone.
WorkerOnly == UNCHANGED <<server, attached, failures>>

LEMMA ReceivesInv ==
  ASSUME IInv, NEW m \in Messages, Receives(m)
  PROVE  IInv'
<1>1. /\ WorkerOnly /\ UNCHANGED replied /\ delivery[m] = "asked" /\ m \in delivering
      /\ To[m] \in Recipients /\ receipt[m] = "queued" /\ m \notin followUps
  BY DEF Receives, WorkerOnly, IInv, InFlight, Waiting
<1>2. CASE /\ entries[m] > 0 /\ delivery' = [delivery EXCEPT ![m] = "ok"]
           /\ UNCHANGED <<turn, followUps, entries>>
  <2>1. entries[m] = 1
    BY <1>2 DEF IInv, AtMostOnce
  <2> QED BY <1>1, <1>2, <2>1 DEF IInv, TypeOK, InFlight, Captured, Stages, Waiting, AtMostOnce,
                                  WorkerOnly, server, Deliveries
<1>3. CASE /\ entries[m] = 0 /\ entries' = [entries EXCEPT ![m] = @ + 1]
           /\ delivery' = [delivery EXCEPT ![m] = "ok"] /\ UNCHANGED <<turn, followUps>>
  <2>1. TypeOK' /\ InFlight' /\ Captured'
    BY <1>1, <1>3 DEF IInv, TypeOK, InFlight, Captured, WorkerOnly, server, Deliveries
  <2>2. Stages' /\ Waiting' /\ AtMostOnce'
    BY <1>1, <1>3 DEF IInv, TypeOK, Stages, Waiting, AtMostOnce, WorkerOnly, server
  <2> QED BY <2>1, <2>2 DEF IInv
<1>4. CASE /\ entries[m] = 0 /\ followUps' = followUps \cup {m}
           /\ delivery' = [delivery EXCEPT ![m] = "waiting"] /\ UNCHANGED <<turn, entries>>
  <2>1. TypeOK' /\ InFlight' /\ Captured'
    BY <1>1, <1>4 DEF IInv, TypeOK, InFlight, Captured, WorkerOnly, server, Deliveries
  <2>2. Stages' /\ Waiting' /\ AtMostOnce'
    BY <1>1, <1>4 DEF IInv, TypeOK, InFlight, Stages, Waiting, AtMostOnce, WorkerOnly, server
  <2> QED BY <2>1, <2>2 DEF IInv
<1>5. CASE /\ entries[m] = 0 /\ turn[To[m]] = None /\ turn' = [turn EXCEPT ![To[m]] = m]
           /\ delivery' = [delivery EXCEPT ![m] = "preflight"] /\ UNCHANGED <<followUps, entries>>
  <2>1. TypeOK' /\ InFlight' /\ Captured'
    BY <1>1, <1>5 DEF IInv, TypeOK, InFlight, Captured, WorkerOnly, server, Deliveries
  <2>2. \A x \in Messages : delivery[x] \in {"preflight", "turn"} => To[x] # To[m]
    BY <1>5 DEF IInv, Stages
  <2>3. Stages'
    BY <1>1, <1>5, <2>2 DEF IInv, TypeOK, Stages, WorkerOnly
  <2>4. Waiting' /\ AtMostOnce'
    BY <1>1, <1>5 DEF IInv, TypeOK, Waiting, AtMostOnce, WorkerOnly, server
  <2> QED BY <2>1, <2>3, <2>4 DEF IInv
<1> QED BY <1>2, <1>3, <1>4, <1>5 DEF Receives

LEMMA PromptEntersInv ==
  ASSUME IInv, NEW m \in Messages, PromptEnters(m)
  PROVE  IInv'
<1>1. /\ WorkerOnly /\ UNCHANGED <<turn, followUps, replied>> /\ delivery[m] = "preflight"
      /\ entries[m] = 0 /\ turn[To[m]] = m /\ m \in delivering /\ m \notin followUps
      /\ entries' = [entries EXCEPT ![m] = @ + 1] /\ delivery' = [delivery EXCEPT ![m] = "turn"]
  BY DEF PromptEnters, WorkerOnly, IInv, InFlight, Stages, Waiting
<1>2. TypeOK' /\ InFlight' /\ Captured'
  BY <1>1 DEF IInv, TypeOK, InFlight, Captured, WorkerOnly, server, Deliveries
<1>3. Stages' /\ Waiting' /\ AtMostOnce'
  BY <1>1 DEF IInv, TypeOK, Stages, Waiting, AtMostOnce, WorkerOnly, server
<1> QED BY <1>2, <1>3 DEF IInv

LEMMA TakesFollowUpInv ==
  ASSUME IInv, NEW m \in Messages, TakesFollowUp(m)
  PROVE  IInv'
<1>1. /\ WorkerOnly /\ UNCHANGED <<turn, replied>> /\ m \in followUps
      /\ followUps' = followUps \ {m} /\ entries' = [entries EXCEPT ![m] = @ + 1]
      /\ delivery' = IF delivery[m] = "waiting" THEN [delivery EXCEPT ![m] = "ok"] ELSE delivery
      /\ entries[m] = 0 /\ delivery[m] \in {"none", "waiting", "error"}
  BY DEF TakesFollowUp, WorkerOnly, IInv, Waiting
<1>2. TypeOK' /\ InFlight' /\ Captured'
  BY <1>1 DEF IInv, TypeOK, InFlight, Captured, WorkerOnly, server, Deliveries
<1>3. Stages' /\ Waiting' /\ AtMostOnce'
  BY <1>1 DEF IInv, TypeOK, Stages, Waiting, AtMostOnce, WorkerOnly, server
<1> QED BY <1>2, <1>3 DEF IInv

LEMMA TimesOutInv ==
  ASSUME IInv, NEW m \in Messages, TimesOut(m)
  PROVE  IInv'
BY DEF TimesOut, IInv, TypeOK, InFlight, Captured, Stages, Waiting, AtMostOnce, server, worker,
       Deliveries

LEMMA TurnEndsInv ==
  ASSUME IInv, NEW r \in Recipients, NEW well \in BOOLEAN, TurnEnds(r, well)
  PROVE  IInv'
<1>1. /\ WorkerOnly /\ UNCHANGED <<followUps, entries>>
      /\ turn' = [turn EXCEPT ![r] = None] /\ replied' = replied \cup {r}
  BY DEF TurnEnds, WorkerOnly
<1>2. CASE turn[r] \notin Messages
  <2>1. UNCHANGED delivery
    BY <1>2 DEF TurnEnds
  <2> QED BY <1>1, <1>2, <2>1 DEF IInv, TypeOK, InFlight, Captured, Stages, Waiting, AtMostOnce,
                                  WorkerOnly, server
<1>3. CASE turn[r] \in Messages
  <2> DEFINE m == turn[r]
  <2>1. /\ m \in Messages /\ To[m] = r /\ delivery[m] \in {"preflight", "turn"}
        /\ delivery[m] = "turn" => entries[m] = 1
        /\ m \in delivering /\ m \notin followUps
    BY <1>3 DEF IInv, InFlight, Stages, Waiting
  <2>2. delivery' = [delivery EXCEPT ![m] = IF well THEN "ok" ELSE "error"]
    BY <1>3 DEF TurnEnds
  <2>3. well => delivery[m] = "turn"
    <3>1. well => Working(r)
      BY DEF TurnEnds
    <3> QED BY <1>3, <3>1 DEF Working
  <2>4. TypeOK' /\ InFlight' /\ Captured'
    BY <1>1, <2>1, <2>2 DEF IInv, TypeOK, InFlight, Captured, WorkerOnly, server, Deliveries
  <2>5. \A x \in Messages : x # m /\ delivery[x] \in {"preflight", "turn"} => To[x] # r
    BY DEF IInv, Stages
  <2>6. Stages'
    <3>1. \A x \in Messages : delivery'[x] \in {"preflight", "turn"} => turn'[To[x]] = x
      BY <1>1, <2>1, <2>2, <2>5 DEF IInv, TypeOK, Stages
    <3>2. \A q \in Recipients :
            turn'[q] \in Messages => To[turn'[q]] = q /\ delivery'[turn'[q]] \in {"preflight", "turn"}
      BY <1>1, <2>1, <2>2 DEF IInv, TypeOK, Stages
    <3>3. \A x \in Messages : /\ delivery'[x] \in {"preflight", "waiting"} => entries'[x] = 0
                              /\ delivery'[x] \in {"turn", "ok"} => entries'[x] = 1
      BY <1>1, <2>1, <2>2, <2>3 DEF IInv, TypeOK, Stages
    <3> QED BY <3>1, <3>2, <3>3 DEF Stages
  <2>7. Waiting' /\ AtMostOnce'
    BY <1>1, <2>1, <2>2 DEF IInv, TypeOK, Waiting, AtMostOnce, WorkerOnly, server
  <2> QED BY <2>4, <2>6, <2>7 DEF IInv
<1> QED BY <1>2, <1>3

LEMMA ChatInv ==
  ASSUME IInv, NEW r \in Recipients, UserPrompts(r) \/ Replies(r) \/ ClearsQueue(r)
  PROVE  IInv'
<1>1. WorkerOnly /\ UNCHANGED <<delivery, entries>>
  BY DEF UserPrompts, Replies, ClearsQueue, WorkerOnly
<1>2. CASE UserPrompts(r)
  <2>1. turn[r] = None /\ turn' = [turn EXCEPT ![r] = User] /\ UNCHANGED <<followUps, replied>>
    BY <1>2 DEF UserPrompts
  <2> QED BY <1>1, <2>1 DEF IInv, TypeOK, InFlight, Captured, Stages, Waiting, AtMostOnce,
                            WorkerOnly, server
<1>3. CASE Replies(r)
  BY <1>1, <1>3 DEF Replies, IInv, TypeOK, InFlight, Captured, Stages, Waiting, AtMostOnce,
                    WorkerOnly, server
<1>4. CASE ClearsQueue(r)
  BY <1>1, <1>4 DEF ClearsQueue, IInv, TypeOK, InFlight, Captured, Stages, Waiting, AtMostOnce,
                    WorkerOnly, server
<1> QED BY <1>2, <1>3, <1>4

\* When workers end, only messages of running turns leave a transcript.
LEMMA WorkersEndEntries ==
  ASSUME IInv, NEW rs \in SUBSET Recipients, WorkersEnd(rs)
  PROVE  /\ entries' \in [Messages -> Nat] /\ turn' \in [Recipients -> Messages \cup {None, User}]
         /\ followUps' \subseteq followUps /\ replied' = replied
         /\ \A m \in followUps' : To[m] \notin rs
         /\ \A r \in Recipients : turn'[r] = IF r \in rs THEN None ELSE turn[r]
         /\ \A m \in Unwritten(rs) : m \in Messages /\ receipt[m] = "queued" /\ entries[m] = 1 /\ To[m] \in rs
         /\ \A m \in Messages : entries'[m] = IF m \in Unwritten(rs) THEN 0 ELSE entries[m]
<1>1. \A m \in Unwritten(rs) :
        m \in Messages /\ receipt[m] = "queued" /\ entries[m] = 1 /\ To[m] \in rs
  BY DEF Unwritten, IInv, InFlight, Stages
<1>2. \A m \in Messages : entries'[m] = IF m \in Unwritten(rs) THEN 0 ELSE entries[m]
  BY <1>1 DEF WorkersEnd
<1>3. entries' \in [Messages -> Nat]
  <2>1. entries' = [m \in Messages |-> IF m \in Unwritten(rs) THEN entries[m] - 1 ELSE entries[m]]
    BY DEF WorkersEnd
  <2>2. \A m \in Messages : (IF m \in Unwritten(rs) THEN entries[m] - 1 ELSE entries[m]) \in Nat
    BY <1>1 DEF IInv, TypeOK
  <2> QED BY <2>1, <2>2
<1>4. turn' = [r \in Recipients |-> IF r \in rs THEN None ELSE turn[r]]
  BY DEF WorkersEnd
<1>5. turn' \in [Recipients -> Messages \cup {None, User}]
  BY <1>4 DEF IInv, TypeOK
<1> QED BY <1>1, <1>2, <1>3, <1>4, <1>5 DEF WorkersEnd

LEMMA WorkerEndsInv ==
  ASSUME IInv, NEW r \in Recipients, WorkerEnds(r)
  PROVE  IInv'
<1>1. /\ UNCHANGED server /\ attached' = attached \ {r} /\ WorkersEnd({r})
      /\ delivery' = [m \in Messages |-> IF To[m] = r /\ delivery[m] # "none" THEN "error" ELSE delivery[m]]
      /\ failures < MaxFailures /\ failures' = failures + 1
  BY DEF WorkerEnds
<1>2. /\ entries' \in [Messages -> Nat] /\ turn' \in [Recipients -> Messages \cup {None, User}]
      /\ followUps' \subseteq followUps /\ replied' = replied
      /\ \A m \in followUps' : To[m] \notin {r}
      /\ \A q \in Recipients : turn'[q] = IF q \in {r} THEN None ELSE turn[q]
      /\ \A m \in Unwritten({r}) : m \in Messages /\ receipt[m] = "queued" /\ entries[m] = 1 /\ To[m] \in {r}
      /\ \A m \in Messages : entries'[m] = IF m \in Unwritten({r}) THEN 0 ELSE entries[m]
  <2>1. {r} \in SUBSET Recipients
    OBVIOUS
  <2> QED BY <1>1, <2>1, WorkersEndEntries
<1>3. \A m \in Messages : To[m] = r => delivery'[m] \in {"none", "error"}
  BY <1>1
<1>4. \A m \in Messages : To[m] # r => delivery'[m] = delivery[m] /\ entries'[m] = entries[m]
  BY <1>1, <1>2
<1>5. TypeOK'
  <2>1. delivery' \in [Messages -> Deliveries]
    BY <1>1 DEF IInv, TypeOK, Deliveries
  <2>2. failures' \in 0..MaxFailures
    BY <1>1 DEF IInv, TypeOK
  <2> QED BY <1>1, <1>2, <2>1, <2>2 DEF IInv, TypeOK, server
<1>6. InFlight' /\ Captured'
  BY <1>1 DEF IInv, TypeOK, InFlight, Captured, server
<1>7. Stages'
  <2>1. \A m \in Messages : delivery'[m] \in {"preflight", "turn"} => turn'[To[m]] = m
    BY <1>2, <1>3, <1>4 DEF IInv, Stages
  <2>2. \A q \in Recipients :
          turn'[q] \in Messages => To[turn'[q]] = q /\ delivery'[turn'[q]] \in {"preflight", "turn"}
    BY <1>2, <1>4 DEF IInv, Stages
  <2>3. \A m \in Messages : /\ delivery'[m] \in {"preflight", "waiting"} => entries'[m] = 0
                            /\ delivery'[m] \in {"turn", "ok"} => entries'[m] = 1
    BY <1>3, <1>4 DEF IInv, Stages
  <2> QED BY <2>1, <2>2, <2>3 DEF Stages
<1>8. Waiting'
  BY <1>1, <1>2, <1>4 DEF IInv, TypeOK, Waiting, server
<1>9. AtMostOnce'
  BY <1>1, <1>2 DEF IInv, AtMostOnce, server
<1> QED BY <1>5, <1>6, <1>7, <1>8, <1>9 DEF IInv

LEMMA ServerCrashInv ==
  ASSUME IInv, ServerCrash
  PROVE  IInv'
<1>1. PICK gone \in SUBSET Settled : receipt' = Forgetting(gone, receipt)
  BY DEF ServerCrash
<1>2. /\ delivering' = {} /\ visited' = [p \in Pumps |-> {}] /\ at' = [p \in Pumps |-> None]
      /\ found' = [p \in Pumps |-> FALSE] /\ lookupFailed' = FALSE
      /\ delivery' = [m \in Messages |-> "none"] /\ attached' = {} /\ WorkersEnd(Recipients)
      /\ failures < MaxFailures /\ failures' = failures + 1 /\ UNCHANGED sent
  BY DEF ServerCrash
<1>3. /\ receipt' \in [Messages -> Receipts]
      /\ \A m \in Messages : receipt'[m] = IF m \in gone THEN "absent" ELSE receipt[m]
  BY <1>1 DEF Forgetting, IInv, TypeOK, Receipts
<1>4. /\ entries' \in [Messages -> Nat] /\ turn' \in [Recipients -> Messages \cup {None, User}]
      /\ followUps' \subseteq followUps /\ replied' = replied
      /\ \A m \in followUps' : To[m] \notin Recipients
      /\ \A q \in Recipients : turn'[q] = IF q \in Recipients THEN None ELSE turn[q]
      /\ \A m \in Unwritten(Recipients) :
           m \in Messages /\ receipt[m] = "queued" /\ entries[m] = 1 /\ To[m] \in Recipients
      /\ \A m \in Messages : entries'[m] = IF m \in Unwritten(Recipients) THEN 0 ELSE entries[m]
  BY <1>2, WorkersEndEntries
<1>5. TypeOK'
  <2>1. failures' \in 0..MaxFailures
    BY <1>2 DEF IInv, TypeOK
  <2>2. delivery' \in [Messages -> Deliveries] /\ delivering' \subseteq Messages /\ lookupFailed' \in BOOLEAN
    BY <1>2 DEF Deliveries
  <2>3. at' \in [Pumps -> Messages \cup {None}] /\ visited' \in [Pumps -> SUBSET Messages] /\ found' \in [Pumps -> BOOLEAN]
    BY <1>2
  <2>4. followUps' \subseteq Messages /\ replied' \subseteq Recipients /\ sent' \subseteq Messages
    BY <1>2, <1>4 DEF IInv, TypeOK
  <2> QED BY <1>2, <1>3, <1>4, <2>1, <2>2, <2>3, <2>4 DEF TypeOK
<1>6. InFlight' /\ Captured'
  BY <1>2, <1>3 DEF IInv, InFlight, Captured
<1>7. Stages'
  BY <1>2, <1>4 DEF Stages
<1>8. followUps' = {}
  BY <1>4 DEF IInv, TypeOK
<1>9. Waiting' /\ AtMostOnce'
  BY <1>3, <1>4, <1>8 DEF IInv, Waiting, AtMostOnce
<1> QED BY <1>5, <1>6, <1>7, <1>9 DEF IInv

LEMMA StutterInv == IInv /\ UNCHANGED vars => IInv'
BY DEF IInv, TypeOK, InFlight, Captured, Stages, Waiting, AtMostOnce, vars, server, worker

LEMMA StepInv == IInv /\ [Next]_vars => IInv'
<1> SUFFICES ASSUME IInv, Next PROVE IInv'
  BY StutterInv
<1>1. ASSUME NEW p \in Pumps, PumpDelivers(p) \/ CatalogAnswers(p) \/ CatalogFails(p) PROVE IInv'
  BY <1>1, PumpDeliversInv, CatalogInv
<1>2. ASSUME NEW m \in Messages,
             SendMessage(m) \/ Answered(m) \/ Receives(m) \/ PromptEnters(m) \/ TakesFollowUp(m) \/ TimesOut(m)
      PROVE  IInv'
  BY <1>2, SendMessageInv, AnsweredInv, ReceivesInv, PromptEntersInv, TakesFollowUpInv, TimesOutInv
<1>3. ASSUME NEW r \in Recipients, UserPrompts(r) \/ Replies(r) \/ ClearsQueue(r) PROVE IInv'
  BY <1>3, ChatInv
<1>4. ASSUME NEW r \in Recipients, Attach(r) PROVE IInv'
  <2>1. /\ StartPump(receipt, attached') /\ attached' \subseteq Recipients
        /\ UNCHANGED <<receipt, sent, delivering, delivery, worker, failures>>
    BY <1>4 DEF Attach, IInv, TypeOK
  <2> QED BY <2>1, PumpStartsInv
<1>5. ASSUME NEW r \in Recipients, WorkerEnds(r) PROVE IInv'
  BY <1>5, WorkerEndsInv
<1>6. ASSUME NEW r \in Recipients, NEW well \in BOOLEAN, TurnEnds(r, well) PROVE IInv'
  BY <1>6, TurnEndsInv
<1>7. CASE FleetChanges
  <2>1. /\ StartPump(receipt, attached) /\ attached' \subseteq Recipients
        /\ UNCHANGED <<receipt, sent, delivering, delivery, worker, failures>>
    BY <1>7 DEF FleetChanges, IInv, TypeOK
  <2> QED BY <2>1, PumpStartsInv
<1>8. CASE ServerCrash
  BY <1>8, ServerCrashInv
<1> QED BY <1>1, <1>2, <1>3, <1>4, <1>5, <1>6, <1>7, <1>8 DEF Next

LEMMA Invariant == Spec => []IInv
BY InitInv, StepInv, PTL DEF Spec

\* Every variable of the mailbox, its pumps and the recipients keeps its type.
THEOREM TypeCorrect == Spec => []TypeOK
<1>1. IInv => TypeOK
  BY DEF IInv
<1> QED BY <1>1, Invariant, PTL

\* No message enters a transcript twice, and a delivered one is in it, for any
\* number of pumps, crashes, worker exits, time-outs and repeated sends.
THEOREM DeliveredOnce == Spec => []AtMostOnce
<1>1. IInv => AtMostOnce
  BY DEF IInv
<1> QED BY <1>1, Invariant, PTL

\* No receipt is settled while the turn its message started still runs.
THEOREM ReceiptsFollowTurns == Spec => []SettledAfterTheTurn
<1>1. IInv => SettledAfterTheTurn
  BY DEF IInv, TypeOK, InFlight, Stages, SettledAfterTheTurn
<1> QED BY <1>1, Invariant, PTL

-----------------------------------------------------------------------------
(* The refinement.                                                         *)

LEMMA RefInit == Init => Promise!Init
BY DEF Init, Promise!Init

LEMMA RefEnter ==
  ASSUME IInv, NEW m \in Messages, m \in sent, entries[m] = 0,
         entries' = [entries EXCEPT ![m] = @ + 1], UNCHANGED <<sent, receipt>>
  PROVE  Promise!Next
<1>1. entries' = [entries EXCEPT ![m] = 1]
  BY DEF IInv, TypeOK
<1>2. Promise!Enter(m)
  BY <1>1 DEF Promise!Enter
<1> QED BY <1>2 DEF Promise!Next

LEMMA RefSetback ==
  ASSUME IInv, NEW rs \in SUBSET Recipients, WorkersEnd(rs), NEW gone \in SUBSET Settled,
         receipt' = Forgetting(gone, receipt), UNCHANGED sent
  PROVE  Promise!Next
<1>1. /\ entries' = [m \in Messages |-> entries'[m]]
      /\ \A m \in Unwritten(rs) : m \in Messages /\ receipt[m] = "queued" /\ entries[m] = 1
      /\ \A m \in Messages : entries'[m] = IF m \in Unwritten(rs) THEN 0 ELSE entries[m]
  <2>1. entries' \in [Messages -> Nat]
    BY WorkersEndEntries
  <2> QED BY <2>1, WorkersEndEntries
<1>2. entries' = [m \in Messages |-> IF m \in Unwritten(rs) THEN 0 ELSE entries[m]]
  BY <1>1
<1>3. Unwritten(rs) \in SUBSET {m \in Messages : receipt[m] = "queued" /\ entries[m] = 1}
  BY <1>1
<1>4. gone \in SUBSET Promise!Settled
  BY DEF Settled, Promise!Settled
<1>5. receipt' = [m \in Messages |-> IF m \in gone THEN "absent" ELSE receipt[m]]
  BY DEF Forgetting
<1>6. Promise!Setback
  BY <1>2, <1>3, <1>4, <1>5 DEF Promise!Setback
<1> QED BY <1>6 DEF Promise!Next

LEMMA RefStep == IInv /\ [Next]_vars => [Promise!Next]_(Promise!vars)
<1> SUFFICES ASSUME IInv, Next PROVE Promise!Next \/ UNCHANGED <<sent, receipt, entries>>
  BY DEF vars, server, worker, Promise!vars
<1>1. ASSUME NEW p \in Pumps, PumpDelivers(p) \/ CatalogAnswers(p) \/ CatalogFails(p)
      PROVE  UNCHANGED <<sent, receipt, entries>>
  BY <1>1 DEF PumpDelivers, CatalogAnswers, CatalogFails, worker
<1>2. ASSUME NEW m \in Messages, SendMessage(m)
      PROVE  Promise!Next \/ UNCHANGED <<sent, receipt, entries>>
  <2>1. UNCHANGED entries
    BY <1>2 DEF SendMessage, worker
  <2>2. CASE UNCHANGED <<receipt, sent>>
    BY <2>1, <2>2
  <2>3. CASE receipt[m] = "absent" /\ receipt' = [receipt EXCEPT ![m] = "queued"] /\ sent' = sent \cup {m}
    BY <2>1, <2>3 DEF Promise!Next, Promise!Send
  <2> QED BY <1>2, <2>2, <2>3 DEF SendMessage
<1>3. ASSUME NEW m \in Messages, Answered(m) PROVE Promise!Next
  <2> DEFINE outcome == IF delivery[m] = "ok" THEN "delivered" ELSE "failed"
  <2>1. PICK gone \in SUBSET Settled : receipt' = Forgetting(gone, [receipt EXCEPT ![m] = outcome])
    BY <1>3 DEF Answered
  <2>2. /\ UNCHANGED <<sent, entries>> /\ receipt[m] = "queued" /\ m \notin gone
        /\ delivery[m] = "ok" => entries[m] = 1
    BY <1>3 DEF Answered, worker, IInv, InFlight, Stages, Settled
  <2>3. receipt' = [x \in Messages |-> IF x = m THEN outcome
                                       ELSE IF x \in gone THEN "absent" ELSE receipt[x]]
    <3>1. \A x \in Messages : [receipt EXCEPT ![m] = outcome][x] = IF x = m THEN outcome ELSE receipt[x]
      BY DEF IInv, TypeOK
    <3> QED BY <2>1, <2>2, <3>1 DEF Forgetting
  <2>4. gone \in SUBSET Promise!Settled
    BY DEF Settled, Promise!Settled
  <2>5. Promise!Settle(m, outcome)
    BY <2>2, <2>3, <2>4 DEF Promise!Settle
  <2>6. outcome \in {"delivered", "failed"}
    OBVIOUS
  <2> QED BY <2>5, <2>6 DEF Promise!Next
<1>4. ASSUME NEW m \in Messages, Receives(m)
      PROVE  Promise!Next \/ UNCHANGED <<sent, receipt, entries>>
  <2>1. UNCHANGED <<sent, receipt>> /\ m \in sent
    BY <1>4 DEF Receives, server, IInv, InFlight
  <2>2. CASE UNCHANGED entries
    BY <2>1, <2>2
  <2>3. CASE entries[m] = 0 /\ entries' = [entries EXCEPT ![m] = @ + 1]
    BY <2>1, <2>3, RefEnter
  <2> QED BY <1>4, <2>2, <2>3 DEF Receives
<1>5. ASSUME NEW m \in Messages, PromptEnters(m) PROVE Promise!Next
  <2>1. /\ UNCHANGED <<sent, receipt>> /\ m \in sent /\ entries[m] = 0
        /\ entries' = [entries EXCEPT ![m] = @ + 1]
    BY <1>5 DEF PromptEnters, server, IInv, InFlight, Stages
  <2> QED BY <2>1, RefEnter
<1>6. ASSUME NEW m \in Messages, TakesFollowUp(m) PROVE Promise!Next
  <2>1. /\ UNCHANGED <<sent, receipt>> /\ m \in sent /\ entries[m] = 0
        /\ entries' = [entries EXCEPT ![m] = @ + 1]
    BY <1>6 DEF TakesFollowUp, server, IInv, Waiting
  <2> QED BY <2>1, RefEnter
<1>7. ASSUME NEW m \in Messages, TimesOut(m) PROVE UNCHANGED <<sent, receipt, entries>>
  BY <1>7 DEF TimesOut, server, worker
<1>8. ASSUME NEW r \in Recipients, UserPrompts(r) \/ Replies(r) \/ ClearsQueue(r) \/ Attach(r)
      PROVE  UNCHANGED <<sent, receipt, entries>>
  BY <1>8 DEF UserPrompts, Replies, ClearsQueue, Attach, server, worker
<1>9. ASSUME NEW r \in Recipients, NEW well \in BOOLEAN, TurnEnds(r, well)
      PROVE  UNCHANGED <<sent, receipt, entries>>
  BY <1>9 DEF TurnEnds, server
<1>10. ASSUME NEW r \in Recipients, WorkerEnds(r) PROVE Promise!Next
  <2>1. {r} \in SUBSET Recipients /\ WorkersEnd({r}) /\ UNCHANGED <<sent, receipt>>
    BY <1>10 DEF WorkerEnds, server
  <2>2. {} \in SUBSET Settled /\ receipt' = Forgetting({}, receipt)
    BY <2>1 DEF Forgetting, IInv, TypeOK
  <2> QED BY <2>1, <2>2, RefSetback
<1>11. CASE FleetChanges
  BY <1>11 DEF FleetChanges, worker
<1>12. CASE ServerCrash
  <2>1. PICK gone \in SUBSET Settled : receipt' = Forgetting(gone, receipt)
    BY <1>12 DEF ServerCrash
  <2>2. Recipients \in SUBSET Recipients /\ WorkersEnd(Recipients) /\ UNCHANGED sent
    BY <1>12 DEF ServerCrash
  <2> QED BY <2>1, <2>2, RefSetback
<1> QED BY <1>1, <1>2, <1>3, <1>4, <1>5, <1>6, <1>7, <1>8, <1>9, <1>10, <1>11, <1>12 DEF Next

\* The mailbox, its pumps and the recipients' sessions implement the delivery
\* that senders are promised: every step is one of it, or changes nothing of it.
THEOREM Implements == Spec => KeepsPromise
BY RefInit, RefStep, Invariant, PTL DEF Spec, KeepsPromise, Promise!Spec

\* What is promised suffices: in every behaviour of ExactlyOnceDelivery, whoever
\* implements it, no message enters twice and a delivered one has entered.
THEOREM PromiseSuffices == KeepsPromise => []AtMostOnce
<1> DEFINE Inv == /\ receipt \in [Messages -> Receipts]
                  /\ DOMAIN entries = Messages
                  /\ AtMostOnce
<1>1. Promise!Init => Inv
  BY DEF Promise!Init, AtMostOnce, Receipts
<1>2. Inv /\ [Promise!Next]_(Promise!vars) => Inv'
  <2> SUFFICES ASSUME Inv, Promise!Next PROVE Inv'
    BY DEF Promise!vars, AtMostOnce
  <2>1. ASSUME NEW m \in Messages, Promise!Send(m) \/ Promise!Enter(m) PROVE Inv'
    BY <2>1 DEF Promise!Send, Promise!Enter, AtMostOnce, Receipts
  <2>2. ASSUME NEW m \in Messages, NEW outcome \in {"delivered", "failed"}, Promise!Settle(m, outcome)
        PROVE  Inv'
    BY <2>2 DEF Promise!Settle, AtMostOnce, Receipts
  <2>3. CASE Promise!Setback
    BY <2>3 DEF Promise!Setback, AtMostOnce, Receipts
  <2> QED BY <2>1, <2>2, <2>3 DEF Promise!Next
<1>3. Inv => AtMostOnce
  OBVIOUS
<1> QED BY <1>1, <1>2, <1>3, PTL DEF KeepsPromise, Promise!Spec

=============================================================================
