------------------------- MODULE OwnedSession_proofs -------------------------
(***************************************************************************)
(* Proofs about OwnedSession for every set of requests and every number of *)
(* Stops and agent runs.                                                   *)
(*                                                                         *)
(* A request goes through four phases: not yet made, early (its answer is  *)
(* outstanding, or it waits for the turn), at the worker, and done.  Only  *)
(* a step that takes or gives up the turn moves a request into or out of   *)
(* the third (Owners).  The turn that owns the session is the latest one,  *)
(* and ids that were used are behind: of requests past the early phase, or *)
(* minted before (Named).  Who was early when Stop was pressed carries an  *)
(* epoch that is gone (Early).                                             *)
(*                                                                         *)
(* RestIsRest and RunsAreVisible depend on the lines in the pipe: every    *)
(* turn that holds the session, and every start on its way, is ended by a  *)
(* line behind it, by the run of the moment or by the return of the owner  *)
(* (Closed), and the run of the moment has a start that no end follows     *)
(* (Shown).  RInv has these and what they rest on.                         *)
(***************************************************************************)
EXTENDS OwnedSession, FiniteSetTheorems, TLAPS

USE SessionAssumption DEF SessionAssumption

\* The stages of the second and of the third phase.
EarlyStages == {"answering", "continuing", "waiting", "woken"}
WorkerStages == {"sent", "returned", "failed"}

Owners ==
  /\ foreground = IF owning = {} THEN 0 ELSE 1
  /\ \A r, s \in owning : r = s
  /\ \A r \in owning : stage[r] \in WorkerStages
  /\ \A r \in Prompts \cup Answers : stage[r] \in WorkerStages => r \in owning

Named ==
  /\ context # None => context = latest.id
  /\ latest.id = None => latest.state = "none"
  /\ latest.state \in Over => latest.id \in over
  /\ \A t \in over \cup {latest.id} :
       /\ t \in Requests => stage[t] \in WorkerStages \cup {"done"}
       /\ t \in Nat => t <= minted

Early ==
  /\ \A r \in Requests : captured[r] <= epoch
  /\ \A r \in silenced : stage[r] # "none" /\ (stage[r] \in EarlyStages => captured[r] < epoch)

IInv == TypeOK /\ Owners /\ Named /\ Early

-----------------------------------------------------------------------------
(* The phases of requests.                                                 *)

\* A step that leaves every request in its phase, or rejects an early one.
Steady ==
  \A r \in Requests :
    \/ stage'[r] = stage[r]
    \/ stage[r] \in EarlyStages /\ stage'[r] \in EarlyStages \cup {"done"}
    \/ stage[r] = "sent" /\ stage'[r] \in {"returned", "failed"}

LEMMA ReleasedIsSteady ==
  ASSUME NEW st \in [Requests -> Stages], NEW c, NEW f
  PROVE  /\ Released(st, c, f) \in [Requests -> Stages]
         /\ \A r \in Requests : \/ Released(st, c, f)[r] = st[r]
                                \/ st[r] = "waiting" /\ Released(st, c, f)[r] = "woken"
  BY DEF Released, Stages

\* What a step that ends the turn of the context does.
LEMMA EndsTurnShape ==
  ASSUME TypeOK, Named, NEW o \in Over, EndsTurn(o)
  PROVE  /\ stage' \in [Requests -> Stages] /\ Steady
         /\ context' \in {context, None}
         /\ latest' \in {latest, [latest EXCEPT !.state = o]}
         /\ latest.state \in Over => latest' = latest
         /\ latest.id = None => latest' = latest
         /\ UNCHANGED <<foreground, owning, minted>>
  BY ReleasedIsSteady DEF TypeOK, Named, EndsTurn, Ended, Under, Steady, EarlyStages, WorkerStages, Stages, Over

LEMMA SaysTyped ==
  ASSUME pipe \in Seq(Line), NEW kind \in {"start", "end", "retryEnd", "response", "ack"},
         NEW of \in Requests \cup Stops \cup {None}, NEW well \in BOOLEAN, Says(kind, of, well)
  PROVE  pipe' \in Seq(Line)
<1>1. [kind |-> kind, of |-> of, well |-> well] \in Line
  BY DEF Line
<1> QED BY <1>1 DEF Says

LEMMA ReadsTyped ==
  ASSUME pipe \in Seq(Line), NEW kind, Reads(kind)
  PROVE  Head(pipe) \in Line /\ pipe' \in Seq(Line)
  BY DEF Reads

\* A request that goes to the worker.
LEMMA SendsShape ==
  ASSUME TypeOK, Named, NEW r \in Requests, NEW own, Sends(r, own)
  PROVE  /\ stage' = [stage EXCEPT ![r] = "sent"] /\ stage' \in [Requests -> Stages]
         /\ IF own THEN /\ foreground' = foreground + 1 /\ owning' = owning \cup {r}
                        /\ context' = r /\ latest' = [id |-> r, state |-> "running"]
                   ELSE UNCHANGED <<foreground, owning, context, latest>>
         /\ pipe' \in Seq(Line) /\ work' \in [Requests -> Works] /\ halted' \in BOOLEAN
         /\ starts' \in 0..MaxStarts /\ UNCHANGED <<minted, exited>>
<1>1. stage' = [stage EXCEPT ![r] = "sent"] /\ stage' \in [Requests -> Stages]
  BY DEF Sends, TypeOK, Stages
<1>2. pipe' \in Seq(Line)
  <2>1. CASE Says("response", r, FALSE)
    BY <2>1, SaysTyped DEF TypeOK
  <2>2. CASE Says("start", None, TRUE)
    BY <2>2, SaysTyped DEF TypeOK
  <2>3. CASE UNCHANGED pipe
    BY <2>3 DEF TypeOK
  <2> QED BY <2>1, <2>2, <2>3 DEF Sends
<1>3. work' \in [Requests -> Works]
  <2>1. \/ work' = work \/ work' = [work EXCEPT ![r] = "preflight"]
        \/ work' = [work EXCEPT ![r] = "queued"] \/ work' = [work EXCEPT ![r] = "running"]
    BY DEF Sends
  <2> QED BY <2>1 DEF TypeOK, Works
<1>4. /\ halted' = halted \/ halted' = FALSE
      /\ starts' = starts \/ (starts < MaxStarts /\ starts' = starts + 1)
  BY DEF Sends
<1>5. halted' \in BOOLEAN
  <2>1. halted \in BOOLEAN
    BY DEF TypeOK
  <2> QED BY <1>4, <2>1
<1>6. starts' \in 0..MaxStarts
  <2>1. starts \in 0..MaxStarts /\ MaxStarts \in Nat
    BY DEF TypeOK
  <2> QED BY <1>4, <2>1
<1> QED BY <1>1, <1>2, <1>3, <1>5, <1>6 DEF Sends

-----------------------------------------------------------------------------
(* Types.                                                                  *)

LEMMA ObservesTyped ==
  ASSUME TypeOK, Named, Observes, latest'.state \in Over => latest'.id \in Turns
  PROVE  over' \subseteq Turns /\ silenced' \subseteq Requests
         /\ overlap' \in BOOLEAN /\ orphaned' \in BOOLEAN
<1>1. over' \subseteq Turns /\ silenced' \subseteq Requests
  BY DEF Observes, TypeOK
<1>2. overlap' \in BOOLEAN
  <2>1. overlap' = TRUE \/ overlap' = FALSE
    BY Zenon DEF Observes
  <2> QED BY <2>1
<1>3. orphaned' \in BOOLEAN
  <2>1. orphaned' = TRUE \/ orphaned' = FALSE
    BY Zenon DEF Observes, TypeOK
  <2> QED BY <2>1
<1> QED BY <1>1, <1>2, <1>3

\* The type invariant, part by part, after a step.
TurnTyped ==
  /\ context' \in Turns \cup {None}
  /\ latest' \in [id : Turns \cup {None}, state : Over \cup {"running", "none"}]
  /\ latest'.id = None => latest'.state = "none"
  /\ foreground' \in 0..1 /\ owning' \subseteq Requests /\ minted' \in Nat
CallsTyped ==
  /\ stage' \in [Requests -> Stages]
  /\ captured' \in [Requests -> 0..MaxStops] /\ epoch' \in 0..MaxStops
  /\ stop' \in [Stops -> {"none", "waiting", "due", "acking", "acked", "done"}]
  /\ target' \in [Stops -> Turns \cup {None}]
WorkerTyped ==
  /\ pipe' \in Seq(Line)
  /\ work' \in [Requests -> Works] /\ halted' \in BOOLEAN /\ starts' \in 0..MaxStarts
  /\ exited' \in BOOLEAN

LEMMA Typed ==
  ASSUME TypeOK, Named, Observes, TurnTyped, CallsTyped, WorkerTyped
  PROVE  TypeOK'
<1>1. latest'.state \in Over => latest'.id \in Turns
  BY DEF TurnTyped, Over
<1>2. over' \subseteq Turns /\ silenced' \subseteq Requests
      /\ overlap' \in BOOLEAN /\ orphaned' \in BOOLEAN
  BY <1>1, ObservesTyped
<1> QED BY <1>2 DEF TypeOK, TurnTyped, CallsTyped, WorkerTyped

LEMMA MoreStarts ==
  ASSUME TypeOK, starts' = starts \/ (starts < MaxStarts /\ starts' = starts + 1)
  PROVE  starts' \in 0..MaxStarts
<1>1. starts \in 0..MaxStarts /\ MaxStarts \in Nat
  BY DEF TypeOK
<1> QED BY <1>1

LEMMA SameTurn   == ASSUME TypeOK, Named, UNCHANGED turn PROVE TurnTyped
  BY DEF TypeOK, Named, TurnTyped, turn
LEMMA SameCalls  == ASSUME TypeOK, UNCHANGED calls PROVE CallsTyped
  BY DEF TypeOK, CallsTyped, calls
LEMMA SameWorker == ASSUME TypeOK, UNCHANGED worker, pipe' \in Seq(Line) PROVE WorkerTyped
  BY DEF TypeOK, WorkerTyped, worker

\* A request goes to the worker as the owner of a turn that nobody holds.
LEMMA SendsTyped ==
  ASSUME TypeOK, Named, Owners, NEW r \in Requests, NEW own,
         Sends(r, own), own => ~Busy
  PROVE  TurnTyped /\ WorkerTyped /\ stage' \in [Requests -> Stages]
<1>1. own => foreground = 0
  BY DEF Busy, TypeOK
<1>2. /\ stage' \in [Requests -> Stages]
      /\ IF own THEN /\ foreground' = foreground + 1 /\ owning' = owning \cup {r}
                     /\ context' = r /\ latest' = [id |-> r, state |-> "running"]
                ELSE UNCHANGED <<foreground, owning, context, latest>>
      /\ pipe' \in Seq(Line) /\ work' \in [Requests -> Works] /\ halted' \in BOOLEAN
      /\ starts' \in 0..MaxStarts /\ UNCHANGED <<minted, exited>>
  BY SendsShape
<1>3. WorkerTyped
  BY <1>2 DEF WorkerTyped, TypeOK
<1>4. r \in Turns /\ r # None
  BY DEF Turns
<1>5. CASE own
  BY <1>1, <1>2, <1>3, <1>4, <1>5 DEF TurnTyped, TypeOK
<1>6. CASE ~own
  BY <1>2, <1>3, <1>6 DEF TurnTyped, TypeOK, Named
<1> QED BY <1>5, <1>6

\* The end of a turn is well typed.
LEMMA EndsTurnTyped ==
  ASSUME TypeOK, Named, NEW o \in Over, EndsTurn(o)
  PROVE  TurnTyped /\ stage' \in [Requests -> Stages]
<1>1. /\ stage' \in [Requests -> Stages]
      /\ context' \in {context, None}
      /\ latest' \in {latest, [latest EXCEPT !.state = o]}
      /\ latest.id = None => latest' = latest
      /\ UNCHANGED <<foreground, owning, minted>>
  BY EndsTurnShape
<1> QED BY <1>1 DEF TurnTyped, TypeOK, Named

\* Every step keeps the types.
LEMMA TypeStep ==
  ASSUME IInv, [Next]_vars
  PROVE  TypeOK'
<1> USE DEF IInv
<1>0. CASE UNCHANGED vars
  BY <1>0 DEF vars, turn, calls, worker, history, TypeOK
<1>1. ASSUME NEW r \in Requests, Prompt(r) PROVE TypeOK'
  <2>1. CASE ~Busy /\ Sends(r, TRUE) /\ UNCHANGED captured
    <3>1. TurnTyped /\ WorkerTyped /\ stage' \in [Requests -> Stages]
      BY <2>1, SendsTyped
    <3>2. CallsTyped
      BY <1>1, <2>1, <3>1 DEF Prompt, CallsTyped, TypeOK
    <3> QED BY <1>1, <3>1, <3>2, Typed DEF Prompt
  <2>2. CASE ~(~Busy /\ Sends(r, TRUE) /\ UNCHANGED captured)
    <3>0. /\ UNCHANGED <<turn, pipe, worker>> /\ UNCHANGED <<epoch, stop, target>>
          /\ captured' = [captured EXCEPT ![r] = epoch]
          /\ stage' = [stage EXCEPT ![r] = "waiting"]
      BY <1>1, <2>2 DEF Prompt
    <3>1. UNCHANGED <<turn, pipe, worker>> /\ CallsTyped
      BY <3>0 DEF CallsTyped, TypeOK, Stages
    <3>2. TurnTyped /\ WorkerTyped
      BY <3>1, SameTurn, SameWorker DEF TypeOK
    <3> QED BY <1>1, <3>1, <3>2, Typed DEF Prompt
  <2> QED BY <2>1, <2>2
<1>2. ASSUME NEW r \in Requests, Answer(r) PROVE TypeOK'
  <2>1. PICK well \in BOOLEAN : Says("response", r, well)
    BY <1>2 DEF Answer
  <2>2. pipe' \in Seq(Line)
    BY <2>1, SaysTyped DEF TypeOK
  <2>3. CallsTyped
    BY <1>2 DEF Answer, CallsTyped, TypeOK, Stages
  <2>4. TurnTyped /\ WorkerTyped
    BY <1>2, <2>2, SameTurn, SameWorker DEF Answer
  <2> QED BY <1>2, <2>3, <2>4, Typed DEF Answer
<1>3. ASSUME NEW r \in Requests, Mail(r) PROVE TypeOK'
  <2>2. TurnTyped /\ WorkerTyped /\ stage' \in [Requests -> Stages]
    BY <1>3, SendsTyped DEF Mail
  <2>3. CallsTyped
    BY <1>3, <2>2 DEF Mail, CallsTyped, TypeOK
  <2> QED BY <1>3, <2>2, <2>3, Typed DEF Mail
<1>4. ASSUME NEW n \in Stops, Stop(n) PROVE TypeOK'
  <2>1. epoch' \in 0..MaxStops
    BY <1>4 DEF Stop, Stops, TypeOK
  <2>2. CallsTyped
    BY <1>4, <2>1 DEF Stop, CallsTyped, TypeOK, Stages
  <2>3. pipe' \in Seq(Line)
    <3>1. CASE Says("retryEnd", None, FALSE)
      BY <3>1, SaysTyped DEF TypeOK
    <3> QED BY <1>4, <3>1 DEF Stop, TypeOK
  <2>4. work' \in [Requests -> Works]
    BY <1>4 DEF Stop, TypeOK, Works
  <2>5. halted' \in BOOLEAN
    <3>1. halted' = TRUE \/ halted' = FALSE
      BY <1>4, Zenon DEF Stop
    <3> QED BY <3>1
  <2>6. WorkerTyped
    BY <1>4, <2>3, <2>4, <2>5 DEF Stop, WorkerTyped, TypeOK
  <2> QED BY <1>4, <2>2, <2>6, SameTurn, Typed DEF Stop
<1>5. CASE HandlesStart
  <2>1. CallsTyped /\ WorkerTyped
    BY <1>5, ReadsTyped, SameCalls, SameWorker DEF HandlesStart, TypeOK
  <2>2. TurnTyped
    <3> DEFINE t == IF context = None \/ Terminal(context, latest) THEN minted + 1 ELSE context
    <3>1. t \in Turns /\ t # None
      BY DEF TypeOK, Turns
    <3>2. context' = t /\ minted' \in {minted, t} /\ latest' = Under(t, latest)
          /\ (t # context => minted' = minted + 1)
      BY <1>5 DEF HandlesStart
    <3>3. minted' \in Nat
      BY <1>5 DEF HandlesStart, TypeOK
    <3> HIDE DEF t
    <3>4. latest' \in [id : Turns \cup {None}, state : Over \cup {"running", "none"}]
          /\ (latest'.id = None => latest'.state = "none")
      BY <3>1, <3>2 DEF Under, TypeOK, Named
    <3> QED BY <1>5, <3>1, <3>2, <3>3, <3>4 DEF TurnTyped, HandlesStart, TypeOK
  <2> QED BY <1>5, <2>1, <2>2, Typed DEF HandlesStart
<1>6. CASE HandlesEnd
  <2>1. PICK o \in Over : EndsTurn(o)
    BY <1>6 DEF HandlesEnd, Over
  <2>2. TurnTyped /\ stage' \in [Requests -> Stages]
    BY <2>1, EndsTurnTyped
  <2>3. CallsTyped
    BY <1>6, <2>2 DEF HandlesEnd, CallsTyped, TypeOK
  <2>4. WorkerTyped
    BY <1>6, ReadsTyped, SameWorker DEF HandlesEnd, TypeOK
  <2> QED BY <1>6, <2>2, <2>3, <2>4, Typed DEF HandlesEnd
<1>7. CASE HandlesRetryEnd
  <2>1. CallsTyped /\ WorkerTyped
    BY <1>7, ReadsTyped, SameCalls, SameWorker DEF HandlesRetryEnd, TypeOK
  <2>2. TurnTyped
    BY <1>7 DEF HandlesRetryEnd, TurnTyped, TypeOK, Named, Ended, Under, Over
  <2> QED BY <1>7, <2>1, <2>2, Typed DEF HandlesRetryEnd
<1>8. CASE HandlesResponse
  <2>1. TurnTyped /\ WorkerTyped
    BY <1>8, ReadsTyped, SameTurn, SameWorker DEF HandlesResponse, TypeOK
  <2>2. CallsTyped
    BY <1>8 DEF HandlesResponse, CallsTyped, TypeOK, Stages
  <2> QED BY <1>8, <2>1, <2>2, Typed DEF HandlesResponse
<1>9. CASE HandlesAck
  <2>1. TurnTyped /\ WorkerTyped
    BY <1>9, ReadsTyped, SameTurn, SameWorker DEF HandlesAck, TypeOK
  <2>2. CallsTyped
    BY <1>9 DEF HandlesAck, CallsTyped, TypeOK
  <2> QED BY <1>9, <2>1, <2>2, Typed DEF HandlesAck
<1>10. ASSUME NEW r \in Requests, Continues(r) PROVE TypeOK'
  <2>1. CASE ~Busy /\ Sends(r, TRUE)
    <3>1. TurnTyped /\ WorkerTyped /\ stage' \in [Requests -> Stages]
      BY <2>1, SendsTyped
    <3>2. CallsTyped
      BY <1>10, <3>1 DEF Continues, CallsTyped, TypeOK
    <3> QED BY <1>10, <3>1, <3>2, Typed DEF Continues
  <2>2. CASE Waits(r) \/ Rejected(r)
    <3>1. UNCHANGED <<turn, pipe, worker>> /\ CallsTyped
      BY <1>10, <2>2 DEF Continues, Waits, Rejected, CallsTyped, TypeOK, Stages
    <3>2. TurnTyped /\ WorkerTyped
      BY <3>1, SameTurn, SameWorker DEF TypeOK
    <3> QED BY <1>10, <3>1, <3>2, Typed DEF Continues
  <2> QED BY <1>10, <2>1, <2>2 DEF Continues
<1>11. ASSUME NEW r \in Requests, Returns(r) PROVE TypeOK'
  <2>1. PICK l, f, c :
          /\ latest' = l /\ foreground' = f /\ context' = c /\ owning' = owning \ {r}
          /\ l = latest \/ \E o \in Over : l = Ended(Under(context, latest), o)
          /\ f = IF r \in owning THEN foreground - 1 ELSE foreground
          /\ c \in {context, None}
          /\ stage' = Released([stage EXCEPT ![r] = "done"], c, f)
    BY <1>11 DEF Returns, Freed, Over
  <2>2. f \in 0..1
    BY <2>1 DEF Owners, TypeOK
  <2>3. TurnTyped
    <3>1. latest' \in [id : Turns \cup {None}, state : Over \cup {"running", "none"}]
          /\ (latest'.id = None => latest'.state = "none")
      <4>1. CASE l = latest
        BY <2>1, <4>1 DEF TypeOK, Named
      <4>2. ASSUME NEW o \in Over, l = Ended(Under(context, latest), o)
            PROVE  /\ l \in [id : Turns \cup {None}, state : Over \cup {"running", "none"}]
                   /\ l.id = None => l.state = "none"
        BY <4>2 DEF TypeOK, Named, Ended, Under
      <4> QED BY <2>1, <4>1, <4>2
    <3>2. context' \in Turns \cup {None} /\ foreground' \in 0..1 /\ owning' \subseteq Requests
      BY <2>1, <2>2 DEF TypeOK
    <3>3. minted' \in Nat
      BY <1>11 DEF Returns, TypeOK
    <3> QED BY <3>1, <3>2, <3>3 DEF TurnTyped
  <2>4. stage' \in [Requests -> Stages]
    <3>1. [stage EXCEPT ![r] = "done"] \in [Requests -> Stages]
      BY DEF TypeOK, Stages
    <3> QED BY <2>1, <3>1, ReleasedIsSteady
  <2>5. CallsTyped
    BY <1>11, <2>4 DEF Returns, CallsTyped, TypeOK
  <2>6. WorkerTyped
    BY <1>11, SameWorker DEF Returns, TypeOK
  <2> QED BY <1>11, <2>3, <2>5, <2>6, Typed DEF Returns
<1>12. ASSUME NEW n \in Stops, StopReturns(n) PROVE TypeOK'
  <2>1. TurnTyped /\ stage' \in [Requests -> Stages]
    <3>1. CASE EndsTurn("interrupted")
      <4>1. "interrupted" \in Over
        BY DEF Over
      <4> QED BY <3>1, <4>1, EndsTurnTyped
    <3>2. CASE stage' = Released(stage, context, foreground) /\ UNCHANGED turn
      BY <3>2, ReleasedIsSteady, SameTurn DEF TypeOK
    <3> QED BY <1>12, <3>1, <3>2 DEF StopReturns
  <2>2. CallsTyped
    BY <1>12, <2>1 DEF StopReturns, CallsTyped, TypeOK
  <2>3. WorkerTyped
    BY <1>12, SameWorker DEF StopReturns, TypeOK
  <2> QED BY <1>12, <2>1, <2>2, <2>3, Typed DEF StopReturns
<1>13. ASSUME NEW r \in Requests, Begins(r) PROVE TypeOK'
  <2>1. pipe' \in Seq(Line)
    <3>1. CASE Says("start", None, TRUE)
      BY <3>1, SaysTyped DEF TypeOK
    <3>2. CASE \E well \in BOOLEAN : Says("response", r, well)
      BY <3>2, SaysTyped DEF TypeOK
    <3> QED BY <1>13, <3>1, <3>2 DEF Begins, Starts
  <2>2. work' \in [Requests -> Works]
    BY <1>13 DEF Begins, Starts, At, TypeOK, Works
  <2>3. starts' \in 0..MaxStarts
    <3>1. starts' = starts \/ (starts < MaxStarts /\ starts' = starts + 1)
      BY <1>13 DEF Begins, Starts
    <3> QED BY <3>1, MoreStarts
  <2>4. halted' \in BOOLEAN
    BY <1>13 DEF Begins, TypeOK
  <2>5. TurnTyped /\ CallsTyped /\ WorkerTyped
    BY <1>13, <2>1, <2>2, <2>3, <2>4, SameTurn, SameCalls DEF Begins, WorkerTyped, TypeOK
  <2> QED BY <1>13, <2>5, Typed DEF Begins
<1>14. ASSUME NEW r \in Requests, RunEnds(r) PROVE TypeOK'
  <2>1. pipe' \in Seq(Line)
    <3>1. (~halted) \in BOOLEAN
      BY Zenon
    <3> QED BY <1>14, <3>1, SaysTyped DEF RunEnds, TypeOK
  <2>2. work' \in [Requests -> Works]
    BY <1>14 DEF RunEnds, At, TypeOK, Works
  <2>3. TurnTyped /\ CallsTyped /\ WorkerTyped
    BY <1>14, <2>1, <2>2, SameTurn, SameCalls DEF RunEnds, WorkerTyped, TypeOK
  <2> QED BY <1>14, <2>3, Typed DEF RunEnds
<1>15. ASSUME NEW r \in Requests, Retries(r) PROVE TypeOK'
  <2>1. pipe' \in Seq(Line)
    <3>1. CASE Says("start", None, TRUE)
      BY <3>1, SaysTyped DEF TypeOK
    <3> QED BY <1>15, <3>1 DEF Retries, Starts, TypeOK
  <2>2. work' \in [Requests -> Works]
    BY <1>15 DEF Retries, Starts, At, TypeOK, Works
  <2>3. starts' \in 0..MaxStarts
    <3>1. starts' = starts \/ (starts < MaxStarts /\ starts' = starts + 1)
      BY <1>15 DEF Retries, Starts
    <3> QED BY <3>1, MoreStarts
  <2>4. TurnTyped /\ CallsTyped /\ WorkerTyped
    BY <1>15, <2>1, <2>2, <2>3, SameTurn, SameCalls DEF Retries, WorkerTyped, TypeOK
  <2> QED BY <1>15, <2>4, Typed DEF Retries
<1>16. ASSUME NEW r \in Requests, Settles(r) PROVE TypeOK'
  <2>1. pipe' \in Seq(Line)
    <3>1. CASE Says("start", None, TRUE)
      BY <3>1, SaysTyped DEF TypeOK
    <3> QED BY <1>16, <3>1 DEF Settles, Starts, TypeOK
  <2>2. work' \in [Requests -> Works]
    BY <1>16 DEF Settles, Starts, At, TypeOK, Works
  <2>3. starts' \in 0..MaxStarts
    <3>1. starts' = starts \/ (starts < MaxStarts /\ starts' = starts + 1)
      BY <1>16 DEF Settles, Starts
    <3> QED BY <3>1, MoreStarts
  <2>4. halted' \in BOOLEAN
    BY <1>16 DEF Settles, TypeOK
  <2>5. CallsTyped
    BY <1>16 DEF Settles, CallsTyped, TypeOK
  <2>6. TurnTyped /\ WorkerTyped
    BY <1>16, <2>1, <2>2, <2>3, <2>4, SameTurn DEF Settles, WorkerTyped, TypeOK
  <2> QED BY <1>16, <2>5, <2>6, Typed DEF Settles
<1>17. ASSUME NEW r \in Requests, Finishes(r) PROVE TypeOK'
  <2>1. PICK well \in BOOLEAN : Says("response", r, well)
    BY <1>17 DEF Finishes
  <2>2. pipe' \in Seq(Line)
    BY <2>1, SaysTyped DEF TypeOK
  <2>3. work' \in [Requests -> Works]
    BY <1>17 DEF Finishes, At, TypeOK, Works
  <2>4. TurnTyped /\ CallsTyped /\ WorkerTyped
    BY <1>17, <2>2, <2>3, SameTurn, SameCalls DEF Finishes, WorkerTyped, TypeOK
  <2> QED BY <1>17, <2>4, Typed DEF Finishes
<1>18. ASSUME NEW n \in Stops, Acks(n) PROVE TypeOK'
  <2>1. pipe' \in Seq(Line)
    <3>1. CASE Says("ack", n, TRUE)
      BY <3>1, SaysTyped DEF TypeOK
    <3> QED BY <1>18, <3>1 DEF Acks, TypeOK
  <2>2. CallsTyped
    BY <1>18 DEF Acks, CallsTyped, TypeOK
  <2>3. TurnTyped /\ WorkerTyped
    BY <1>18, <2>1, SameTurn, SameWorker DEF Acks
  <2> QED BY <1>18, <2>2, <2>3, Typed DEF Acks
<1>19. CASE WorkerExits
  <2>1. CallsTyped
    BY <1>19 DEF WorkerExits, CallsTyped, TypeOK, Stages
  <2>2. WorkerTyped
    <3>1. pipe' = <<>> /\ halted' = FALSE /\ exited' = TRUE /\ starts' = starts
          /\ work' = [r \in Requests |-> "none"]
      BY <1>19 DEF WorkerExits
    <3>2. work' \in [Requests -> Works] /\ starts' \in 0..MaxStarts
      BY <3>1 DEF TypeOK, Works
    <3>3. pipe' \in Seq(Line)
      BY <3>1
    <3>4. halted' \in BOOLEAN /\ exited' \in BOOLEAN
      BY <3>1
    <3> QED BY <3>1, <3>2, <3>3, <3>4 DEF WorkerTyped
  <2> QED BY <1>19, <2>1, <2>2, SameTurn, Typed DEF WorkerExits
<1> QED
  BY <1>0, <1>1, <1>2, <1>3, <1>4, <1>5, <1>6, <1>7, <1>8, <1>9, <1>10, <1>11, <1>12,
     <1>13, <1>14, <1>15, <1>16, <1>17, <1>18, <1>19 DEF Next, Client, Server, Agent

-----------------------------------------------------------------------------
(* The invariant and the two action properties, by the kind of a step.     *)

Final  == /\ latest.state \in Over /\ latest'.id = latest.id => latest' = latest
          /\ latest'.id # latest.id => latest'.id \notin over
Silent == \A r \in silenced : stage[r] # "sent" => stage'[r] # "sent"
Good   == Owners' /\ Named' /\ Early' /\ Final /\ Silent

\* A step that moves no request to another phase and starts no turn.
LEMMA SteadyStep ==
  ASSUME IInv, Observes, Steady,
         UNCHANGED <<foreground, owning, captured, epoch, minted>>, context' \in {context, None},
         \/ latest' = latest
         \/ /\ latest.id # None /\ latest.state \notin Over
            /\ \E o \in Over : latest' = [latest EXCEPT !.state = o]
  PROVE  Good
<1> USE DEF IInv
<1>1. Owners'
  <2>1. \A r \in Requests : stage'[r] \in WorkerStages <=> stage[r] \in WorkerStages
    BY DEF Steady, EarlyStages, WorkerStages
  <2>2. owning \subseteq Requests /\ Prompts \cup Answers \subseteq Requests
    BY DEF TypeOK, Requests
  <2> QED BY <2>1, <2>2 DEF Owners
<1>2. latest'.id = latest.id /\ (latest.state \in Over => latest' = latest)
  BY DEF TypeOK
<1>3. over' = (IF latest'.state \in Over THEN over \cup {latest.id} ELSE over)
  BY <1>2 DEF Observes
<1>4. latest'.id = None => latest'.state = "none"
  BY <1>2 DEF Named, TypeOK
<1>5. latest'.state \in Over => latest'.id \in over'
  BY <1>2, <1>3
<1>6. \A t \in over' \cup {latest'.id} :
        /\ t \in Requests => stage'[t] \in WorkerStages \cup {"done"}
        /\ t \in Nat => t <= minted'
  BY <1>2, <1>3 DEF Named, Steady, EarlyStages, WorkerStages
<1>7. Named'
  BY <1>2, <1>4, <1>5, <1>6 DEF Named
<1>8. silenced' = silenced
  BY DEF Observes
<1>9. Early'
  BY <1>8 DEF Early, Steady, EarlyStages, TypeOK
<1>10. Final /\ Silent
  BY <1>2 DEF Final, Silent, Steady, EarlyStages, TypeOK
<1> QED BY <1>1, <1>7, <1>9, <1>10 DEF Good

\* A request that was not at the worker goes there.
LEMMA SendsStep ==
  ASSUME IInv, Observes, NEW r \in Requests, NEW own, Sends(r, own),
         own => ~Busy, r \in Prompts \cup Answers => own,
         stage[r] = "none" \/ (stage[r] \in EarlyStages /\ captured[r] = epoch),
         UNCHANGED <<captured, epoch>>
  PROVE  Good
<1> USE DEF IInv
<1>1. /\ stage' = [stage EXCEPT ![r] = "sent"]
      /\ IF own THEN /\ foreground' = foreground + 1 /\ owning' = owning \cup {r}
                     /\ context' = r /\ latest' = [id |-> r, state |-> "running"]
                ELSE UNCHANGED <<foreground, owning, context, latest>>
      /\ UNCHANGED minted
  BY SendsShape
<1>2. own => foreground = 0 /\ owning = {}
  BY DEF Busy, Owners, TypeOK
<1>3. stage[r] \notin WorkerStages \cup {"done"} /\ stage \in [Requests -> Stages]
  BY DEF EarlyStages, WorkerStages, TypeOK
<1>4. r \notin over /\ r # latest.id /\ r \notin silenced /\ r # None
  BY <1>3 DEF Named, Early, EarlyStages, TypeOK, Turns
<1>5. Owners'
  <2>1. CASE own
    BY <1>1, <1>2, <1>3, <2>1 DEF Owners, WorkerStages
  <2>2. CASE ~own
    BY <1>1, <1>3, <2>2 DEF Owners, WorkerStages
  <2> QED BY <2>1, <2>2
<1>6. over' = over
  <2>1. latest'.state \in Over => latest'.id \in over
    BY <1>1 DEF Named, Over
  <2> QED BY <2>1 DEF Observes
<1>7. Named'
  <2>1. CASE own
    BY <1>1, <1>3, <1>6, <2>1, <1>4 DEF Named, WorkerStages, Over, TypeOK
  <2>2. CASE ~own
    BY <1>1, <1>3, <1>6, <2>2 DEF Named, WorkerStages, TypeOK
  <2> QED BY <2>1, <2>2
<1>8. silenced' = silenced
  BY DEF Observes
<1>9. Early'
  BY <1>1, <1>3, <1>8 DEF Early, EarlyStages
<1>10. Final
  BY <1>1, <1>4 DEF Final, TypeOK
<1>11. Silent
  BY <1>1, <1>3, <1>4 DEF Silent
<1> QED BY <1>5, <1>7, <1>9, <1>10, <1>11 DEF Good

\* Every step does good.
LEMMA GoodStep ==
  ASSUME IInv, [Next]_vars
  PROVE  Good
<1> USE DEF IInv
<1>0. CASE UNCHANGED vars
  <2>1. Owners' /\ Named' /\ Early'
    BY <1>0 DEF vars, turn, calls, history, Owners, Named, Early
  <2> QED BY <1>0, <2>1 DEF vars, turn, calls, Good, Final, Silent
<1>1. ASSUME NEW r \in Requests, Prompt(r) PROVE Good
  <2>1. CASE ~Busy /\ Sends(r, TRUE) /\ UNCHANGED captured
    BY <1>1, <2>1, SendsStep DEF Prompt
  <2>2. CASE /\ UNCHANGED <<turn, epoch>> /\ captured' = [captured EXCEPT ![r] = epoch]
             /\ stage' = [stage EXCEPT ![r] = "waiting"]
    <3>1. stage[r] = "none" /\ silenced' = silenced /\ over' \subseteq over \cup {latest.id}
          /\ over \subseteq over'
      BY <1>1, <2>2 DEF Prompt, Observes, turn
    <3>2. r \notin silenced /\ r \notin over \cup {latest.id} /\ r \notin owning
      BY <3>1 DEF Early, Named, Owners, WorkerStages
    <3>3. Owners'
      BY <2>2, <3>1, <3>2 DEF Owners, WorkerStages, turn, TypeOK
    <3>4. Named'
      BY <2>2, <3>1, <3>2 DEF Named, WorkerStages, turn, TypeOK
    <3>5. Early'
      BY <2>2, <3>1, <3>2 DEF Early, EarlyStages, TypeOK
    <3> QED BY <2>2, <3>2, <3>3, <3>4, <3>5 DEF Good, Final, Silent, turn, TypeOK
  <2> QED BY <1>1, <2>1, <2>2 DEF Prompt
<1>2. ASSUME NEW r \in Requests, Answer(r) PROVE Good
  <2>1. /\ UNCHANGED <<turn, epoch>> /\ captured' = [captured EXCEPT ![r] = epoch]
        /\ stage' = [stage EXCEPT ![r] = "answering"] /\ stage[r] = "none"
    BY <1>2 DEF Answer
  <2>2. silenced' = silenced /\ over' \subseteq over \cup {latest.id} /\ over \subseteq over'
    BY <1>2, <2>1 DEF Answer, Observes, turn
  <2>3. r \notin silenced /\ r \notin over \cup {latest.id} /\ r \notin owning
    BY <2>1 DEF Early, Named, Owners, WorkerStages
  <2>4. Owners'
    BY <2>1, <2>3 DEF Owners, WorkerStages, turn, TypeOK
  <2>5. Named'
    BY <2>1, <2>2, <2>3 DEF Named, WorkerStages, turn, TypeOK
  <2>6. Early'
    BY <2>1, <2>2, <2>3 DEF Early, EarlyStages, TypeOK
  <2> QED BY <2>1, <2>3, <2>4, <2>5, <2>6 DEF Good, Final, Silent, turn, TypeOK
<1>3. ASSUME NEW r \in Requests, Mail(r) PROVE Good
  <2>1. r \notin Prompts \cup Answers
    BY <1>3 DEF Mail
  <2> QED BY <1>3, <2>1, SendsStep DEF Mail
<1>4. ASSUME NEW n \in Stops, Stop(n) PROVE Good
  <2>1. /\ UNCHANGED <<turn, captured>> /\ epoch' = epoch + 1
        /\ stage' = [r \in Requests |-> IF stage[r] = "waiting" THEN "done" ELSE stage[r]]
        /\ Quiet
    BY <1>4 DEF Stop
  <2>2. silenced' = silenced \cup {r \in Requests : stage[r] \in {"answering", "waiting"}}
        /\ over' \subseteq over \cup {latest.id} /\ over \subseteq over'
    BY <1>4, <2>1 DEF Stop, Observes, turn, TypeOK
  <2>3. Owners'
    BY <2>1 DEF Owners, WorkerStages, turn, TypeOK, Requests
  <2>4. Named'
    BY <2>1, <2>2 DEF Named, WorkerStages, turn, TypeOK
  <2>5. Early'
    BY <2>1, <2>2 DEF Early, EarlyStages, TypeOK
  <2> QED BY <2>1, <2>3, <2>4, <2>5 DEF Good, Final, Silent, turn, TypeOK
<1>5. CASE HandlesStart
  <2> DEFINE t == IF context = None \/ Terminal(context, latest) THEN minted + 1 ELSE context
  <2>1. /\ context' = t /\ minted' = (IF t = context THEN minted ELSE t)
        /\ latest' = Under(t, latest) /\ UNCHANGED <<foreground, owning, calls>>
    BY <1>5 DEF HandlesStart
  <2>2. stage' = stage /\ captured' = captured /\ epoch' = epoch /\ silenced' = silenced
    BY <1>5, <2>1 DEF HandlesStart, Observes, calls
  <2>3. Owners'
    BY <2>1, <2>2 DEF Owners
  <2>4. Early'
    BY <2>2 DEF Early
  <2>5. CASE context # None /\ ~Terminal(context, latest)
    <3>1. t = context /\ latest' = latest /\ minted' = minted /\ context' = context
      BY <2>1, <2>5 DEF Under, Named
    <3>2. Named'
      BY <1>5, <3>1, <2>2 DEF HandlesStart, Observes, Named
    <3> QED BY <2>2, <2>3, <2>4, <3>1, <3>2 DEF Good, Final, Silent
  <2>6. CASE context = None \/ Terminal(context, latest)
    <3>1. t = minted + 1 /\ t \in Nat /\ t \notin Requests /\ t # None
      <4>1. t = minted + 1 /\ minted \in Nat
        BY <2>6 DEF TypeOK
      <4> HIDE DEF t
      <4>2. t \in Nat /\ t \in Int
        BY <4>1
      <4>3. t \in Turns
        BY <4>2 DEF Turns
      <4> QED BY <4>1, <4>2, <4>3
    <3>2. t \notin over /\ t # latest.id
      <4>1. minted \in Nat /\ \A u \in over \cup {latest.id} : u \in Nat => u <= minted
        BY DEF Named, TypeOK
      <4> HIDE DEF t
      <4> QED BY <3>1, <4>1
    <3>3. t # context
      BY <3>1, <3>2 DEF Named
    <3>4. latest' = [id |-> t, state |-> "running"] /\ minted' = t /\ context' = t
      BY <2>1, <3>1, <3>2, <3>3 DEF Under
    <3>5. over' = over
      BY <1>5, <3>4 DEF HandlesStart, Observes, Over
    <3> HIDE DEF t
    <3>6. Named'
      BY <2>2, <3>1, <3>2, <3>4, <3>5 DEF Named, Over, TypeOK
    <3>7. Final /\ Silent
      BY <2>2, <3>2, <3>4 DEF Final, Silent
    <3> QED BY <2>3, <2>4, <3>6, <3>7 DEF Good
  <2> QED BY <2>5, <2>6
<1>6. CASE HandlesEnd
  <2>1. PICK o \in Over : EndsTurn(o)
    BY <1>6 DEF HandlesEnd, Over
  <2> QED BY <1>6, <2>1, EndsTurnShape, SteadyStep DEF HandlesEnd
<1>7. CASE HandlesRetryEnd
  <2>1. /\ latest' = latest \/ (/\ latest.id # None /\ latest.state \notin Over
                                /\ latest' = [latest EXCEPT !.state = "error"])
        /\ UNCHANGED <<context, foreground, owning, minted, stage, captured, epoch>>
    BY <1>7 DEF HandlesRetryEnd, Ended, Under, Named, calls
  <2>2. Steady /\ "error" \in Over
    BY <2>1 DEF Steady, Over
  <2> QED BY <1>7, <2>1, <2>2, SteadyStep DEF HandlesRetryEnd
<1>8. CASE HandlesResponse
  <2>1. Steady
    BY <1>8 DEF HandlesResponse, Steady, EarlyStages, TypeOK
  <2> QED BY <1>8, <2>1, SteadyStep DEF HandlesResponse, turn
<1>9. CASE HandlesAck
  <2>1. Steady
    BY <1>9 DEF HandlesAck, Steady
  <2> QED BY <1>9, <2>1, SteadyStep DEF HandlesAck, turn
<1>10. ASSUME NEW r \in Requests, Continues(r) PROVE Good
  <2>1. CASE Waits(r) \/ Rejected(r)
    <3>1. Steady
      BY <1>10, <2>1 DEF Continues, Waits, Rejected, Steady, EarlyStages, TypeOK
    <3> QED BY <1>10, <2>1, <3>1, SteadyStep DEF Continues, Waits, Rejected, turn
  <2>2. CASE captured[r] = epoch /\ ~Busy /\ Sends(r, TRUE)
    BY <1>10, <2>2, SendsStep DEF Continues, EarlyStages
  <2> QED BY <1>10, <2>1, <2>2 DEF Continues
<1>11. ASSUME NEW r \in Requests, Returns(r) PROVE Good
  <2> DEFINE l == IF r \in owning /\ ~Terminal(r, latest)
                  THEN Ended(Under(context, latest), IF stage[r] = "returned" THEN "completed" ELSE "error")
                  ELSE latest
             f == IF r \in owning THEN foreground - 1 ELSE foreground
             st == [stage EXCEPT ![r] = "done"]
  <2>1. /\ latest' = l /\ foreground' = f /\ context' \in {context, None}
        /\ owning' = owning \ {r} /\ stage' = Released(st, Freed(r, l, f), f)
        /\ UNCHANGED <<minted, captured, epoch>> /\ stage[r] \in {"returned", "failed"}
    BY <1>11 DEF Returns, Freed
  <2>2. \/ l = latest
        \/ /\ latest.id # None /\ latest.state \notin Over
           /\ \E o \in Over : l = [latest EXCEPT !.state = o]
    BY DEF Ended, Under, Named, Over
  <2>3. /\ \A q \in Requests : \/ stage'[q] = st[q]
                               \/ st[q] = "waiting" /\ stage'[q] = "woken"
        /\ stage \in [Requests -> Stages]
    <3>1. st \in [Requests -> Stages] /\ stage \in [Requests -> Stages]
      BY DEF TypeOK, Stages
    <3> HIDE DEF st, l, f
    <3>2. \A q \in Requests : \/ Released(st, Freed(r, l, f), f)[q] = st[q]
                              \/ st[q] = "waiting" /\ Released(st, Freed(r, l, f), f)[q] = "woken"
      BY <3>1, ReleasedIsSteady
    <3> QED BY <2>1, <3>1, <3>2
  <2>4. stage'[r] = "done" /\ \A q \in Requests \ {r} :
          stage'[q] = stage[q] \/ (stage[q] = "waiting" /\ stage'[q] = "woken")
    BY <2>3
  <2> HIDE DEF l, st
  <2>5. Owners'
    <3>1. CASE r \in owning
      <4>1. owning' = {} /\ foreground' = 0
        BY <2>1, <3>1 DEF Owners
      <4>2. \A q \in Prompts \cup Answers : q # r => q \notin owning
        BY <3>1 DEF Owners
      <4> QED BY <2>4, <4>1, <4>2 DEF Owners, WorkerStages, Requests
    <3>2. CASE r \notin owning
      <4>1. owning' = owning /\ foreground' = foreground
        BY <2>1, <3>2
      <4>2. owning \subseteq Requests /\ Prompts \cup Answers \subseteq Requests
        BY DEF TypeOK, Requests
      <4> QED BY <2>4, <3>2, <4>1, <4>2 DEF Owners, WorkerStages
    <3> QED BY <3>1, <3>2
  <2>6. silenced' = silenced /\ latest'.id = latest.id
        /\ (latest.state \in Over => latest' = latest)
        /\ over' = (IF latest'.state \in Over THEN over \cup {latest.id} ELSE over)
    <3>1. latest'.id = latest.id /\ (latest.state \in Over => latest' = latest)
      BY <2>1, <2>2 DEF TypeOK
    <3> QED BY <1>11, <2>1, <3>1 DEF Returns, Observes
  <2>7. Named'
    <3>1. \A t \in over' \cup {latest'.id} :
            /\ t \in Requests => stage'[t] \in WorkerStages \cup {"done"}
            /\ t \in Nat => t <= minted'
      BY <2>1, <2>4, <2>6 DEF Named, WorkerStages
    <3>2. latest'.id = None => latest'.state = "none"
      BY <2>1, <2>2, <2>6 DEF Named, TypeOK
    <3>3. context' # None => context' = latest'.id
      BY <2>1, <2>6 DEF Named
    <3>4. latest'.state \in Over => latest'.id \in over'
      BY <2>6
    <3> QED BY <3>1, <3>2, <3>3, <3>4 DEF Named
  <2>8. Early'
    BY <2>1, <2>4, <2>6 DEF Early, EarlyStages, TypeOK
  <2>9. Final /\ Silent
    BY <2>4, <2>6 DEF Final, Silent, TypeOK
  <2> QED BY <2>5, <2>7, <2>8, <2>9 DEF Good
<1>12. ASSUME NEW n \in Stops, StopReturns(n) PROVE Good
  <2>1. CASE EndsTurn("interrupted")
    <3>1. "interrupted" \in Over
      BY DEF Over
    <3> QED BY <1>12, <2>1, <3>1, EndsTurnShape, SteadyStep DEF StopReturns
  <2>2. CASE stage' = Released(stage, context, foreground) /\ UNCHANGED turn
    <3>1. Steady
      <4>1. \A q \in Requests : stage'[q] = stage[q] \/ (stage[q] = "waiting" /\ stage'[q] = "woken")
        <5>1. stage \in [Requests -> Stages]
          BY DEF TypeOK
        <5>2. \A q \in Requests :
                \/ Released(stage, context, foreground)[q] = stage[q]
                \/ stage[q] = "waiting" /\ Released(stage, context, foreground)[q] = "woken"
          BY <5>1, ReleasedIsSteady
        <5> QED BY <2>2, <5>2
      <4> QED BY <4>1 DEF Steady, EarlyStages
    <3> QED BY <1>12, <2>2, <3>1, SteadyStep DEF StopReturns, turn
  <2> QED BY <1>12, <2>1, <2>2 DEF StopReturns
<1>13. ASSUME NEW r \in Requests, Begins(r) \/ RunEnds(r) \/ Retries(r) \/ Finishes(r) PROVE Good
  <2>1. UNCHANGED <<turn, calls>> /\ Observes
    BY <1>13 DEF Begins, RunEnds, Retries, Finishes
  <2>2. Steady
    BY <2>1 DEF calls, Steady
  <2> QED BY <2>1, <2>2, SteadyStep DEF turn, calls
<1>14. ASSUME NEW r \in Requests, Settles(r) PROVE Good
  <2>1. Steady
    BY <1>14 DEF Settles, Steady
  <2> QED BY <1>14, <2>1, SteadyStep DEF Settles, turn
<1>15. ASSUME NEW n \in Stops, Acks(n) PROVE Good
  <2>1. Steady
    BY <1>15 DEF Acks, Steady
  <2> QED BY <1>15, <2>1, SteadyStep DEF Acks, turn
<1>16. CASE WorkerExits
  <2>1. Steady
    BY <1>16 DEF WorkerExits, Steady, EarlyStages, TypeOK
  <2> QED BY <1>16, <2>1, SteadyStep DEF WorkerExits, turn
<1> QED
  BY <1>0, <1>1, <1>2, <1>3, <1>4, <1>5, <1>6, <1>7, <1>8, <1>9, <1>10, <1>11, <1>12,
     <1>13, <1>14, <1>15, <1>16 DEF Next, Client, Server, Agent

-----------------------------------------------------------------------------
(* The theorems.                                                           *)

LEMMA InitInv == Init => IInv
<1> SUFFICES ASSUME Init PROVE IInv
  OBVIOUS
<1>1. TypeOK
  <2>1. context \in Turns \cup {None} /\ foreground \in 0..1 /\ owning \subseteq Requests
        /\ minted \in Nat /\ over \subseteq Turns /\ silenced \subseteq Requests
        /\ latest \in [id : Turns \cup {None}, state : Over \cup {"running", "none"}]
    BY DEF Init
  <2>2. /\ stage \in [Requests -> Stages] /\ captured \in [Requests -> 0..MaxStops]
        /\ epoch \in 0..MaxStops /\ target \in [Stops -> Turns \cup {None}]
        /\ stop \in [Stops -> {"none", "waiting", "due", "acking", "acked", "done"}]
    BY DEF Init, Stages
  <2>3. pipe \in Seq(Line) /\ work \in [Requests -> Works] /\ starts \in 0..MaxStarts
    BY DEF Init, Works
  <2>4. halted \in BOOLEAN /\ exited \in BOOLEAN /\ overlap \in BOOLEAN /\ orphaned \in BOOLEAN
    BY DEF Init
  <2> QED BY <2>1, <2>2, <2>3, <2>4 DEF TypeOK
<1>2. Owners /\ Early
  BY DEF Init, Owners, Early, WorkerStages, Requests
<1>3. Named
  <2>1. None \notin Nat /\ None \notin Requests
    BY DEF Turns
  <2> QED BY <2>1 DEF Init, Named, Over
<1> QED BY <1>1, <1>2, <1>3 DEF IInv

\* The invariant is inductive.
THEOREM Inductive == Spec => []IInv
<1>1. ASSUME IInv, [Next]_vars PROVE IInv'
  BY <1>1, TypeStep, GoodStep DEF IInv, Good
<1> QED BY InitInv, <1>1, PTL DEF Spec

\* Every variable keeps its type.
THEOREM TypeCorrect == Spec => []TypeOK
<1>1. IInv => TypeOK
  BY DEF IInv
<1> QED BY Inductive, <1>1, PTL

\* The turn is owned by one request at a time: session.prompt is not raced by
\* a prompt, an answer or a message that another turn was in the way of.
THEOREM OneOwner == Spec => []OneOwnerAtATime
<1>1. IInv => OneOwnerAtATime
  <2> SUFFICES ASSUME IInv PROVE OneOwnerAtATime
    OBVIOUS
  <2>1. foreground = Cardinality(owning) /\ foreground <= 1
    <3>1. CASE owning = {}
      BY <3>1, FS_EmptySet DEF IInv, Owners
    <3>2. CASE owning # {}
      <4>1. PICK r : r \in owning
        BY <3>2
      <4>2. owning = {r}
        BY <4>1 DEF IInv, Owners
      <4> QED BY <3>2, <4>2, FS_Singleton DEF IInv, Owners
    <3> QED BY <3>1, <3>2
  <2>2. \A r \in Prompts \cup Answers : stage[r] \in {"sent", "returned", "failed"} <=> r \in owning
    BY DEF IInv, Owners, WorkerStages
  <2> QED BY <2>1, <2>2 DEF OneOwnerAtATime
<1> QED BY Inductive, <1>1, PTL

\* The recorded outcome of a turn is final and its id does not come back.
THEOREM FinalOutcomes == Spec => OutcomesAreFinal
<1>1. ASSUME IInv, [Next]_vars
      PROVE [ /\ latest.state \in Over /\ latest'.id = latest.id => latest' = latest
              /\ latest'.id # latest.id => latest'.id \notin over ]_vars
  BY <1>1, GoodStep DEF Good, Final
<1> QED BY Inductive, <1>1, PTL DEF Spec, OutcomesAreFinal

\* An answer or a prompt that waited before a Stop never starts after it.
THEOREM StopHolds == Spec => StoppedStaysStopped
<1>1. ASSUME IInv, [Next]_vars
      PROVE [\A r \in silenced : stage[r] # "sent" => stage'[r] # "sent"]_vars
  BY <1>1, GoodStep DEF Good, Silent
<1> QED BY Inductive, <1>1, PTL DEF Spec, StoppedStaysStopped

-----------------------------------------------------------------------------
(* What is still to come.  A turn that holds the session, and a run whose   *)
(* start is on its way, are ended by a line that follows, by the run of the *)
(* moment, or by the return of the owner (Closed); the latest start of the  *)
(* run of the moment is not followed by a line that ends a turn (Shown).    *)

Awaited == (\E r \in Requests : stage[r] = "waiting") => Busy

Idle ==
  /\ context = None => latest.state # "running"
  /\ latest.id # None => latest.state # "none"

Responds(i, r) == pipe[i].kind = "response" /\ pipe[i].of = r

Answered ==
  /\ \A r \in Requests : \A i \in 1..Len(pipe) : Responds(i, r) =>
       /\ stage[r] \in {"answering", "sent"} /\ work[r] = "none"
       /\ \A j \in 1..Len(pipe) : Responds(j, r) => i = j
  /\ \A r \in Requests : work[r] # "none" => stage[r] = "sent"

OneRun == \A r, s \in Active(work) : r = s

Beside ==
  \A r \in Active(work) : ~overlap =>
    /\ owning \subseteq {r}
    /\ \A n \in Stops : stop[n] \in {"none", "done", "waiting"}

\* After the i-th line comes none of these kinds.
Last(i, kinds) == \A j \in 1..Len(pipe) : j > i => pipe[j].kind \notin kinds

\* The owner will give up the turn when the i-th line has been handled.
GivesUp(i, r) ==
  \/ i = 0
  \/ stage[r] = "sent" /\ (work[r] # "none" \/ \E j \in 1..Len(pipe) : j > i /\ Responds(j, r))

Opens(i) == IF i = 0 THEN context # None ELSE pipe[i].kind = "start"

\* Some run is in an attempt, or between two.
Live == \E r \in Requests : work[r] \in {"running", "retrying"}

Closed ==
  ~orphaned /\ ~exited =>
    \A i \in 0..Len(pipe) :
      Opens(i) /\ Last(i, {"end"}) => Live \/ (\E r \in owning : GivesUp(i, r))

Visible == context # None /\ latest = [id |-> context, state |-> "running"]

Tells ==
  \E i \in 0..Len(pipe) :
    /\ IF i = 0 THEN Visible ELSE pipe[i].kind = "start"
    /\ Last(i, {"end", "retryEnd"})

Shown == Live /\ ~overlap => Tells

RInv == Awaited /\ Idle /\ Answered /\ OneRun /\ Beside /\ Closed /\ Shown

\* The pipe after a line was written to it, and after one was read from it.
LEMMA PipeGrows ==
  ASSUME pipe \in Seq(Line), NEW kind, NEW of, NEW well, Says(kind, of, well)
  PROVE  /\ Len(pipe') = Len(pipe) + 1 /\ Len(pipe) \in Nat
         /\ \A i \in 1..Len(pipe) : pipe'[i] = pipe[i]
         /\ pipe'[Len(pipe) + 1] = [kind |-> kind, of |-> of, well |-> well]
  BY DEF Says

LEMMA PipeShrinks ==
  ASSUME pipe \in Seq(Line), NEW kind, Reads(kind)
  PROVE  /\ Len(pipe) = Len(pipe') + 1 /\ Len(pipe') \in Nat
         /\ \A i \in 1..Len(pipe') : pipe'[i] = pipe[i + 1]
         /\ pipe[1] = Head(pipe) /\ pipe[1].kind = kind
  BY DEF Reads

\* What a request at the worker may do next.
WorkStep(r) ==
  \/ \E from \in {"preflight", "retrying", "settling"} :
       /\ At(r, from, "running") /\ (from = "preflight" => Active(work) = {})
       /\ Says("start", None, TRUE) /\ starts' = starts + 1 /\ UNCHANGED stop
  \/ \E from \in {"preflight", "after", "queued"}, well \in BOOLEAN :
       At(r, from, "none") /\ Says("response", r, well) /\ UNCHANGED <<stop, starts>>
  \/ At(r, "running", "settling") /\ Says("end", None, ~halted) /\ UNCHANGED <<stop, starts>>
  \/ At(r, "running", "retrying") /\ UNCHANGED <<pipe, stop, starts>>
  \/ At(r, "settling", "after") /\ UNCHANGED <<pipe, starts>>

LEMMA WorkShape ==
  ASSUME NEW r \in Requests, Begins(r) \/ RunEnds(r) \/ Retries(r) \/ Settles(r) \/ Finishes(r)
  PROVE  /\ UNCHANGED <<turn, stage, captured, epoch, target, exited>> /\ Observes
         /\ WorkStep(r)
<1>1. UNCHANGED <<turn, stage, captured, epoch, target, exited>> /\ Observes
  BY DEF Begins, RunEnds, Retries, Settles, Finishes, calls
<1>2. CASE Begins(r)
  BY <1>2 DEF Begins, Starts, WorkStep, calls, At
<1>3. CASE RunEnds(r)
  BY <1>3 DEF RunEnds, WorkStep, calls
<1>4. CASE Retries(r)
  BY <1>4 DEF Retries, Starts, WorkStep, calls
<1>5. CASE Settles(r)
  BY <1>5 DEF Settles, Starts, WorkStep, calls
<1>6. CASE Finishes(r)
  BY <1>6 DEF Finishes, WorkStep, calls
<1> QED BY <1>1, <1>2, <1>3, <1>4, <1>5, <1>6

LEMMA ReleasedFrees ==
  ASSUME NEW st \in [Requests -> Stages], NEW c, NEW f \in 0..1
  PROVE  \A r \in Requests : Released(st, c, f)[r] = "waiting" =>
           st[r] = "waiting" /\ (c # None \/ f > 0)
  BY DEF Released

-----------------------------------------------------------------------------
(* Who waits waits for a turn, and a turn that is given up is over.         *)

\* What the end of a turn leaves.
LEMMA EndsTurnFrees ==
  ASSUME TypeOK, Named, Awaited, Idle, NEW o \in Over, EndsTurn(o)
  PROVE  Awaited' /\ Idle'
<1> DEFINE c == IF foreground = 0 THEN None ELSE context
<1>1. /\ latest' = Ended(latest, o) /\ context' = c /\ foreground' = foreground
      /\ stage' = IF context # None THEN Released(stage, c, foreground) ELSE stage
  BY DEF EndsTurn, Under, Named
<1>2. latest'.state # "running" /\ (latest'.id # None => latest'.state # "none")
  BY <1>1 DEF Ended, Named, Over, TypeOK
<1>3. \A r \in Requests : stage'[r] = "waiting" => context' # None \/ foreground' > 0
  <2>1. CASE context # None
    <3>1. stage \in [Requests -> Stages] /\ foreground \in 0..1
      BY DEF TypeOK
    <3> HIDE DEF c
    <3> QED BY <1>1, <2>1, <3>1, ReleasedFrees
  <2>2. CASE context = None
    BY <1>1, <2>2 DEF Awaited, Busy
  <2> QED BY <2>1, <2>2
<1> QED BY <1>2, <1>3 DEF Awaited, Idle, Busy

LEMMA TurnStep ==
  ASSUME IInv, RInv, [Next]_vars
  PROVE  Awaited' /\ Idle'
<1> USE DEF IInv, RInv
\* Nobody begins to wait and the turn stays.
<1>0. ASSUME UNCHANGED turn, \A r \in Requests : stage'[r] = "waiting" => stage[r] = "waiting" \/ Busy
      PROVE  Awaited' /\ Idle'
  BY <1>0 DEF turn, Awaited, Idle, Busy
<1>1. ASSUME NEW r \in Requests, NEW own, Sends(r, own)
      PROVE  Awaited' /\ Idle'
  <2>1. /\ stage' = [stage EXCEPT ![r] = "sent"]
        /\ IF own THEN context' = r /\ latest' = [id |-> r, state |-> "running"]
                  ELSE UNCHANGED turn
    BY <1>1, SendsShape DEF turn
  <2>2. \A q \in Requests : stage'[q] = "waiting" => stage[q] = "waiting"
    BY <2>1 DEF TypeOK
  <2>3. r # None
    BY DEF Turns
  <2> QED BY <1>0, <2>1, <2>2, <2>3 DEF Awaited, Idle, Busy
<1>2. ASSUME NEW r \in Requests, Prompt(r) PROVE Awaited' /\ Idle'
  <2>1. CASE Sends(r, TRUE)
    BY <1>1, <2>1
  <2>2. CASE Busy /\ UNCHANGED turn /\ stage' = [stage EXCEPT ![r] = "waiting"]
    BY <1>0, <2>2
  <2> QED BY <1>2, <2>1, <2>2 DEF Prompt
<1>3. ASSUME NEW r \in Requests, Answer(r) PROVE Awaited' /\ Idle'
  BY <1>0, <1>3 DEF Answer, TypeOK
<1>4. ASSUME NEW r \in Requests, Mail(r) PROVE Awaited' /\ Idle'
  BY <1>1, <1>4 DEF Mail
<1>5. ASSUME NEW n \in Stops, Stop(n) PROVE Awaited' /\ Idle'
  BY <1>0, <1>5 DEF Stop, TypeOK
<1>6. CASE HandlesStart
  <2> DEFINE t == IF context = None \/ Terminal(context, latest) THEN minted + 1 ELSE context
  <2>1. context' = t /\ latest' = Under(t, latest)
    BY <1>6 DEF HandlesStart
  <2>2. t # None
    <3>1. minted + 1 \in Turns
      BY DEF TypeOK, Turns
    <3> QED BY <3>1
  <2> HIDE DEF t
  <2> QED BY <2>1, <2>2 DEF Awaited, Idle, Busy, Under
<1>7. CASE HandlesEnd
  <2>1. PICK o \in Over : EndsTurn(o)
    BY <1>7 DEF HandlesEnd, Over
  <2> QED BY <2>1, EndsTurnFrees
<1>8. CASE HandlesRetryEnd
  <2>1. latest' = Ended(latest, "error") /\ UNCHANGED <<context, foreground, stage>>
    BY <1>8 DEF HandlesRetryEnd, Under, Named, calls
  <2> QED BY <2>1 DEF Awaited, Idle, Busy, Ended, TypeOK
<1>9. CASE HandlesResponse
  BY <1>0, <1>9 DEF HandlesResponse, TypeOK
<1>10. ASSUME NEW r \in Requests, Continues(r) PROVE Awaited' /\ Idle'
  <2>1. CASE Sends(r, TRUE)
    BY <1>1, <2>1
  <2>2. CASE (Busy /\ Waits(r)) \/ Rejected(r)
    BY <1>0, <2>2 DEF Waits, Rejected, TypeOK
  <2> QED BY <1>10, <2>1, <2>2 DEF Continues
<1>11. ASSUME NEW r \in Requests, Returns(r) PROVE Awaited' /\ Idle'
  <2> DEFINE l == IF r \in owning /\ ~Terminal(r, latest)
                  THEN Ended(Under(context, latest), IF stage[r] = "returned" THEN "completed" ELSE "error")
                  ELSE latest
             f == IF r \in owning THEN foreground - 1 ELSE foreground
             c == Freed(r, l, f)
             st == [stage EXCEPT ![r] = "done"]
  <2>1. latest' = l /\ foreground' = f /\ context' = c /\ stage' = Released(st, c, f)
    BY <1>11 DEF Returns
  <2>2. st \in [Requests -> Stages] /\ f \in 0..1
    BY DEF TypeOK, Stages, Owners
  <2>3. c = None => l.state # "running"
    <3>1. CASE r \notin owning
      BY <3>1 DEF Freed, Idle
    <3>2. CASE r \in owning /\ Terminal(r, latest)
      BY <3>2 DEF Terminal, Over
    <3>3. CASE r \in owning /\ ~Terminal(r, latest)
      <4>1. l = Ended(latest, IF stage[r] = "returned" THEN "completed" ELSE "error")
        BY <3>3 DEF Under, Named
      <4> QED BY <4>1 DEF Ended, Named, Over, TypeOK
    <3> QED BY <3>1, <3>2, <3>3
  <2>4. l.id # None => l.state # "none"
    BY DEF Ended, Under, Named, Idle, TypeOK
  <2> HIDE DEF l, f, c, st
  <2> QED BY <2>1, <2>2, <2>3, <2>4, ReleasedFrees DEF Awaited, Idle, Busy
<1>12. ASSUME NEW n \in Stops, StopReturns(n) PROVE Awaited' /\ Idle'
  <2>1. CASE EndsTurn("interrupted")
    BY <2>1, EndsTurnFrees DEF Over
  <2>2. CASE stage' = Released(stage, context, foreground) /\ UNCHANGED turn
    <3>1. stage \in [Requests -> Stages] /\ foreground \in 0..1
      BY DEF TypeOK
    <3> QED BY <1>0, <2>2, <3>1, ReleasedFrees
  <2> QED BY <1>12, <2>1, <2>2 DEF StopReturns
<1>13. ASSUME NEW r \in Requests, Begins(r) \/ RunEnds(r) \/ Retries(r) \/ Settles(r) \/ Finishes(r)
       PROVE  Awaited' /\ Idle'
  BY <1>0, <1>13, WorkShape
<1>14. ASSUME UNCHANGED <<turn, stage>> PROVE Awaited' /\ Idle'
  BY <1>0, <1>14
<1>15. CASE WorkerExits
  BY <1>0, <1>15 DEF WorkerExits
<1> QED
  BY <1>2, <1>3, <1>4, <1>5, <1>6, <1>7, <1>8, <1>9, <1>10, <1>11, <1>12, <1>13, <1>14, <1>15
  DEF Next, Client, Server, Agent, HandlesAck, Acks, vars, calls
-----------------------------------------------------------------------------
(* A response follows the work; one run at a time.                          *)

LEMMA AnsweredStep ==
  ASSUME IInv, RInv, [Next]_vars
  PROVE  Answered'
<1> USE DEF IInv, RInv
<1>p. pipe \in Seq(Line) /\ Len(pipe) \in Nat /\ stage \in [Requests -> Stages]
      /\ work \in [Requests -> Works]
  BY DEF TypeOK
\* No line is written; what is answered or at the worker stays there.
<1>0. ASSUME \A r \in Requests : stage[r] \in {"answering", "sent"} => stage'[r] = stage[r],
             pipe' = pipe, \A r \in Requests : work'[r] # "none" => work[r] # "none",
             \A r \in Requests : work[r] = "none" => work'[r] = "none"
      PROVE  Answered'
  BY <1>0 DEF Answered, Responds
\* A response of r, the first that is outstanding.
<1>1. ASSUME NEW r \in Requests, NEW well, Says("response", r, well),
             \A i \in 1..Len(pipe) : ~Responds(i, r),
             stage'[r] \in {"answering", "sent"}, work'[r] = "none",
             \A q \in Requests \ {r} : stage'[q] = stage[q] /\ work'[q] = work[q]
      PROVE  Answered'
  <2>1. /\ Len(pipe') = Len(pipe) + 1 /\ \A i \in 1..Len(pipe) : pipe'[i] = pipe[i]
        /\ pipe'[Len(pipe) + 1] = [kind |-> "response", of |-> r, well |-> well]
    BY <1>1, <1>p, PipeGrows
  <2>2. \A q \in Requests : \A i \in 1..Len(pipe') : Responds(i, q)' =>
          \/ i \in 1..Len(pipe) /\ Responds(i, q) /\ q # r
          \/ i = Len(pipe) + 1 /\ q = r
    BY <1>1, <2>1, <1>p DEF Responds
  <2> QED BY <1>1, <2>1, <2>2 DEF Answered
\* Another line.
<1>2. ASSUME NEW kind \in {"start", "end", "retryEnd", "ack"}, NEW of, NEW well, Says(kind, of, well),
             \A r \in Requests : stage[r] \in {"answering", "sent"} => stage'[r] = stage[r],
             \A r \in Requests : work'[r] # "none" => stage'[r] = "sent",
             \A r \in Requests : work[r] = "none" /\ work'[r] # "none" =>
                                   stage[r] \notin {"answering", "sent"}
      PROVE  Answered'
  <2>1. /\ Len(pipe') = Len(pipe) + 1 /\ \A i \in 1..Len(pipe) : pipe'[i] = pipe[i]
        /\ pipe'[Len(pipe) + 1] = [kind |-> kind, of |-> of, well |-> well]
    BY <1>2, <1>p, PipeGrows
  <2>2. \A q \in Requests : \A i \in 1..Len(pipe') : Responds(i, q)' =>
          i \in 1..Len(pipe) /\ Responds(i, q)
    BY <1>2, <2>1, <1>p DEF Responds
  <2> QED BY <1>2, <2>1, <2>2 DEF Answered
\* A line is read, and if it is a response its request goes on.
<1>3. ASSUME NEW kind, Reads(kind), work' = work,
             \A r \in Requests : stage[r] \in {"answering", "sent"} =>
               stage'[r] = stage[r] \/ Responds(1, r)
      PROVE  Answered'
  <2>1. /\ Len(pipe) = Len(pipe') + 1 /\ Len(pipe') \in Nat
        /\ \A i \in 1..Len(pipe') : pipe'[i] = pipe[i + 1]
    BY <1>3, <1>p, PipeShrinks
  <2>2. \A q \in Requests : \A i \in 1..Len(pipe') : Responds(i, q)' =>
          i + 1 \in 1..Len(pipe) /\ Responds(i + 1, q)
    BY <2>1 DEF Responds
  <2>3. 1 \in 1..Len(pipe)
    BY <2>1
  <2>4. \A q \in Requests : \A i \in 1..Len(pipe') : Responds(i, q)' => ~Responds(1, q)
    <3> SUFFICES ASSUME NEW q \in Requests, NEW i \in 1..Len(pipe'), Responds(i, q)', Responds(1, q)
                 PROVE  FALSE
      OBVIOUS
    <3>1. 1 = i + 1
      BY <2>2, <2>3 DEF Answered
    <3> QED BY <3>1
  <2>5. \A q \in Requests : work[q] # "none" => ~Responds(1, q)
    BY <2>3 DEF Answered
  <2>6. \A r \in Requests : \A i, j \in 1..Len(pipe') : Responds(i, r)' /\ Responds(j, r)' => i = j
    <3> SUFFICES ASSUME NEW r \in Requests, NEW i \in 1..Len(pipe'), NEW j \in 1..Len(pipe'),
                        Responds(i, r)', Responds(j, r)'
                 PROVE  i = j
      OBVIOUS
    <3>1. i + 1 = j + 1
      BY <2>2 DEF Answered
    <3> QED BY <3>1
  <2>7. \A r \in Requests : \A i \in 1..Len(pipe') : Responds(i, r)' =>
          stage'[r] \in {"answering", "sent"} /\ work'[r] = "none"
    BY <1>3, <2>2, <2>4 DEF Answered
  <2>8. \A r \in Requests : work'[r] # "none" => stage'[r] = "sent"
    BY <1>3, <2>5 DEF Answered
  <2> QED BY <2>6, <2>7, <2>8 DEF Answered
<1>4. ASSUME NEW r \in Requests, NEW own, Sends(r, own), stage[r] \notin {"answering", "sent"}
      PROVE  Answered'
  <2>1. stage' = [stage EXCEPT ![r] = "sent"]
    BY <1>4, SendsShape
  <2>2. work[r] = "none" /\ \A i \in 1..Len(pipe) : ~Responds(i, r)
    BY <1>4 DEF Answered
  <2>3. CASE Says("response", r, FALSE) /\ work' = work
    BY <1>1, <1>p, <2>1, <2>2, <2>3
  <2>4. ASSUME NEW to, work' = [work EXCEPT ![r] = to],
               (to = "running" /\ Says("start", None, TRUE)) \/ UNCHANGED pipe
        PROVE  Answered'
    <3>1. \A q \in Requests : q # r => stage'[q] = stage[q] /\ work'[q] = work[q]
      BY <2>1, <2>4, <1>p
    <3>2. stage'[r] = "sent"
      BY <2>1, <1>p
    <3>3. CASE Says("start", None, TRUE)
      BY <1>2, <1>4, <3>1, <3>2, <3>3 DEF Answered
    <3>4. CASE UNCHANGED pipe
      BY <2>2, <3>1, <3>2, <3>4 DEF Answered, Responds
    <3> QED BY <2>4, <3>3, <3>4
  <2> QED BY <1>4, <2>3, <2>4 DEF Sends
<1>5. ASSUME NEW r \in Requests, Prompt(r) PROVE Answered'
  <2>1. CASE Sends(r, TRUE)
    BY <1>4, <1>5, <2>1 DEF Prompt
  <2>2. CASE stage' = [stage EXCEPT ![r] = "waiting"] /\ UNCHANGED <<pipe, worker>>
    BY <1>0, <1>5, <1>p, <2>2 DEF Prompt, worker
  <2> QED BY <1>5, <2>1, <2>2 DEF Prompt
<1>6. ASSUME NEW r \in Requests, Answer(r) PROVE Answered'
  <2>1. PICK well : Says("response", r, well)
    BY <1>6 DEF Answer
  <2>2. /\ stage[r] = "none" /\ stage' = [stage EXCEPT ![r] = "answering"] /\ work' = work
    BY <1>6 DEF Answer, worker
  <2>3. work[r] = "none" /\ \A i \in 1..Len(pipe) : ~Responds(i, r)
    BY <2>2 DEF Answered
  <2> QED BY <1>1, <1>p, <2>1, <2>2, <2>3
<1>7. ASSUME NEW r \in Requests, Mail(r) PROVE Answered'
  BY <1>4, <1>7 DEF Mail
<1>8. ASSUME NEW n \in Stops, Stop(n) PROVE Answered'
  <2>1. /\ stage' = [r \in Requests |-> IF stage[r] = "waiting" THEN "done" ELSE stage[r]]
        /\ work' = [r \in Requests |-> IF work[r] = "retrying" THEN "after" ELSE work[r]]
    BY <1>8 DEF Stop
  <2>2. \A r \in Requests : /\ stage[r] \in {"answering", "sent"} => stage'[r] = stage[r]
                            /\ work'[r] = "none" <=> work[r] = "none"
    BY <2>1
  <2>3. CASE UNCHANGED pipe
    BY <1>0, <2>2, <2>3
  <2>4. CASE Says("retryEnd", None, FALSE)
    BY <1>2, <2>2, <2>4 DEF Answered
  <2> QED BY <1>8, <2>3, <2>4 DEF Stop
<1>9. CASE HandlesStart \/ HandlesEnd \/ HandlesRetryEnd \/ HandlesAck
  <2>1. /\ work' = work /\ \E kind \in {"start", "end", "retryEnd", "ack"} : Reads(kind)
        /\ \/ stage' = stage
           \/ \E o \in Over : EndsTurn(o)
    BY <1>9 DEF HandlesStart, HandlesEnd, HandlesRetryEnd, HandlesAck, worker, calls, Over
  <2>2. ASSUME NEW o \in Over, EndsTurn(o)
        PROVE  \A r \in Requests : stage'[r] = stage[r] \/ stage[r] = "waiting"
    BY <2>2, <1>p, ReleasedIsSteady DEF EndsTurn
  <2> QED BY <1>3, <2>1, <2>2
<1>10. CASE HandlesResponse
  <2>1. Reads("response") /\ work' = work
    BY <1>10 DEF HandlesResponse, worker
  <2>2. pipe[1] = Head(pipe) /\ pipe[1].kind = "response"
    BY <1>p, <2>1, PipeShrinks
  <2>3. \A r \in Requests : stage'[r] = stage[r] \/ Responds(1, r)
    BY <1>10, <2>2, <1>p DEF HandlesResponse, Responds
  <2> QED BY <1>3, <2>1, <2>3
<1>11. ASSUME NEW r \in Requests, Continues(r) PROVE Answered'
  <2>1. CASE Sends(r, TRUE)
    BY <1>4, <1>11, <2>1 DEF Continues
  <2>2. CASE Waits(r) \/ Rejected(r)
    BY <1>0, <1>11, <1>p, <2>2 DEF Continues, Waits, Rejected, worker
  <2> QED BY <1>11, <2>1, <2>2 DEF Continues
<1>12. ASSUME NEW r \in Requests, Returns(r) PROVE Answered'
  <2> DEFINE st == [stage EXCEPT ![r] = "done"]
  <2>1. PICK c, f : stage' = Released(st, c, f)
    BY <1>12 DEF Returns
  <2>2. st \in [Requests -> Stages]
    BY DEF TypeOK, Stages
  <2>3. \A q \in Requests : st[q] \in {"answering", "sent"} => stage'[q] = st[q]
    <3> HIDE DEF st
    <3> QED BY <2>1, <2>2, ReleasedIsSteady
  <2>4. \A q \in Requests : stage[q] \in {"answering", "sent"} => st[q] = stage[q]
    BY <1>12, <1>p DEF Returns
  <2>5. pipe' = pipe /\ work' = work
    BY <1>12 DEF Returns, worker
  <2> QED BY <1>0, <2>3, <2>4, <2>5
<1>13. ASSUME NEW n \in Stops, StopReturns(n) PROVE Answered'
  <2>1. \A q \in Requests : stage[q] \in {"answering", "sent"} => stage'[q] = stage[q]
    BY <1>13, <1>p, ReleasedIsSteady DEF StopReturns, EndsTurn
  <2> QED BY <1>0, <1>13, <2>1 DEF StopReturns, worker
<1>14. ASSUME NEW r \in Requests, Begins(r) \/ RunEnds(r) \/ Retries(r) \/ Settles(r) \/ Finishes(r)
       PROVE  Answered'
  <2>1. stage' = stage /\ WorkStep(r)
    BY <1>14, WorkShape
  <2>2. ASSUME NEW from \in Works \ {"none"}, NEW to \in Works, At(r, from, to)
        PROVE  /\ stage'[r] = "sent" /\ work'[r] = to
               /\ \A i \in 1..Len(pipe) : ~Responds(i, r)
               /\ \A q \in Requests : q # r => work'[q] = work[q]
    BY <1>p, <2>1, <2>2 DEF At, Answered
  <2>3. ASSUME NEW from \in Works \ {"none"}, NEW to \in Works \ {"none"}, At(r, from, to),
               \/ UNCHANGED pipe
               \/ \E kind \in {"start", "end"} : \E well : Says(kind, None, well)
        PROVE  Answered'
    <3>1. \A q \in Requests : /\ work'[q] # "none" => stage'[q] = "sent"
                              /\ work'[q] = "none" <=> work[q] = "none"
      BY <2>1, <2>2, <2>3, <1>p DEF Answered, At
    <3>2. CASE UNCHANGED pipe
      BY <1>0, <2>1, <3>1, <3>2
    <3>3. CASE \E kind \in {"start", "end"} : \E well : Says(kind, None, well)
      BY <1>2, <2>1, <3>1, <3>3
    <3> QED BY <2>3, <3>2, <3>3
  <2>4. ASSUME NEW from \in Works \ {"none"}, NEW well, At(r, from, "none"), Says("response", r, well)
        PROVE  Answered'
    <3>1. "none" \in Works
      BY DEF Works
    <3> QED BY <1>1, <2>1, <2>2, <2>4, <3>1
  <2>5. {"preflight", "retrying", "settling", "after", "queued", "running"} \subseteq Works \ {"none"}
    BY DEF Works
  <2> QED BY <2>1, <2>3, <2>4, <2>5 DEF WorkStep
<1>15. ASSUME NEW n \in Stops, Acks(n) PROVE Answered'
  <2>1. stage' = stage /\ work' = work
    BY <1>15 DEF Acks, worker
  <2> QED BY <1>0, <1>2, <1>15, <2>1 DEF Acks, Answered
<1>16. CASE WorkerExits
  BY <1>16 DEF WorkerExits, Answered
<1>17. CASE UNCHANGED vars
  BY <1>0, <1>17 DEF vars, calls, worker
<1> QED
  BY <1>5, <1>6, <1>7, <1>8, <1>9, <1>10, <1>11, <1>12, <1>13, <1>14, <1>15, <1>16, <1>17
  DEF Next, Client, Server, Agent
-----------------------------------------------------------------------------
(* A run of its own: the first of a request begins when there is none, and   *)
(* what is beside it then and later is noted in overlap.                    *)

\* The runs after a step: those before it, and one that begins.
OneMore ==
  /\ OneRun'
  /\ \A r \in Active(work') : r \in Active(work) \/ (starts' # starts /\ stop' = stop)

LEMMA RunsStep ==
  ASSUME IInv, RInv, [Next]_vars
  PROVE  OneMore
<1> USE DEF IInv, RInv
<1>p. work \in [Requests -> Works] /\ starts \in Nat
  BY DEF TypeOK
\* No run begins.
<1>1. ASSUME \A r \in Requests : work'[r] \in {"running", "retrying", "settling"} => r \in Active(work)
      PROVE  OneMore
  BY <1>1 DEF OneMore, OneRun, Active
\* A run begins, or goes on in its next attempt.
<1>2. ASSUME NEW r \in Requests, Active(work) = {} \/ r \in Active(work),
             work' = [work EXCEPT ![r] = "running"], starts' = starts + 1, stop' = stop
      PROVE  OneMore
  <2>1. Active(work') \subseteq Active(work) \cup {r}
    BY <1>2, <1>p DEF Active
  <2>2. Active(work) \subseteq {r}
    BY <1>2 DEF OneRun
  <2>3. OneRun'
    BY <2>1, <2>2 DEF OneRun
  <2> QED BY <1>2, <1>p, <2>1, <2>3 DEF OneMore
<1>3. ASSUME NEW r \in Requests, NEW own, Sends(r, own), stop' = stop
      PROVE  OneMore
  <2>1. CASE work' = work \/ work' = [work EXCEPT ![r] = "preflight"]
             \/ work' = [work EXCEPT ![r] = "queued"]
    BY <1>1, <1>p, <2>1 DEF Active
  <2>2. CASE Active(work) = {} /\ work' = [work EXCEPT ![r] = "running"] /\ starts' = starts + 1
    BY <1>2, <1>3, <2>2
  <2> QED BY <1>3, <2>1, <2>2 DEF Sends
<1>4. ASSUME NEW r \in Requests, Begins(r) \/ RunEnds(r) \/ Retries(r) \/ Settles(r) \/ Finishes(r)
      PROVE  OneMore
  <2>1. WorkStep(r)
    BY <1>4, WorkShape
  <2>2. ASSUME NEW from \in {"preflight", "retrying", "settling"}, At(r, from, "running"),
               from = "preflight" => Active(work) = {}, starts' = starts + 1, UNCHANGED stop
        PROVE  OneMore
    <3>1. Active(work) = {} \/ r \in Active(work)
      BY <2>2 DEF At, Active
    <3> QED BY <1>2, <2>2, <3>1 DEF At
  <2>3. ASSUME NEW from \in {"preflight", "after", "queued"}, At(r, from, "none")
        PROVE  OneMore
    BY <1>1, <1>p, <2>3 DEF At, Active
  <2>4. CASE At(r, "running", "settling") \/ At(r, "running", "retrying") \/ At(r, "settling", "after")
    BY <1>1, <1>p, <2>4 DEF At, Active
  <2> QED BY <2>1, <2>2, <2>3, <2>4 DEF WorkStep
<1>5. ASSUME NEW n \in Stops, Stop(n) PROVE OneMore
  BY <1>1, <1>5 DEF Stop, Active
<1>6. CASE WorkerExits
  BY <1>1, <1>6 DEF WorkerExits
<1>7. CASE UNCHANGED work
  BY <1>1, <1>7 DEF Active
<1>8. ASSUME NEW r \in Requests, Prompt(r) \/ Continues(r) \/ Mail(r) PROVE OneMore
  BY <1>3, <1>7, <1>8 DEF Prompt, Continues, Mail, Waits, Rejected, worker
<1>9. ASSUME NEW r \in Requests, Answer(r) \/ Returns(r) PROVE UNCHANGED work
  BY <1>9 DEF Answer, Returns, worker
<1>10. ASSUME NEW n \in Stops, StopReturns(n) \/ Acks(n) PROVE UNCHANGED work
  BY <1>10 DEF StopReturns, Acks, worker
<1>11. CASE HandlesStart \/ HandlesEnd \/ HandlesRetryEnd \/ HandlesResponse \/ HandlesAck \/ UNCHANGED vars
  BY <1>7, <1>11 DEF HandlesStart, HandlesEnd, HandlesRetryEnd, HandlesResponse, HandlesAck, worker, vars
<1> QED BY <1>4, <1>5, <1>6, <1>7, <1>8, <1>9, <1>10, <1>11 DEF Next, Client, Server, Agent

\* What overlap says of the state after a step.
LEMMA OverlapStep ==
  ASSUME Observes, NEW r \in Active(work'), ~overlap'
  PROVE  /\ owning' \subseteq {r}
         /\ starts' # starts => \A n \in Stops : stop[n] \in {"none", "done"}
         /\ r \in Active(work) => ~overlap
<1>1. Active(work') # {}
  OBVIOUS
<1> QED BY <1>1, Zenon DEF Observes

\* Stops that are not on their way to the server stay so beside a run.
LEMMA StopsStep ==
  ASSUME IInv, RInv, Next, NEW r \in Active(work), r \in Active(work'),
         \A n \in Stops : stop[n] \in {"none", "done", "waiting"}
  PROVE  \A n \in Stops : stop'[n] \in {"none", "done", "waiting"}
<1> USE DEF IInv, RInv
<1>p. work \in [Requests -> Works]
  BY DEF TypeOK
<1>1. ASSUME NEW q \in Requests, Prompt(q) \/ Answer(q) \/ Mail(q) \/ Continues(q) \/ Returns(q)
      PROVE  stop' = stop
  BY <1>1 DEF Prompt, Answer, Mail, Continues, Returns
<1>2. ASSUME NEW q \in Requests, Begins(q) \/ RunEnds(q) \/ Retries(q) \/ Finishes(q)
      PROVE  stop' = stop
  BY <1>2 DEF Begins, RunEnds, Retries, Finishes, calls
<1>3. ASSUME NEW q \in Requests, Settles(q)
      PROVE  stop' = stop
  <2>1. r = q
    BY <1>3 DEF Settles, Starts, At, OneRun, Active
  <2> QED BY <1>3, <1>p, <2>1 DEF Settles, At, Active
<1>4. ASSUME NEW n \in Stops, Stop(n)
      PROVE  stop' = [stop EXCEPT ![n] = "waiting"]
  <2>1. work[r] # "retrying"
    BY <1>4 DEF Stop, Active
  <2> QED BY <1>4, <2>1 DEF Stop
<1>5. ASSUME NEW n \in Stops, Acks(n) \/ StopReturns(n)
      PROVE  stop' = [stop EXCEPT ![n] = "done"]
  BY <1>5 DEF Acks, StopReturns
<1>6. CASE HandlesStart \/ HandlesEnd \/ HandlesRetryEnd \/ HandlesResponse
  BY <1>6 DEF HandlesStart, HandlesEnd, HandlesRetryEnd, HandlesResponse, calls
<1>7. CASE HandlesAck
  BY <1>7 DEF HandlesAck, TypeOK
<1>8. CASE WorkerExits
  BY <1>8 DEF WorkerExits, Active
<1>9. stop \in [Stops -> {"none", "waiting", "due", "acking", "acked", "done"}]
  BY DEF TypeOK
<1> QED BY <1>1, <1>2, <1>3, <1>4, <1>5, <1>6, <1>7, <1>8, <1>9 DEF Next, Client, Server, Agent

LEMMA NextObserves ==
  ASSUME Next
  PROVE  Observes
  BY DEF Next, Client, Server, Agent, Prompt, Answer, Mail, Stop, HandlesStart, HandlesEnd,
     HandlesRetryEnd, HandlesResponse, HandlesAck, Continues, Returns, StopReturns, Begins,
     RunEnds, Retries, Settles, Finishes, Acks, WorkerExits

LEMMA BesideStep ==
  ASSUME IInv, RInv, [Next]_vars
  PROVE  Beside'
<1>1. CASE UNCHANGED vars
  BY <1>1 DEF vars, turn, calls, worker, history, Beside, Active, RInv
<1>2. CASE Next
  <2> SUFFICES ASSUME NEW r \in Active(work'), ~overlap'
               PROVE  /\ owning' \subseteq {r}
                      /\ \A n \in Stops : stop'[n] \in {"none", "done", "waiting"}
    BY DEF Beside
  <2>1. Observes
    BY <1>2, NextObserves
  <2>2. /\ owning' \subseteq {r}
        /\ starts' # starts => \A n \in Stops : stop[n] \in {"none", "done"}
        /\ r \in Active(work) => ~overlap
    BY <2>1, OverlapStep
  <2>3. CASE r \in Active(work)
    BY <1>2, <2>2, <2>3, StopsStep DEF RInv, Beside
  <2>4. CASE r \notin Active(work)
    BY <2>2, <2>4, RunsStep DEF OneMore
  <2> QED BY <2>2, <2>3, <2>4
<1> QED BY <1>1, <1>2
-----------------------------------------------------------------------------
(* The latest start of the run of the moment ends in a turn that is seen.   *)

\* Tells, as the pipe grows and shrinks.
LEMMA TellsKept ==
  ASSUME Tells, pipe' = pipe, Visible => Visible'
  PROVE  Tells'
  BY DEF Tells, Last

LEMMA TellsStart ==
  ASSUME TypeOK, NEW of, NEW well, Says("start", of, well)
  PROVE  Tells'
<1>1. /\ Len(pipe') = Len(pipe) + 1 /\ Len(pipe) \in Nat
      /\ pipe'[Len(pipe) + 1] = [kind |-> "start", of |-> of, well |-> well]
  BY PipeGrows DEF TypeOK
<1> QED BY <1>1 DEF Tells, Last

LEMMA TellsGrows ==
  ASSUME TypeOK, Tells, NEW kind, kind \notin {"end", "retryEnd"}, NEW of, NEW well, Says(kind, of, well),
         Visible => Visible'
  PROVE  Tells'
<1>1. /\ Len(pipe') = Len(pipe) + 1 /\ Len(pipe) \in Nat
      /\ \A i \in 1..Len(pipe) : pipe'[i] = pipe[i]
      /\ pipe'[Len(pipe) + 1].kind = kind
  <2>1. pipe'[Len(pipe) + 1] = [kind |-> kind, of |-> of, well |-> well]
    BY PipeGrows DEF TypeOK
  <2> QED BY <2>1, PipeGrows DEF TypeOK
<1>2. PICK i \in 0..Len(pipe) : /\ IF i = 0 THEN Visible ELSE pipe[i].kind = "start"
                                /\ Last(i, {"end", "retryEnd"})
  BY DEF Tells
<1>3. Last(i, {"end", "retryEnd"})'
  BY <1>1, <1>2 DEF Last
<1>4. i \in 0..Len(pipe') /\ IF i = 0 THEN Visible' ELSE pipe'[i].kind = "start"
  BY <1>1, <1>2
<1> QED BY <1>3, <1>4 DEF Tells

LEMMA TellsShrinks ==
  ASSUME TypeOK, Tells, NEW kind, Reads(kind), kind = "start" => Visible',
         kind \notin {"end", "retryEnd"} => (Visible => Visible')
  PROVE  Tells'
<1>1. /\ Len(pipe) = Len(pipe') + 1 /\ Len(pipe') \in Nat
      /\ \A i \in 1..Len(pipe') : pipe'[i] = pipe[i + 1]
      /\ pipe[1].kind = kind
  BY PipeShrinks DEF TypeOK
<1>2. PICK i \in 0..Len(pipe) : /\ IF i = 0 THEN Visible ELSE pipe[i].kind = "start"
                                /\ Last(i, {"end", "retryEnd"})
  BY DEF Tells
<1>3. CASE i = 0
  <2>1. kind \notin {"end", "retryEnd"}
    BY <1>1, <1>2, <1>3 DEF Last
  <2>2. Last(0, {"end", "retryEnd"})'
    BY <1>1, <1>2, <1>3 DEF Last
  <2> QED BY <1>1, <1>2, <1>3, <2>1, <2>2 DEF Tells
<1>4. CASE i > 0
  <2>1. Last(i - 1, {"end", "retryEnd"})'
    BY <1>1, <1>2, <1>4 DEF Last
  <2>2. i - 1 \in 0..Len(pipe') /\ IF i - 1 = 0 THEN Visible' ELSE pipe'[i - 1].kind = "start"
    BY <1>1, <1>2, <1>4
  <2> QED BY <2>1, <2>2 DEF Tells
<1> QED BY <1>2, <1>3, <1>4

LEMMA ShownStep ==
  ASSUME IInv, RInv, [Next]_vars
  PROVE  Shown'
<1> USE DEF IInv, RInv
<1>p. pipe \in Seq(Line) /\ stage \in [Requests -> Stages] /\ work \in [Requests -> Works]
  BY DEF TypeOK
<1>0. CASE UNCHANGED vars
  <2>1. Visible => Visible'
    BY <1>0 DEF vars, turn, Visible
  <2> QED BY <1>0, <2>1, TellsKept DEF vars, history, worker, Shown, Live
<1> SUFFICES ASSUME Next, NEW r \in Requests, work'[r] \in {"running", "retrying"}, ~overlap'
             PROVE  Tells'
  BY <1>0 DEF Shown, Live
<1>a. r \in Active(work') /\ Observes
  BY NextObserves DEF Active
<1>b. owning' \subseteq {r} /\ (r \in Active(work) => ~overlap)
  BY <1>a, OverlapStep
\* The run went on before the step: it was told, and Stops are far away.
<1>c. ASSUME work[r] \in {"running", "retrying"}
      PROVE  /\ Tells /\ stage[r] = "sent" /\ owning \subseteq {r}
             /\ \A n \in Stops : stop[n] \in {"none", "done", "waiting"}
             /\ \A q \in Active(work) : q = r
  BY <1>b, <1>c DEF Shown, Live, Active, Beside, OneRun, Answered
<1>1. ASSUME UNCHANGED <<context, latest>>, work'[r] = work[r],
             \/ pipe' = pipe
             \/ \E of, well : Says("response", of, well) \/ Says("ack", of, well)
             \/ Reads("response") \/ Reads("ack")
      PROVE  Tells'
  <2>1. Visible => Visible'
    BY <1>1 DEF Visible
  <2>2. Tells
    BY <1>1, <1>c
  <2>3. CASE pipe' = pipe
    BY <2>1, <2>2, <2>3, TellsKept
  <2>4. ASSUME NEW of, NEW well, Says("response", of, well) \/ Says("ack", of, well)
        PROVE  Tells'
    BY <2>1, <2>2, <2>4, TellsGrows
  <2>5. CASE Reads("response") \/ Reads("ack")
    BY <2>1, <2>2, <2>5, TellsShrinks
  <2> QED BY <1>1, <2>3, <2>4, <2>5
<1>2. ASSUME NEW q \in Requests, NEW own, Sends(q, own), stage[q] \notin {"answering", "sent"}
      PROVE  Tells'
  <2>1. CASE Says("start", None, TRUE)
    BY <2>1, TellsStart
  <2>2. CASE ~Says("start", None, TRUE)
    <3>1. q # r /\ work'[r] = work[r]
      BY <1>2, <2>2, <1>p DEF Sends, Answered
    <3>2. ~own
      <4>1. own => q \in owning'
        BY <1>2, SendsShape
      <4> QED BY <1>b, <3>1, <4>1
    <3>3. UNCHANGED <<context, latest>>
      BY <1>2, <3>2, SendsShape
    <3>4. pipe' = pipe \/ Says("response", q, FALSE)
      BY <1>2, <2>2 DEF Sends
    <3> QED BY <1>1, <3>1, <3>3, <3>4
  <2> QED BY <2>1, <2>2
<1>3. ASSUME NEW q \in Requests, Prompt(q) \/ Continues(q) \/ Mail(q) PROVE Tells'
  <2>1. stage[q] \notin {"answering", "sent"}
    BY <1>3 DEF Prompt, Continues, Mail
  <2>2. CASE Sends(q, TRUE) \/ Sends(q, ~Busy)
    BY <1>2, <2>1, <2>2
  <2>3. CASE UNCHANGED <<turn, pipe, worker>>
    BY <1>1, <2>3 DEF turn, worker
  <2> QED BY <1>3, <2>2, <2>3 DEF Prompt, Continues, Mail, Waits, Rejected
<1>4. ASSUME NEW q \in Requests, Answer(q) PROVE Tells'
  BY <1>1, <1>4 DEF Answer, turn, worker
<1>5. ASSUME NEW n \in Stops, Stop(n) PROVE Tells'
  <2>1. work[r] = "running"
    BY <1>5 DEF Stop
  <2>2. \A q \in Requests : work[q] # "retrying"
    BY <1>c, <2>1 DEF Active
  <2> QED BY <1>1, <1>5, <2>1, <2>2 DEF Stop, turn
<1>6. CASE HandlesStart
  <2> DEFINE t == IF context = None \/ Terminal(context, latest) THEN minted + 1 ELSE context
  <2>1. context' = t /\ latest' = Under(t, latest) /\ Reads("start") /\ work' = work
    BY <1>6 DEF HandlesStart, worker
  <2>2. CASE context = None \/ Terminal(context, latest)
    <3>1. t = minted + 1 /\ minted \in Nat
      BY <2>2 DEF TypeOK
    <3>0. \A u \in {latest.id} : u \in Nat => u <= minted
      BY DEF Named
    <3> HIDE DEF t
    <3>2. t # None
      BY <3>1 DEF Turns
    <3>3. latest.id # t
      BY <3>0, <3>1
    <3> QED BY <1>c, <2>1, <3>2, <3>3, TellsShrinks DEF Under, Visible
  <2>3. CASE context # None /\ ~Terminal(context, latest)
    <3>1. t = context /\ latest.id = context /\ latest.state = "running"
      BY <2>3 DEF Named, Idle, Terminal, TypeOK
    <3>2. Visible'
      BY <2>1, <3>1, <2>3 DEF Under, Visible, TypeOK
    <3> QED BY <1>c, <2>1, <3>2, TellsShrinks
  <2> QED BY <2>2, <2>3
<1>7. CASE HandlesEnd
  <2>1. Reads("end") /\ work' = work
    BY <1>7 DEF HandlesEnd, worker
  <2> QED BY <1>c, <2>1, TellsShrinks
<1>8. CASE HandlesRetryEnd
  <2>1. Reads("retryEnd") /\ work' = work
    BY <1>8 DEF HandlesRetryEnd, worker
  <2> QED BY <1>c, <2>1, TellsShrinks
<1>9. CASE HandlesResponse \/ HandlesAck
  <2>1. Reads("response") \/ Reads("ack")
    BY <1>9 DEF HandlesResponse, HandlesAck
  <2>2. UNCHANGED <<turn, worker>>
    BY <1>9 DEF HandlesResponse, HandlesAck
  <2> QED BY <1>1, <2>1, <2>2 DEF turn, worker
<1>10. ASSUME NEW q \in Requests, Returns(q) PROVE Tells'
  <2>1. work' = work /\ pipe' = pipe /\ stage[q] # "sent"
    BY <1>10 DEF Returns, worker
  <2>2. q \notin owning
    BY <1>c, <2>1
  <2>3. UNCHANGED <<context, latest>>
    BY <1>10, <2>2 DEF Returns, Freed
  <2> QED BY <1>1, <2>1, <2>3
<1>11. ASSUME NEW n \in Stops, StopReturns(n) PROVE Tells'
  <2>1. work' = work /\ stop[n] = "acked"
    BY <1>11 DEF StopReturns, worker
  <2> QED BY <1>c, <2>1
<1>12. ASSUME NEW q \in Requests, Begins(q) \/ RunEnds(q) \/ Retries(q) \/ Settles(q) \/ Finishes(q)
       PROVE  Tells'
  <2>1. UNCHANGED <<context, latest>> /\ WorkStep(q)
    BY <1>12, WorkShape DEF turn
  <2>2. CASE Says("start", None, TRUE)
    BY <2>2, TellsStart
  <2>3. ASSUME NEW from, NEW to \in {"none", "settling", "after"}, At(q, from, to)
        PROVE  work'[r] = work[r] /\ r # q
    BY <2>3, <1>p DEF At
  <2>4. CASE At(q, "running", "settling")
    BY <1>c, <2>3, <2>4 DEF At, Active
  <2>5. ASSUME NEW well, Says("response", q, well), NEW from, At(q, from, "none")
        PROVE  Tells'
    BY <1>1, <2>1, <2>3, <2>5
  <2>6. CASE At(q, "settling", "after") /\ UNCHANGED pipe
    BY <1>1, <2>1, <2>3, <2>6
  <2>7. CASE At(q, "running", "retrying") /\ UNCHANGED pipe
    <3>1. work[r] \in {"running", "retrying"}
      BY <1>p, <2>7 DEF At
    <3>2. Visible => Visible'
      BY <2>1 DEF Visible
    <3> QED BY <1>c, <2>7, <3>1, <3>2, TellsKept
  <2> QED BY <2>1, <2>2, <2>4, <2>5, <2>6, <2>7 DEF WorkStep
<1>13. ASSUME NEW n \in Stops, Acks(n) PROVE Tells'
  BY <1>1, <1>13 DEF Acks, turn, worker
<1>14. CASE WorkerExits
  BY <1>14 DEF WorkerExits
<1> QED
  BY <1>3, <1>4, <1>5, <1>6, <1>7, <1>8, <1>9, <1>10, <1>11, <1>12, <1>13, <1>14
  DEF Next, Client, Server, Agent
-----------------------------------------------------------------------------
(* What holds the session is given up.                                      *)

\* The owners that the worker still has are there after the step.
OwnersStay ==
  \A r \in owning : stage[r] = "sent" => stage'[r] = "sent" /\ (work[r] # "none" => work'[r] # "none")

LEMMA ClosedKept ==
  ASSUME Closed, ~orphaned, ~exited, pipe' = pipe, owning' = owning, context' \in {context, None},
         Live => Live', OwnersStay
  PROVE  Closed'
<1>1. \A r \in owning : \A i \in 0..Len(pipe) : GivesUp(i, r) => GivesUp(i, r)'
  BY DEF GivesUp, Responds, OwnersStay
<1>2. \A i \in 0..Len(pipe) : (Opens(i)' => Opens(i)) /\ (Last(i, {"end"})' <=> Last(i, {"end"}))
  BY DEF Opens, Last
<1> QED BY <1>1, <1>2 DEF Closed

\* A line that does not begin or end a run, and that is the response of a
\* request that has left the worker.
LEMMA ClosedGrows ==
  ASSUME TypeOK, Closed, ~orphaned, ~exited, owning' = owning, context' = context,
         Live => Live', NEW kind \in {"response", "ack", "retryEnd"}, NEW of, NEW well, Says(kind, of, well),
         \A r \in owning : stage[r] = "sent" =>
           stage'[r] = "sent" /\ (work[r] # "none" => work'[r] # "none" \/ (kind = "response" /\ of = r))
  PROVE  Closed'
<1>1. /\ Len(pipe') = Len(pipe) + 1 /\ Len(pipe) \in Nat
      /\ \A i \in 1..Len(pipe) : pipe'[i] = pipe[i]
      /\ pipe'[Len(pipe) + 1] = [kind |-> kind, of |-> of, well |-> well]
  BY PipeGrows DEF TypeOK
<1>2. ASSUME NEW i \in 0..Len(pipe'), Opens(i)', Last(i, {"end"})'
      PROVE  i \in 0..Len(pipe) /\ Opens(i) /\ Last(i, {"end"})
  <2>1. i # Len(pipe) + 1
    BY <1>1, <1>2 DEF Opens
  <2>2. i \in 0..Len(pipe)
    BY <1>1, <2>1
  <2>3. Opens(i)
    BY <1>1, <1>2, <2>2 DEF Opens
  <2> QED BY <1>1, <1>2, <2>2, <2>3 DEF Last
<1>3. ASSUME NEW r \in owning, NEW i \in 0..Len(pipe), GivesUp(i, r)
      PROVE  GivesUp(i, r)'
  <2>1. CASE i = 0
    BY <2>1 DEF GivesUp
  <2>2. CASE stage[r] = "sent" /\ \E j \in 1..Len(pipe) : j > i /\ Responds(j, r)
    <3>1. PICK j \in 1..Len(pipe) : j > i /\ Responds(j, r)
      BY <2>2
    <3>2. j \in 1..Len(pipe') /\ Responds(j, r)'
      BY <1>1, <3>1 DEF Responds
    <3> QED BY <2>2, <3>1, <3>2 DEF GivesUp
  <2>3. CASE stage[r] = "sent" /\ work[r] # "none"
    <3>1. CASE work'[r] # "none"
      BY <2>3, <3>1 DEF GivesUp
    <3>2. CASE kind = "response" /\ of = r
      <4>1. PICK k \in 1..Len(pipe') : k = Len(pipe) + 1
        BY <1>1
      <4>2. Responds(k, r)' /\ k > i
        BY <1>1, <3>2, <4>1 DEF Responds
      <4>3. stage'[r] = "sent"
        BY <2>3
      <4> QED BY <4>2, <4>3 DEF GivesUp
    <3> QED BY <2>3, <3>1, <3>2
  <2> QED BY <1>3, <2>1, <2>2, <2>3 DEF GivesUp
<1> QED BY <1>2, <1>3 DEF Closed

\* The end of a run closes all before it.
LEMMA ClosedEnd ==
  ASSUME TypeOK, NEW of, NEW well, Says("end", of, well)
  PROVE  Closed'
<1>1. /\ Len(pipe') = Len(pipe) + 1 /\ Len(pipe) \in Nat
      /\ pipe'[Len(pipe) + 1] = [kind |-> "end", of |-> of, well |-> well]
  BY PipeGrows DEF TypeOK
<1>2. \A i \in 0..Len(pipe') : ~(Opens(i)' /\ Last(i, {"end"})')
  BY <1>1 DEF Opens, Last
<1> QED BY <1>2 DEF Closed

\* A line is read.
LEMMA ClosedShrinks ==
  ASSUME TypeOK, Closed, Answered, ~orphaned, ~exited, owning' = owning, work' = work,
         NEW kind \in {"start", "end", "retryEnd", "response", "ack"}, Reads(kind),
         kind \notin {"start", "end"} => context' = context,
         kind = "end" /\ owning = {} => context' = None,
         \A r \in owning : stage[r] = "sent" => stage'[r] = "sent" \/ Responds(1, r)
  PROVE  Closed'
<1>1. /\ Len(pipe) = Len(pipe') + 1 /\ Len(pipe') \in Nat
      /\ \A i \in 1..Len(pipe') : pipe'[i] = pipe[i + 1]
      /\ pipe[1].kind = kind
  BY PipeShrinks DEF TypeOK
<1>2. owning \subseteq Requests
  BY DEF TypeOK
\* What the next line opens, or the line read last.
<1>o. ASSUME NEW i \in 0..Len(pipe'), Opens(i)', Last(i, {"end"})', i > 0 \/ kind = "start"
      PROVE  i + 1 \in 0..Len(pipe) /\ Opens(i + 1) /\ Last(i + 1, {"end"})
  <2>1. i + 1 \in 1..Len(pipe) /\ pipe[i + 1].kind = "start"
    BY <1>1, <1>o DEF Opens
  <2>2. \A j \in 1..Len(pipe) : j > i + 1 => pipe[j].kind # "end"
    <3> SUFFICES ASSUME NEW j \in 1..Len(pipe), j > i + 1 PROVE pipe[j].kind # "end"
      OBVIOUS
    <3>1. j - 1 \in 1..Len(pipe') /\ j - 1 > i /\ pipe'[j - 1] = pipe[j]
      BY <1>1
    <3> QED BY <1>o, <3>1 DEF Last
  <2> QED BY <2>1, <2>2 DEF Opens, Last
<1>3. ASSUME NEW i \in 0..Len(pipe'), Opens(i)', Last(i, {"end"})', owning = {}
      PROVE  Live
  <2>1. CASE i = 0 /\ kind \notin {"start", "end"}
    <3>1. Opens(0)
      BY <1>3, <2>1 DEF Opens
    <3>2. \A j \in 1..Len(pipe) : pipe[j].kind # "end"
      <4> SUFFICES ASSUME NEW j \in 1..Len(pipe) PROVE pipe[j].kind # "end"
        OBVIOUS
      <4>1. CASE j = 1
        BY <1>1, <2>1, <4>1
      <4>2. CASE j > 1
        <5>1. j - 1 \in 1..Len(pipe') /\ j - 1 > i /\ pipe'[j - 1] = pipe[j]
          BY <1>1, <2>1, <4>2
        <5> QED BY <1>3, <5>1 DEF Last
      <4> QED BY <1>1, <4>1, <4>2
    <3>3. Last(0, {"end"})
      BY <3>2 DEF Last
    <3> QED BY <1>1, <1>3, <3>1, <3>3 DEF Closed
  <2>2. CASE i > 0 \/ (i = 0 /\ kind = "start")
    <3>1. i + 1 \in 0..Len(pipe) /\ Opens(i + 1) /\ Last(i + 1, {"end"})
      BY <1>o, <1>3, <2>2
    <3> QED BY <1>3, <3>1 DEF Closed
  <2>3. CASE i = 0 /\ kind = "end"
    BY <1>3, <2>3 DEF Opens
  <2> QED BY <2>1, <2>2, <2>3
<1>4. ASSUME NEW i \in 1..Len(pipe'), Opens(i)', Last(i, {"end"})', ~Live
      PROVE  \E r \in owning : GivesUp(i, r)'
  <2>1. i + 1 \in 0..Len(pipe) /\ Opens(i + 1) /\ Last(i + 1, {"end"})
    BY <1>o, <1>4
  <2>2. PICK r \in owning : GivesUp(i + 1, r)
    BY <1>4, <2>1 DEF Closed
  <2>3. stage[r] = "sent" /\ (work[r] # "none" \/ \E j \in 1..Len(pipe) : j > i + 1 /\ Responds(j, r))
    BY <2>2 DEF GivesUp
  <2>4. ~Responds(1, r)
    <3>1. 1 \in 1..Len(pipe) /\ r \in Requests
      BY <1>1, <1>2
    <3> QED BY <2>3, <3>1 DEF Answered
  <2>5. stage'[r] = "sent"
    BY <2>3, <2>4
  <2>6. CASE work[r] # "none"
    BY <2>5, <2>6 DEF GivesUp
  <2>7. CASE \E j \in 1..Len(pipe) : j > i + 1 /\ Responds(j, r)
    <3>1. PICK j \in 1..Len(pipe) : j > i + 1 /\ Responds(j, r)
      BY <2>7
    <3>2. j - 1 \in 1..Len(pipe') /\ j - 1 > i /\ Responds(j - 1, r)'
      BY <1>1, <3>1 DEF Responds
    <3> QED BY <2>5, <3>2 DEF GivesUp
  <2> QED BY <2>3, <2>6, <2>7
<1>5. \A r \in owning : GivesUp(0, r)'
  BY DEF GivesUp
<1>6. Live <=> Live'
  BY DEF Live
<1> SUFFICES ASSUME NEW i \in 0..Len(pipe'), Opens(i)', Last(i, {"end"})', ~Live
             PROVE  \E r \in owning : GivesUp(i, r)'
  BY <1>6 DEF Closed
<1>7. CASE i = 0
  BY <1>3, <1>5, <1>7
<1>8. CASE i > 0
  BY <1>1, <1>4, <1>8
<1> QED BY <1>7, <1>8

\* The owner of the turn gives up whatever holds the session.
LEMMA OwnerReturns ==
  ASSUME TypeOK, Owners, Named, NEW r \in owning, Returns(r)
  PROVE  context' = None
<1> DEFINE l == IF ~Terminal(r, latest)
                THEN Ended(Under(context, latest), IF stage[r] = "returned" THEN "completed" ELSE "error")
                ELSE latest
<1>1. foreground = 1
  BY DEF Owners
<1>2. context' = IF context = r \/ Terminal(context, l) THEN None ELSE context
  BY <1>1 DEF Returns, Freed
<1>3. CASE context # None /\ Terminal(r, latest)
  BY <1>2, <1>3 DEF Named, Terminal
<1>4. CASE context # None /\ ~Terminal(r, latest)
  <2>1. l = Ended(latest, IF stage[r] = "returned" THEN "completed" ELSE "error") /\ latest.id = context
    BY <1>4 DEF Under, Named
  <2>2. Terminal(context, l)
    BY <1>4, <2>1 DEF Ended, Terminal, Over, TypeOK
  <2> QED BY <1>2, <2>2
<1> QED BY <1>2, <1>3, <1>4

LEMMA ClosedStep ==
  ASSUME IInv, RInv, [Next]_vars
  PROVE  Closed'
<1> USE DEF IInv, RInv
<1>p. /\ pipe \in Seq(Line) /\ stage \in [Requests -> Stages] /\ work \in [Requests -> Works]
      /\ owning \subseteq Requests
  BY DEF TypeOK
<1>0. CASE UNCHANGED vars
  <2>1. /\ UNCHANGED <<context, owning, stage, pipe, work, exited, orphaned>>
    BY <1>0 DEF vars, turn, calls, worker, history
  <2> QED BY <2>1, ClosedKept DEF Closed, OwnersStay, Live
<1> SUFFICES ASSUME Next, ~orphaned', ~exited', ~Live' PROVE Closed'
  BY <1>0 DEF Closed
<1>a. Observes /\ ~orphaned
  <2>1. Observes
    BY NextObserves
  <2>2. orphaned => orphaned'
    BY <2>1, Zenon DEF Observes
  <2> QED BY <2>1, <2>2
\* Lines of the worker and steps that leave the owner where it is.
<1>1. ASSUME ~exited, UNCHANGED <<context, owning, stage, work>>,
             \/ pipe' = pipe
             \/ \E of, well : Says("response", of, well) \/ Says("ack", of, well)
      PROVE  Closed'
  <2>1. OwnersStay /\ (Live => Live')
    BY <1>1 DEF OwnersStay, Live
  <2> QED BY <1>1, <1>a, <2>1, ClosedKept, ClosedGrows DEF OwnersStay
<1>2. ASSUME NEW q \in Requests, NEW own, Sends(q, own), ~exited, own => ~Busy,
             stage[q] \notin {"answering", "sent"}
      PROVE  Closed'
  <2>1. work[q] = "none" /\ q \in Requests
    BY <1>2 DEF Answered
  <2>2. pipe' = pipe /\ \E to : to # "none" /\ work' = [work EXCEPT ![q] = to]
    <3>1. CASE work' = [work EXCEPT ![q] = "running"]
      <4>1. Live'
        BY <1>p, <3>1 DEF Live
      <4> QED BY <4>1
    <3> QED BY <1>2, <3>1 DEF Sends
  <2>3. ~Live
    BY <1>p, <2>1, <2>2 DEF Live
  <2>4. stage' = [stage EXCEPT ![q] = "sent"]
    BY <1>2, SendsShape
  <2>5. CASE own
    <3>1. owning = {} /\ q \in owning'
      <4>1. q \in owning'
        BY <1>2, <2>5, SendsShape
      <4> QED BY <1>2, <2>5, <4>1 DEF Busy, Owners
    <3>2. \A i \in 0..Len(pipe) : ~(Opens(i) /\ Last(i, {"end"}))
      BY <1>2, <1>a, <2>3, <3>1 DEF Closed
    <3>3. \A i \in 1..Len(pipe) : ~(Opens(i)' /\ Last(i, {"end"})')
      BY <2>2, <3>2 DEF Opens, Last
    <3>4. GivesUp(0, q)'
      BY DEF GivesUp
    <3> QED BY <2>2, <3>1, <3>3, <3>4 DEF Closed
  <2>6. CASE ~own
    <3>1. UNCHANGED <<context, owning>>
      BY <1>2, <2>6, SendsShape
    <3>2. OwnersStay
      BY <1>p, <2>1, <2>2, <2>4 DEF OwnersStay
    <3> QED BY <1>2, <1>a, <2>2, <2>3, <3>1, <3>2, ClosedKept
  <2> QED BY <2>5, <2>6
\* A request that is not at the worker changes its stage.
<1>3. ASSUME ~exited, UNCHANGED <<owning, work, pipe>>, context' \in {context, None},
             \A q \in Requests : stage[q] = "sent" => stage'[q] = "sent"
      PROVE  Closed'
  <2>1. OwnersStay /\ (Live => Live')
    BY <1>3, <1>p DEF OwnersStay, Live
  <2> QED BY <1>3, <1>a, <2>1, ClosedKept
<1>4. ASSUME NEW q \in Requests, Prompt(q) \/ Continues(q) \/ Mail(q) PROVE Closed'
  <2>1. stage[q] \notin {"answering", "sent"}
    BY <1>4 DEF Prompt, Continues, Mail
  <2>2. ~exited
    BY <1>4 DEF Prompt, Continues, Mail, Sends, Waits, Rejected, worker
  <2>3. CASE (Sends(q, TRUE) /\ ~Busy) \/ Sends(q, ~Busy)
    BY <1>2, <2>1, <2>2, <2>3
  <2>4. CASE /\ UNCHANGED <<turn, pipe, worker>>
             /\ stage' = [stage EXCEPT ![q] = "waiting"] \/ stage' = [stage EXCEPT ![q] = "done"]
    BY <1>3, <1>p, <2>1, <2>2, <2>4 DEF turn, worker
  <2> QED BY <1>4, <2>3, <2>4 DEF Prompt, Continues, Mail, Waits, Rejected
<1>5. ASSUME NEW q \in Requests, Answer(q) PROVE Closed'
  <2>1. PICK well : Says("response", q, well)
    BY <1>5 DEF Answer
  <2>2. /\ stage[q] = "none" /\ stage' = [stage EXCEPT ![q] = "answering"] /\ ~exited
        /\ UNCHANGED <<context, owning, work>>
    BY <1>5 DEF Answer, turn, worker
  <2>3. \A r \in owning : stage[r] = "sent" => stage'[r] = "sent" /\ work'[r] = work[r]
    BY <1>p, <2>2
  <2>4. Live => Live'
    BY <2>2 DEF Live
  <2> QED BY <1>a, <2>1, <2>2, <2>3, <2>4, ClosedGrows
<1>6. ASSUME NEW n \in Stops, Stop(n) PROVE Closed'
  <2>1. /\ UNCHANGED <<context, owning>> /\ ~exited /\ epoch' # epoch
        /\ stage' = [r \in Requests |-> IF stage[r] = "waiting" THEN "done" ELSE stage[r]]
        /\ work' = [r \in Requests |-> IF work[r] = "retrying" THEN "after" ELSE work[r]]
    BY <1>6 DEF Stop, turn, TypeOK
  <2>2. OwnersStay
    BY <1>p, <2>1 DEF OwnersStay
  <2>3. CASE \A r \in Requests : work[r] # "retrying"
    <3>1. Live => Live'
      BY <2>1, <2>3 DEF Live
    <3> QED BY <1>6, <1>a, <2>1, <2>2, <2>3, <3>1, ClosedKept DEF Stop
  <2>4. ASSUME NEW r \in Requests, work[r] = "retrying" PROVE Closed'
    <3>1. r \in owning
      <4>1. (epoch' # epoch /\ \E q \in Requests \ owning : work[q] = "retrying") => orphaned'
        BY <1>a, Zenon DEF Observes
      <4> QED BY <2>1, <2>4, <4>1
    <3>2. stage'[r] = "sent" /\ work'[r] = "after" /\ r \in owning'
      BY <2>1, <2>4, <3>1 DEF Answered
    <3>3. \A i \in 0..Len(pipe') : GivesUp(i, r)'
      BY <3>2 DEF GivesUp
    <3> QED BY <3>2, <3>3 DEF Closed
  <2> QED BY <2>3, <2>4
<1>7. ASSUME NEW kind \in {"start", "end", "retryEnd", "response", "ack"}, Reads(kind),
             UNCHANGED <<owning, worker>>, kind \notin {"start", "end"} => context' = context,
             kind = "end" /\ owning = {} => context' = None,
             \A r \in owning : stage[r] = "sent" => stage'[r] = "sent" \/ Responds(1, r)
      PROVE  Closed'
  <2>1. ~exited /\ work' = work /\ owning' = owning
    BY <1>7 DEF worker
  <2> QED BY <1>7, <1>a, <2>1, ClosedShrinks
<1>8. CASE HandlesStart
  <2>1. Reads("start") /\ UNCHANGED <<owning, worker, stage>>
    BY <1>8 DEF HandlesStart, calls
  <2> QED BY <1>7, <2>1
<1>9. CASE HandlesEnd
  <2>1. PICK o \in Over : EndsTurn(o)
    BY <1>9 DEF HandlesEnd, Over
  <2>2. Reads("end") /\ UNCHANGED <<owning, worker>>
    BY <1>9, <2>1 DEF HandlesEnd, EndsTurn
  <2>3. owning = {} => context' = None
    BY <2>1 DEF EndsTurn, Owners
  <2>4. \A r \in owning : stage[r] = "sent" => stage'[r] = "sent"
    BY <1>p, <2>1, ReleasedIsSteady DEF EndsTurn
  <2> QED BY <1>7, <2>2, <2>3, <2>4
<1>10. CASE HandlesRetryEnd
  <2>1. Reads("retryEnd") /\ UNCHANGED <<owning, worker, stage, context>>
    BY <1>10 DEF HandlesRetryEnd, calls
  <2> QED BY <1>7, <2>1
<1>11. CASE HandlesResponse
  <2>1. Reads("response") /\ UNCHANGED <<owning, worker, context>>
    BY <1>11 DEF HandlesResponse, turn
  <2>2. pipe[1] = Head(pipe) /\ pipe[1].kind = "response"
    BY <1>p, <2>1, PipeShrinks
  <2>3. \A r \in Requests : stage'[r] = stage[r] \/ Responds(1, r)
    BY <1>11, <2>2, <1>p DEF HandlesResponse, Responds
  <2> QED BY <1>7, <1>p, <2>1, <2>3
<1>12. CASE HandlesAck
  <2>1. Reads("ack") /\ UNCHANGED <<owning, worker, stage, context>>
    BY <1>12 DEF HandlesAck, turn
  <2> QED BY <1>7, <2>1
<1>13. ASSUME NEW q \in Requests, Returns(q) PROVE Closed'
  <2> DEFINE st == [stage EXCEPT ![q] = "done"]
  <2>1. PICK c, f : stage' = Released(st, c, f)
    BY <1>13 DEF Returns
  <2>2. /\ owning' = owning \ {q} /\ UNCHANGED <<pipe, work, exited>> /\ stage[q] # "sent"
        /\ st \in [Requests -> Stages]
    BY <1>13 DEF Returns, worker, TypeOK, Stages
  <2>3. \A r \in Requests : stage[r] = "sent" => st[r] = "sent"
    BY <1>p, <2>2
  <2>4. \A r \in Requests : stage[r] = "sent" => stage'[r] = "sent"
    <3> HIDE DEF st
    <3> QED BY <2>1, <2>2, <2>3, ReleasedIsSteady
  <2>5. CASE q \notin owning
    <3>1. context' = context /\ owning' = owning
      BY <1>13, <2>2, <2>5 DEF Returns, Freed
    <3> QED BY <1>3, <2>2, <2>4, <3>1
  <2>6. CASE q \in owning
    <3>1. context' = None /\ owning = {q}
      BY <1>13, <2>6, OwnerReturns DEF Owners
    <3>2. ~Live /\ ~exited
      BY <2>2 DEF Live
    <3>3. \A i \in 1..Len(pipe) : ~(Opens(i) /\ Last(i, {"end"}))
      BY <1>a, <2>2, <3>1, <3>2 DEF Closed, GivesUp
    <3>4. \A i \in 0..Len(pipe') : ~(Opens(i)' /\ Last(i, {"end"})')
      BY <2>2, <3>1, <3>3 DEF Opens, Last
    <3> QED BY <3>4 DEF Closed
  <2> QED BY <2>5, <2>6
<1>14. ASSUME NEW n \in Stops, StopReturns(n) PROVE Closed'
  <2>1. UNCHANGED <<pipe, work, exited, owning>> /\ context' \in {context, None}
    BY <1>14 DEF StopReturns, worker, EndsTurn, turn
  <2>2. \A q \in Requests : stage[q] = "sent" => stage'[q] = "sent"
    BY <1>14, <1>p, ReleasedIsSteady DEF StopReturns, EndsTurn
  <2> QED BY <1>3, <2>1, <2>2
<1>15. ASSUME NEW q \in Requests, Begins(q) \/ RunEnds(q) \/ Retries(q) \/ Settles(q) \/ Finishes(q)
       PROVE  Closed'
  <2>1. UNCHANGED <<context, owning, stage, exited>> /\ WorkStep(q)
    BY <1>15, WorkShape DEF turn
  <2>2. ASSUME NEW from, NEW to \in {"running", "retrying"}, At(q, from, to) PROVE FALSE
    BY <1>p, <2>2 DEF At, Live
  <2>3. CASE Says("end", None, ~halted)
    BY <2>3, ClosedEnd
  <2>4. ASSUME NEW from \in {"preflight", "after", "queued"}, NEW well,
               At(q, from, "none"), Says("response", q, well)
        PROVE  Closed'
    <3>1. \A r \in owning : stage[r] = "sent" =>
            stage'[r] = "sent" /\ (work[r] # "none" => work'[r] # "none" \/ r = q)
      BY <1>p, <2>1, <2>4 DEF At
    <3>2. Live => Live'
      BY <1>p, <2>4 DEF At, Live
    <3> QED BY <1>a, <2>1, <2>4, <3>1, <3>2, ClosedGrows
  <2>5. CASE At(q, "settling", "after") /\ UNCHANGED pipe
    <3>1. OwnersStay /\ (Live => Live')
      BY <1>p, <2>1, <2>5 DEF At, OwnersStay, Live
    <3> QED BY <1>a, <2>1, <2>5, <3>1, ClosedKept
  <2> QED BY <2>1, <2>2, <2>3, <2>4, <2>5 DEF WorkStep
<1>16. ASSUME NEW n \in Stops, Acks(n) PROVE Closed'
  <2>1. UNCHANGED <<context, owning, stage, work, exited>>
    BY <1>16 DEF Acks, turn, worker
  <2>2. pipe' = pipe \/ Says("ack", n, TRUE)
    BY <1>16 DEF Acks
  <2> QED BY <1>1, <2>1, <2>2
<1>17. CASE WorkerExits
  BY <1>17 DEF WorkerExits
<1> QED
  BY <1>4, <1>5, <1>6, <1>8, <1>9, <1>10, <1>11, <1>12, <1>13, <1>14, <1>15, <1>16, <1>17
  DEF Next, Client, Server, Agent

-----------------------------------------------------------------------------
(* What is to come, in every state.                                         *)

LEMMA InitRest ==
  ASSUME Init
  PROVE  RInv
<1>1. Awaited /\ Idle
  BY DEF Init, Awaited, Idle
<1>2. Answered /\ OneRun /\ Beside /\ Closed /\ Shown
  BY DEF Init, Answered, OneRun, Beside, Closed, Shown, Live, Opens, Active
<1> QED BY <1>1, <1>2 DEF RInv

\* Lines on their way, the worker's part of each request and the turn of the
\* session agree.
THEOREM Foreseen == Spec => []RInv
<1>1. ASSUME IInv, RInv, [Next]_vars PROVE RInv'
  <2>1. OneRun'
    BY <1>1, RunsStep DEF OneMore
  <2> QED BY <1>1, <2>1, TurnStep, AnsweredStep, BesideStep, ClosedStep, ShownStep DEF RInv
<1>2. Init => RInv
  BY InitRest
<1> QED BY <1>1, <1>2, Inductive, PTL DEF Spec

\* When nothing is in flight the turn is free and nobody waits for it, unless a
\* run without an owner was stopped between two attempts or the worker exited.
THEOREM Rests == Spec => []RestIsRest
<1>1. IInv /\ RInv => RestIsRest
  <2> SUFFICES ASSUME IInv, RInv, AtRest, ~orphaned, ~exited
               PROVE  /\ context = None /\ latest.state # "running"
                      /\ \A r \in Requests : stage[r] # "waiting"
    BY DEF RestIsRest
  <2> USE DEF IInv, RInv
  <2>1. owning = {}
    BY DEF Owners, WorkerStages, AtRest, Quiet, TypeOK
  <2>2. pipe = <<>> /\ ~Live
    BY DEF AtRest, Live
  <2>3. context = None
    BY <2>1, <2>2 DEF Closed, Opens, Last
  <2>4. ~Busy
    BY <2>1, <2>3 DEF Busy, Owners
  <2> QED BY <2>3, <2>4 DEF Idle, Awaited
<1> QED BY Inductive, Foreseen, <1>1, PTL

\* A run of an agent is shown as the turn that runs, and so can be stopped, unless
\* it began while another request was in flight.
THEOREM Shows == Spec => []RunsAreVisible
<1>1. RInv => RunsAreVisible
  <2> SUFFICES ASSUME RInv, pipe = <<>>, Live, ~overlap
               PROVE  context # None /\ latest = [id |-> context, state |-> "running"]
    BY DEF RunsAreVisible, Live
  <2> QED BY DEF RInv, Shown, Tells, Visible
<1> QED BY Foreseen, <1>1, PTL

=============================================================================
