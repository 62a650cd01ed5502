------------------------- MODULE ExactlyOnceDelivery -------------------------
(***************************************************************************)
(* What a sender of a thread message is promised, without workers, pumps   *)
(* or files: the message enters the recipient's transcript at most once,   *)
(* and once its receipt says "delivered" it is in there for good.  A       *)
(* failed receipt promises nothing: the message may be in the transcript,  *)
(* or may enter it later.  Until a receipt is settled a crash may take the *)
(* message out of an unwritten transcript again; it is then delivered      *)
(* anew.                                                                   *)
(***************************************************************************)
EXTENDS Naturals

CONSTANT Messages

VARIABLES sent,       \* messages a sender ever handed over
          status,     \* what the receipt says; "absent" before and after its life
          entered     \* how often the message is in the recipient's transcript

vars == <<sent, status, entered>>

Settled == {m \in Messages : status[m] \in {"delivered", "failed"}}

Init ==
  /\ sent = {}
  /\ status = [m \in Messages |-> "absent"]
  /\ entered = [m \in Messages |-> 0]

Send(m) ==
  /\ status[m] = "absent"
  /\ sent' = sent \cup {m}
  /\ status' = [status EXCEPT ![m] = "queued"]
  /\ UNCHANGED entered

Enter(m) ==
  /\ m \in sent /\ entered[m] = 0
  /\ entered' = [entered EXCEPT ![m] = 1]
  /\ UNCHANGED <<sent, status>>

\* A receipt is settled; old settled ones may be forgotten with it.
Settle(m, outcome) ==
  /\ status[m] = "queued" /\ (outcome = "delivered" => entered[m] = 1)
  /\ \E gone \in SUBSET Settled :
       status' = [x \in Messages |-> IF x = m THEN outcome
                                     ELSE IF x \in gone THEN "absent" ELSE status[x]]
  /\ UNCHANGED <<sent, entered>>

\* A crash: messages not settled yet may leave the transcript.
Setback ==
  /\ \E gone \in SUBSET Settled :
       status' = [m \in Messages |-> IF m \in gone THEN "absent" ELSE status[m]]
  /\ \E lost \in SUBSET {m \in Messages : status[m] = "queued" /\ entered[m] = 1} :
       entered' = [m \in Messages |-> IF m \in lost THEN 0 ELSE entered[m]]
  /\ UNCHANGED sent

Next ==
  \/ \E m \in Messages : Send(m) \/ Enter(m)
  \/ \E m \in Messages, outcome \in {"delivered", "failed"} : Settle(m, outcome)
  \/ Setback

Spec == Init /\ [][Next]_vars

=============================================================================
