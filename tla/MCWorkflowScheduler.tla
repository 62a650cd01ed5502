------------------------- MODULE MCWorkflowScheduler -------------------------
(* Model-checking instance of WorkflowScheduler: a script of three calls, two *)
(* of them with one fingerprint.                                              *)
EXTENDS WorkflowScheduler

CONSTANTS first, second, again, review, search

MCKey == [c \in Calls |-> IF c = second THEN search ELSE review]
=============================================================================
