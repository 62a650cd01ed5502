---------------------------- MODULE MCOwnedSession ----------------------------
(* A prompt, the answer to a question and a peer's message: each may own the  *)
(* turn the others wait for, or run beside it.                                *)
EXTENDS OwnedSession

CONSTANTS prompt, answer, mail
=============================================================================
