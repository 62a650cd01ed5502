--------------------------- MODULE MCThreadMailbox ---------------------------
(* Model-checking instance of ThreadMailbox: two peers and a supporting agent *)
(* write to a chat whose transcript has no file yet.                         *)
EXTENDS ThreadMailbox

CONSTANTS peer, second, helper, chat

MCTo == [m \in Messages |-> chat]
=============================================================================
