--------------------------- MODULE CancellationTree ---------------------------
(***************************************************************************)
(* The cancellation tree of a fleet (src/agents/runtime/                   *)
(* cancellation-tree.mjs) as operators on one value.  A tree is a function *)
(* from ids to nodes; n tells apart the node objects one id has had (an    *)
(* AbortController is one-shot, so an id that is used again gets a new     *)
(* object), and 0 says that the id has no node.  Objects <<id, n>> are     *)
(* what a signal is captured from and what is aborted, once and for all.   *)
(***************************************************************************)
EXTENDS Naturals, FiniteSets

CONSTANT NoId      \* the null parent

Absent == [n |-> 0, up |-> NoId]

Has(t, id)    == t[id].n # 0
Object(t, id) == <<id, t[id].n>>
Children(t, id) == {c \in DOMAIN t : Has(t, c) /\ t[c].up = id}

\* What cancel() walks: the node and everything below it, as the least set
\* that has the node and the children of all its members.
Closed(t, S) == \A c \in S : Children(t, c) \subseteq S

Subtree(t, id) ==
  {c \in DOMAIN t : /\ Has(t, c)
                    /\ \A S \in SUBSET DOMAIN t : id \in S /\ Closed(t, S) => c \in S}

Objects(t, ids) == {Object(t, id) : id \in ids}

Create(t, id, n, up) == [t EXCEPT ![id] = [n |-> n, up |-> up]]

\* remove() hands the children to the parent of the removed node.
Remove(t, id) ==
  IF ~Has(t, id) THEN t
  ELSE [c \in DOMAIN t |->
          IF c = id THEN Absent
          ELSE IF c \in Children(t, id) THEN [t[c] EXCEPT !.up = t[id].up]
          ELSE t[c]]
=============================================================================
