----------------------------- MODULE MCAgentFleet -----------------------------
(* Model-checking instances of AgentFleet: a parent with a child, as readers *)
(* or as writers of one scope, and two such writers without a parent.        *)
EXTENDS AgentFleet

CONSTANTS parent, child, other

MCParentOf  == [r \in Runs |-> IF r = child THEN parent ELSE NoId]
MCReaders   == [r \in Runs |-> IF r = child THEN "worktree" ELSE "read-only"]
MCWriters   == [r \in Runs |-> "shared"]
MCConflicts == Runs \X Runs
=============================================================================
