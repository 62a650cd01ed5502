-------------------- MODULE AgentFleetCancellation_proofs --------------------
(***************************************************************************)
(* Proofs that cancelled work never starts and that stop() stops, for      *)
(* every tree of runs: NoWorkUnderCancelledOwner and StopMeansStopped.     *)
(*                                                                         *)
(* Both assume CallersWait: retry() of a run only when no attempt, no      *)
(* follow-up and no stop() of it is under way, send() only when no attempt *)
(* and no follow-up of it is.  The controller does not enforce that.       *)
(* interruptAndSend() waits for its own stop and the execution, chatPrompt *)
(* looks at launching, active and followUps; the tools, the slash command  *)
(* and the agent manager look at nothing but the status.  Nothing is shown *)
(* here of callers who overlap two attempts of one run.                    *)
(*                                                                         *)
(* The tree changes in five ways (TreeSteps): nodes are aborted with all   *)
(* below them, removed with a hand-over of their children, made below a    *)
(* captured owner or as aborted orphans, replaced by a new root, or        *)
(* cleared.  An attempt that can still start work has the signal of its    *)
(* own node, which is in the tree (NodesOK).  That node is below those of  *)
(* its captured owners that are in the tree too (OwnersOK), because        *)
(* removing a node keeps what is below the others (RemoveKeepsSubtree);    *)
(* so an abort of an owner reaches it, and one that came before the node   *)
(* was made is taken over when it is made.                                 *)
(*                                                                         *)
(* What was below a run when its stop() was called may be handed over to   *)
(* somebody else before the stop() gets to it.  It is then the stop() of a *)
(* child that finishes it, and that one is waited for (BeforeOK, StopsOK). *)
(***************************************************************************)
EXTENDS AgentFleetAdmission_proofs

(* Attempts without a node so far, with one, and whose node is in the tree. *)
Unattached  == {"none", "catalog", "creating", "replacing"}
Attached(a) == phase[a] \notin Unattached
InTree(b)   == tree[b[1]].n = b[2]

-----------------------------------------------------------------------------
(* Trees                                                                    *)

(* What is below a node.                                                    *)
LEMMA SubtreeFacts ==
  ASSUME NEW t, NEW id
  PROVE  /\ \A c \in Subtree(t, id) : c \in DOMAIN t /\ Has(t, c)
         /\ id \in DOMAIN t /\ Has(t, id) => id \in Subtree(t, id)
         /\ \A c \in Subtree(t, id) : Children(t, c) \subseteq Subtree(t, id)
         /\ \A c \in Subtree(t, id) : Subtree(t, c) \subseteq Subtree(t, id)
<1>1. ASSUME NEW c \in Subtree(t, id), NEW d \in Children(t, c) PROVE d \in Subtree(t, id)
  <2>1. d \in DOMAIN t /\ Has(t, d)
    BY DEF Children
  <2>2. ASSUME NEW S \in SUBSET DOMAIN t, id \in S, Closed(t, S) PROVE d \in S
    BY <2>2 DEF Subtree, Closed
  <2> QED BY <2>1, <2>2 DEF Subtree
<1>2. ASSUME NEW c \in Subtree(t, id), NEW d \in Subtree(t, c) PROVE d \in Subtree(t, id)
  BY DEF Subtree
<1> QED BY <1>1, <1>2 DEF Subtree

(* remove(): what is below a node other than the removed one stays there.   *)
LEMMA RemoveKeepsSubtree ==
  ASSUME NEW t, TreeOK(t), NEW r \in Ids, NEW x \in Ids, x # r,
         NEW y \in Subtree(t, x), y # r
  PROVE  y \in Subtree(Remove(t, r), x)
<1> DEFINE u == Remove(t, r)
<1>d. DOMAIN t = Ids /\ DOMAIN u = Ids
  BY DEF TreeOK, Remove, Ids
<1>1. CASE ~Has(t, r)
  BY <1>1 DEF Remove
<1>2. CASE Has(t, r)
  <2>u. \A c \in Ids : u[c] = IF c = r THEN Absent
                              ELSE IF c \in Children(t, r) THEN [t[c] EXCEPT !.up = t[r].up]
                              ELSE t[c]
    BY <1>2, <1>d DEF Remove
  <2>n. \A c \in Ids : t[c] \in [n : 0..MaxAttempts, up : Ids \cup {NoId}]
    BY DEF TreeOK, Ids
  <2>1. \A c \in Ids \ {r} : u[c].n = t[c].n
                             /\ u[c].up = IF t[c].up = r /\ Has(t, c) THEN t[r].up ELSE t[c].up
    BY <2>u, <2>n, <1>d DEF Children
  <2> HIDE DEF u
  <2>2. y \in Ids /\ Has(u, y)
    BY <1>d, <2>1, SubtreeFacts DEF Has
  <2>3. ASSUME NEW S \in SUBSET Ids, x \in S, Closed(u, S) PROVE y \in S
    <3> DEFINE W == (S \ {r}) \cup {c \in {r} : t[r].up \in S \ {r}}
    <3>1. W \in SUBSET DOMAIN t /\ x \in W
      BY <2>3, <1>d
    <3>2. ASSUME NEW c \in W, NEW d \in Children(t, c), d # r PROVE d \in S
      <4>0. d \in Ids /\ Has(t, d) /\ t[d].up = c /\ Has(u, d)
        BY <3>2, <1>d, <2>1 DEF Children, Has
      <4>1. CASE c # r
        <5>1. c \in S /\ d \in Children(u, c)
          BY <4>0, <4>1, <3>2, <2>1, <1>d DEF Children
        <5> QED BY <5>1, <2>3 DEF Closed
      <4>2. CASE c = r
        <5>1. t[r].up \in S /\ d \in Children(u, t[r].up)
          BY <4>0, <4>2, <3>2, <2>1, <1>d DEF Children
        <5> QED BY <5>1, <2>3 DEF Closed
      <4> QED BY <4>1, <4>2
    <3>3. ASSUME NEW c \in W, r \in Children(t, c), c # r PROVE r \in W
      BY <3>3 DEF Children
    <3>4. Closed(t, W)
      BY <3>2, <3>3 DEF Closed
    <3>5. y \in W
      BY <3>1, <3>4 DEF Subtree
    <3> QED BY <3>5
  <2> QED BY <1>d, <2>2, <2>3 DEF Subtree, u
<1> QED BY <1>1, <1>2

(* create(): what is below a node stays there, and the new node is below    *)
(* all that its parent is below of.                                         *)
LEMMA CreateKeepsSubtree ==
  ASSUME NEW t, TreeOK(t), NEW r \in Ids, NEW n \in Nat \ {0}, NEW up, NEW x \in Ids,
         \A c \in Ids : r \notin Children(t, c)
  PROVE  /\ Subtree(t, x) \subseteq Subtree(Create(t, r, n, up), x)
         /\ up \in Subtree(t, x) => r \in Subtree(Create(t, r, n, up), x)
<1> DEFINE u == Create(t, r, n, up)
<1>d. DOMAIN t = Ids /\ DOMAIN u = Ids
  BY DEF TreeOK, Create, Ids
<1>1. u[r].n = n /\ u[r].up = up /\ \A c \in Ids \ {r} : u[c] = t[c]
  BY <1>d DEF Create
<1> HIDE DEF u
<1>2. Subtree(t, x) \subseteq Subtree(u, x)
  <2> SUFFICES ASSUME NEW y \in Subtree(t, x) PROVE y \in Subtree(u, x)
    OBVIOUS
  <2>1. y \in Ids /\ Has(u, y)
    BY <1>d, <1>1, SubtreeFacts DEF Has
  <2>2. ASSUME NEW S \in SUBSET Ids, x \in S, Closed(u, S) PROVE y \in S
    <3>1. \A c \in Ids : Children(t, c) \subseteq Children(u, c)
      BY <1>d, <1>1 DEF Children, Has
    <3>2. Closed(t, S)
      BY <2>2, <3>1 DEF Closed
    <3> QED BY <2>2, <3>2, <1>d DEF Subtree
  <2> QED BY <1>d, <2>1, <2>2 DEF Subtree
<1>3. up \in Subtree(t, x) => r \in Subtree(u, x)
  <2>1. r \in Children(u, up)
    BY <1>d, <1>1 DEF Children, Has
  <2> QED BY <1>2, <2>1, SubtreeFacts
<1> QED BY <1>2, <1>3 DEF u

-----------------------------------------------------------------------------
(* Owners                                                                   *)

(* OwnersOf() unfolds by one owner.                                         *)
LEMMA OwnersFacts ==
  ASSUME owner \in [Attempts -> NodeObjects], NEW a \in NodeObjects
  PROVE  /\ OwnersOf(a) \subseteq NodeObjects /\ a \in OwnersOf(a)
         /\ \A c \in OwnersOf(a) \cap Attempts : owner[c] \in OwnersOf(a)
         /\ a \notin Attempts => OwnersOf(a) = {a}
         /\ a \in Attempts => OwnersOf(a) \subseteq {a} \cup OwnersOf(owner[a])
<1>1. OwnersOf(a) \subseteq NodeObjects /\ a \in OwnersOf(a)
  BY DEF OwnersOf
<1>2. ASSUME NEW b \in NodeObjects PROVE
        \A c \in OwnersOf(b) \cap Attempts : owner[c] \in OwnersOf(b)
  <2> TAKE c \in OwnersOf(b) \cap Attempts
  <2>1. owner[c] \in NodeObjects
    OBVIOUS
  <2> QED BY <2>1 DEF OwnersOf
<1>3. ASSUME a \notin Attempts PROVE OwnersOf(a) = {a}
  <2>1. {a} \in SUBSET NodeObjects /\ \A c \in {a} \cap Attempts : owner[c] \in {a}
    BY <1>3
  <2>2. \A b \in OwnersOf(a) : b \in {a}
    BY <2>1 DEF OwnersOf
  <2> QED BY <2>2, <1>1
<1>4. ASSUME a \in Attempts PROVE OwnersOf(a) \subseteq {a} \cup OwnersOf(owner[a])
  <2> DEFINE S == {a} \cup OwnersOf(owner[a])
  <2>1. owner[a] \in NodeObjects
    BY <1>4
  <2>2. S \in SUBSET NodeObjects /\ a \in S
    BY DEF OwnersOf
  <2>3. \A c \in S \cap Attempts : owner[c] \in S
    <3>1. owner[a] \in OwnersOf(owner[a])
      BY <2>1 DEF OwnersOf
    <3> QED BY <3>1, <2>1, <1>2
  <2> HIDE DEF S
  <2>4. \A b \in OwnersOf(a) : b \in S
    BY <2>2, <2>3 DEF OwnersOf
  <2> QED BY <2>4 DEF S
<1> QED BY <1>1, <1>2, <1>3, <1>4

-----------------------------------------------------------------------------
(* What the steps do to the tree                                            *)

Aborts ==
  \/ aborted' = aborted
  \/ \E id \in Ids : aborted' = aborted \cup Objects(tree, Subtree(tree, id))

Adopts(a) ==
  LET t == Remove(tree, a[1])
      o == owner[a]
      adopted == Has(t, o[1]) /\ Object(t, o[1]) = o
  IN  /\ tree' = Create(t, a[1], a[2], IF adopted THEN o[1] ELSE NoId)
      /\ aborted' = IF adopted /\ o \notin aborted THEN aborted ELSE aborted \cup {a}
      /\ linked' = LinkedWithout(a[1])

Stays    == UNCHANGED <<tree, root>> /\ Aborts
Removes  == UNCHANGED <<root, aborted>> /\ \E id \in Ids : tree' = Remove(tree, id)
Attaching(a) == UNCHANGED root /\ phase[a] \in {"creating", "replacing"} /\ Adopts(a)
NewRoot  == /\ Aborts /\ root' = root + 1 /\ root' \in 0..MaxCancels
            /\ tree' = Create(tree, RootId(root + 1), 1, NoId)
Clears   == tree' = [id \in Ids |-> Absent] /\ aborted \subseteq aborted' /\ UNCHANGED root

TreeStep ==
  /\ owner' = owner
  /\ Stays \/ Removes \/ NewRoot \/ Clears \/ \E a \in Attempts : Attaching(a)

(* Every step but a spawn that begins is one of these, and keeps the owners.*)
LEMMA TreeSteps ==
  ASSUME Shape, Next
  PROVE  \/ \E r \in Runs, k \in 1..MaxAttempts : Spawns(r, k) /\ BeginSpawn(r, k)
         \/ TreeStep
<1> USE DEF attempts, ownership, TreeStep, Stays, Aborts
<1>i. /\ \A a \in Attempts : a[1] \in Ids
      /\ \A s \in StopIds : s.run \in Ids
      /\ \A g \in 0..MaxCancels : RootId(g) \in Ids
      /\ root \in 0..MaxCancels /\ cancelling.root \in 0..MaxCancels /\ DOMAIN tree = Ids
  BY IdFacts, AttemptFacts, ActorFacts DEF Ids, Shape, TypeOK
<1>1. ASSUME NEW r \in Runs, Spawn(r) \/ Retry(r)
      PROVE  \E k \in 1..MaxAttempts : Spawns(r, k) /\ BeginSpawn(r, k)
  BY <1>1, SpawnEffect
<1>2. ASSUME NEW a \in Attempts, Created(a) \/ Attach(a) PROVE TreeStep
  <2>1. CASE Created(a) /\ Has(tree, a[1])
    BY <2>1, <1>i DEF Created
  <2>2. CASE (Created(a) /\ ~Has(tree, a[1])) \/ Attach(a)
    <3>1. owner' = owner /\ Attaching(a)
      BY <2>2 DEF Created, Attach, AttachTo, Attaching, Adopts
    <3> QED BY <3>1
  <2> QED BY <1>2, <2>1, <2>2
<1>3. ASSUME NEW a \in Attempts, Unwound(a) PROVE TreeStep
  BY <1>3, <1>i DEF Unwound, Removes
<1>4. ASSUME NEW a \in Attempts,
             \/ CatalogReady(a) \/ Started(a) \/ Isolated(a) \/ IsolationFails(a) \/ Announced(a)
             \/ Opened(a) \/ OpenFails(a) \/ Linked(a) \/ WorkDone(a) \/ WorkFails(a)
             \/ Reported(a) \/ Heartbeat(a)
      PROVE TreeStep
  BY <1>4 DEF CatalogReady, Started, Isolated, IsolationFails, Announced, Opened, OpenFails,
              Linked, WorkDone, WorkFails, Reported, Heartbeat
<1>5. ASSUME NEW r \in Runs, FollowUpStep(r) \/ Send(r) PROVE TreeStep
  BY <1>5, FollowUpEffect DEF FollowUpMoves, FollowUpEnds
<1>6. ASSUME NEW s \in StopIds, StopStep(s) PROVE TreeStep
  <2>1. CASE StopCancels(s)
    BY <2>1, <1>i DEF StopCancels
  <2>2. CASE StopCleansUp(s) \/ StopReported(s)
    BY <2>2, <1>i DEF StopCleansUp, StopReported, StopReturns, Removes
  <2> QED BY <1>6, <2>1, <2>2 DEF StopStep
<1>7. CASE CancelStep
  <2>1. CASE CancelAllStops
    BY <2>1 DEF CancelAllStops
  <2>2. CASE CancelAllReturns
    BY <2>2, <1>i DEF CancelAllReturns, Removes
  <2>3. CASE Disposed
    BY <2>3, <1>i DEF Disposed, Clears
  <2> QED BY <1>7, <2>1, <2>2, <2>3 DEF CancelStep
<1>8. CASE CancelAll \/ Dispose
  <2>1. root < MaxCancels => root + 1 \in 0..MaxCancels
    BY <1>i, FleetAssumption
  <2> QED BY <1>8, <1>i, <2>1 DEF CancelAll, Dispose, BeginCancelAll, NewRoot
<1>9. CASE Reduce
  BY <1>9 DEF Reduce
<1>10. ASSUME NEW r \in Runs, Wait(r) \/ Stop(r) PROVE TreeStep
  BY <1>10 DEF Wait, Stop
<1> QED BY <1>1, <1>2, <1>3, <1>4, <1>5, <1>6, <1>7, <1>8, <1>9, <1>10
        DEF Next, Progress, AttemptStep

(* An attempt that was attached stays so, and what is alive was so before,  *)
(* but for an attempt that is spawned.                                      *)
LEMMA Forward ==
  ASSUME Shape, AdmissionOK, Next
  PROVE  /\ \A a \in Attempts : Attached(a) => Attached(a)'
         /\ \/ \E r \in Runs, k \in 1..MaxAttempts : Spawns(r, k)
            \/ \A a \in Attempts : (Live(a)' => Live(a)) /\ (phase[a] # "none" <=> phase'[a] # "none")
<1> DEFINE Ahead == \A a \in Attempts :
             /\ Attached(a) => Attached(a)'
             /\ Live(a)' => Live(a)
             /\ phase[a] # "none" <=> phase'[a] # "none"
<1>0. USE DEF Attached, Unattached, Live
<1>1. ASSUME NEW r \in Runs, NEW k \in 1..MaxAttempts, Spawns(r, k)
      PROVE  \A a \in Attempts : Attached(a) => Attached(a)'
  <2>1. <<r, k>> \in Attempts /\ phase[<<r, k>>] = "none"
    <3>1. k \notin Begun(r)
      BY <1>1 DEF Spawns
    <3> QED BY <3>1, AttemptFacts DEF Begun
  <2> QED BY <1>1, <2>1, KeptTypes DEF Spawns
<1>2. ASSUME NEW a \in Attempts, AttemptMoves(a) PROVE Ahead
  BY <1>2, KeptTypes DEF AttemptMoves, Moves
<1>3. ASSUME NEW a \in Attempts, Replaces(a) PROVE Ahead
  BY <1>3, KeptTypes DEF Replaces
<1>4. ASSUME NEW a \in Attempts, Attaches(a) PROVE Ahead
  <2>1. Launches(launching, [phase EXCEPT ![a] = "queued"])
    BY <1>4, AttachLaunch
  <2> QED BY <1>4, <2>1, KeptTypes DEF Attaches, Launches
<1>5. ASSUME NEW a \in Attempts, Unwinds(a) PROVE Ahead
  <2>1. Launches(launching \ {a[1]}, [phase EXCEPT ![a] = "done"])
    BY <1>5, UnwindLaunch
  <2> QED BY <1>5, <2>1, KeptTypes DEF Unwinds, Launches
<1>6. ASSUME NEW r \in Runs, FollowUpMoves(r) \/ FollowUpEnds(r) PROVE Ahead
  BY <1>6, FollowUpLaunch DEF FollowUpMoves, Launches
<1>7. ASSUME NEW s \in StopIds, StopCancels(s) PROVE Ahead
  <2>1. \A m \in 1..Len(queue) : queue[m] \in Attempts /\ phase[queue[m]] = "queued"
    BY KeptTypes DEF AdmissionOK, QueueOK
  <2> QED BY <1>7, <2>1, StopCancelsEffect, KeptTypes
<1>8. CASE RestStep
  BY <1>8, RestEffect DEF Rests
<1> QED BY <1>1, <1>2, <1>3, <1>4, <1>5, <1>6, <1>7, <1>8, StepKinds

-----------------------------------------------------------------------------
(* Nodes and signals                                                        *)

(* A node of a run is that of its latest attached attempt; who is opening,  *)
(* linking or working has captured the signal of its own node, which is     *)
(* still there, and can be aborted through it.                              *)
NodesOK ==
  /\ \A r \in Runs : tree[r].n # 0 => Attached(<<r, tree[r].n>>)
  /\ \A a \in Attempts : Attached(a) /\ phase[a] # "done" => tree[a[1]].n \in {0, a[2]}
  /\ \A a \in Attempts : phase[a] = "opening" => signal[a] = tree[a[1]].n
  /\ \A a \in Attempts : phase[a] \in {"linking", "working"} =>
       signal[a] = a[2] /\ InTree(a) /\ a \in linked

(* A stop() that took an item out of the queue left its run with no attempt *)
(* that goes on, and callers wait for it before they retry the run.         *)
WaitsOK ==
  \A s \in StopIds : stop[s].wasQueued =>
    /\ stop[s].phase # "idle"
    /\ (\E a \in Attempts : a[1] = s.run /\ phase[a] # "none")
    /\ \A a \in Attempts : a[1] = s.run => ~Live(a)

Steady ==
  \A a \in Attempts : /\ phase'[a] \in AtWork => phase'[a] = phase[a]
                      /\ Attached(a)' /\ phase'[a] # "done" => Attached(a) /\ phase[a] # "done"

(* No attempt comes to be at work, or gets its node.                        *)
LEMMA SteadyPhases ==
  ASSUME Shape, AdmissionOK,
         \/ \E r \in Runs, k \in 1..MaxAttempts : Spawns(r, k)
         \/ \E a \in Attempts : \/ AttemptMoves(a) /\ phase'[a] \notin AtWork
                                \/ Replaces(a) \/ Unwinds(a)
         \/ \E r \in Runs : FollowUpMoves(r) \/ FollowUpEnds(r)
         \/ \E s \in StopIds : StopCancels(s)
         \/ Rests
  PROVE  Steady
<1>0. USE DEF Steady, AtWork, Attached, Unattached
<1>1. ASSUME NEW r \in Runs, NEW k \in 1..MaxAttempts, Spawns(r, k) PROVE Steady
  BY <1>1, KeptTypes DEF Spawns
<1>2. ASSUME NEW a \in Attempts, AttemptMoves(a), phase'[a] \notin AtWork PROVE Steady
  BY <1>2, KeptTypes DEF AttemptMoves, Moves
<1>3. ASSUME NEW a \in Attempts, Replaces(a) PROVE Steady
  BY <1>3, KeptTypes DEF Replaces
<1>4. ASSUME NEW a \in Attempts, Unwinds(a) PROVE Steady
  <2>1. Launches(launching \ {a[1]}, [phase EXCEPT ![a] = "done"])
    BY <1>4, UnwindLaunch
  <2> QED BY <1>4, <2>1, KeptTypes DEF Unwinds, Launches
<1>5. ASSUME NEW r \in Runs, FollowUpMoves(r) \/ FollowUpEnds(r) PROVE Steady
  BY <1>5, FollowUpLaunch DEF FollowUpMoves, Launches
<1>6. ASSUME NEW s \in StopIds, StopCancels(s) PROVE Steady
  <2>1. \A m \in 1..Len(queue) : queue[m] \in Attempts
    BY KeptTypes
  <2> QED BY <1>6, <2>1, StopCancelsEffect, KeptTypes
<1>7. CASE Rests
  BY <1>7 DEF Rests
<1> QED BY <1>1, <1>2, <1>3, <1>4, <1>5, <1>6, <1>7

(* Nodes may go where nobody is at work.                                    *)
LEMMA NodesKeep ==
  ASSUME Shape, NodesOK, Steady,
         \A a \in Attempts : Attached(a) => Attached(a)',
         \A r \in Runs : tree'[r].n \in {tree[r].n, 0},
         \A a \in Attempts : phase'[a] \in AtWork =>
           /\ signal'[a] = signal[a] /\ tree'[a[1]].n = tree[a[1]].n
           /\ a \in linked => a \in linked'
  PROVE  NodesOK'
<1>t. \A r \in Runs : tree[r].n \in 0..MaxAttempts
  BY DEF Shape, TypeOK
<1>1. ASSUME NEW r \in Runs, tree'[r].n # 0 PROVE phase'[<<r, tree'[r].n>>] \notin Unattached
  <2>1. tree'[r].n = tree[r].n /\ tree[r].n \in 1..MaxAttempts
    BY <1>1, <1>t, FleetAssumption
  <2> QED BY <2>1, <1>1, AttemptFacts DEF NodesOK, Attached
<1>2. ASSUME NEW a \in Attempts, Attached(a)', phase'[a] # "done"
      PROVE  tree'[a[1]].n \in {0, a[2]}
  BY <1>2, AttemptFacts DEF Steady, NodesOK
<1>3. ASSUME NEW a \in Attempts, phase'[a] \in AtWork
      PROVE  /\ phase'[a] = "opening" => signal'[a] = tree'[a[1]].n
             /\ phase'[a] \in {"linking", "working"} =>
                  signal'[a] = a[2] /\ InTree(a)' /\ a \in linked'
  BY <1>3 DEF Steady, NodesOK, InTree
<1> QED BY <1>1, <1>2, <1>3 DEF NodesOK, AtWork, Attached

(* Where a node may be removed.                                             *)
LEMMA NodesTrim ==
  ASSUME Shape, NodesOK, Steady, NEW r \in Runs,
         \A a \in Attempts : Attached(a) => Attached(a)',
         UNCHANGED <<tree, linked>> \/ (tree' = Remove(tree, r) /\ linked' = LinkedWithout(r)),
         \A a \in Attempts : phase'[a] \in AtWork => a[1] # r /\ signal'[a] = signal[a]
  PROVE  NodesOK'
<1>1. \A c \in Ids : c # r => Remove(tree, r)[c].n = tree[c].n
  <2>1. tree \in [Ids -> [n : 0..MaxAttempts, up : Ids \cup {NoId}]]
    BY DEF Shape, TypeOK, Ids
  <2> QED BY <2>1 DEF Remove
<1>2. Remove(tree, r)[r].n = 0
  <2>1. DOMAIN tree = Ids /\ r \in Ids
    BY IdFacts DEF Shape, TypeOK, Ids
  <2> QED BY <2>1 DEF Remove, Has, Absent
<1>3. \A o \in Runs : tree'[o].n \in {tree[o].n, 0}
  BY <1>1, <1>2, IdFacts
<1>4. \A a \in Attempts : phase'[a] \in AtWork =>
         tree'[a[1]].n = tree[a[1]].n /\ (a \in linked => a \in linked')
  BY <1>1, IdFacts, AttemptFacts DEF LinkedWithout
<1> QED BY <1>3, <1>4, NodesKeep

(* spawn() makes a node: nothing of the same run is at work.                *)
LEMMA NodesAttach ==
  ASSUME Shape, AdmissionOK, Solo, NodesOK, NEW a \in Attempts, Attaching(a), Attaches(a),
         UNCHANGED signal
  PROVE  NodesOK'
<1>f. a[1] \in Runs /\ a[1] \in Ids /\ a[2] # 0 /\ a = <<a[1], a[2]>>
      /\ \A b \in Attempts : b[1] \in Runs /\ b[1] \in Ids
  BY AttemptFacts, IdFacts
<1>t. tree \in [Ids -> [n : 0..MaxAttempts, up : Ids \cup {NoId}]]
  BY DEF Shape, TypeOK, Ids
<1>1. tree'[a[1]].n = a[2] /\ \A o \in Runs : o # a[1] => tree'[o].n = tree[o].n
  <2>1. \A c \in Ids : c # a[1] => Remove(tree, a[1])[c].n = tree[c].n
    BY <1>t DEF Remove
  <2>2. DOMAIN Remove(tree, a[1]) = Ids
    BY <1>t DEF Remove
  <2>3. \E up : tree' = Create(Remove(tree, a[1]), a[1], a[2], up)
    BY DEF Attaching, Adopts
  <2> QED BY <2>1, <2>2, <2>3, <1>f, IdFacts DEF Create
<1>2. Launches(launching, [phase EXCEPT ![a] = "queued"])
  BY AttachLaunch
<1>3. phase'[a] \in {"queued", "starting", "failing"}
  BY <1>2, KeptTypes DEF Launches
<1>4. \A b \in Attempts : b # a /\ b[1] = a[1] => phase'[b] \in {"none", "done"}
  <2> SUFFICES ASSUME NEW b \in Attempts, b # a, b[1] = a[1]
               PROVE  phase'[b] \in {"none", "done"}
    OBVIOUS
  <2>1. phase[b] \in {"none", "done"}
    BY DEF Solo, Live, Attaches
  <2> QED BY <2>1, <1>2, KeptTypes DEF Launches
<1>5. \A b \in Attempts : b[1] # a[1] =>
        \/ phase'[b] = phase[b]
        \/ phase[b] = "queued" /\ phase'[b] \in {"starting", "failing"}
  BY <1>2, KeptTypes DEF Launches
<1>6. \A b \in Attempts : b[1] # a[1] /\ b \in linked => b \in linked'
  BY DEF Attaching, Adopts, LinkedWithout
<1>7. ASSUME NEW r \in Runs, tree'[r].n # 0 PROVE phase'[<<r, tree'[r].n>>] \notin Unattached
  <2>1. CASE r = a[1]
    BY <2>1, <1>1, <1>3, <1>f DEF Unattached
  <2>2. CASE r # a[1]
    <3>1. tree'[r].n = tree[r].n /\ tree[r].n \in 1..MaxAttempts
      BY <1>1, <1>7, <2>2, <1>t, IdFacts, FleetAssumption
    <3>2. <<r, tree[r].n>> \in Attempts /\ Attached(<<r, tree[r].n>>)
      BY <3>1, AttemptFacts DEF NodesOK
    <3> QED BY <2>2, <3>1, <3>2, <1>5 DEF Attached, Unattached
  <2> QED BY <2>1, <2>2
<1>8. ASSUME NEW b \in Attempts, phase'[b] \notin Unattached, phase'[b] # "done"
      PROVE  tree'[b[1]].n \in {0, b[2]}
  <2>1. CASE b[1] = a[1]
    BY <2>1, <1>1, <1>4, <1>8 DEF Unattached
  <2>2. CASE b[1] # a[1]
    <3>1. Attached(b) /\ phase[b] # "done"
      BY <2>2, <1>5, <1>8 DEF Attached, Unattached
    <3> QED BY <2>2, <3>1, <1>1, <1>f DEF NodesOK
  <2> QED BY <2>1, <2>2
<1>9. ASSUME NEW b \in Attempts, phase'[b] \in AtWork
      PROVE  /\ phase'[b] = "opening" => signal'[b] = tree'[b[1]].n
             /\ phase'[b] \in {"linking", "working"} =>
                  signal'[b] = b[2] /\ InTree(b)' /\ b \in linked'
  <2>1. b[1] # a[1]
    BY <1>3, <1>4, <1>9 DEF AtWork
  <2>2. phase'[b] = phase[b]
    BY <2>1, <1>5, <1>9 DEF AtWork
  <2> QED BY <2>1, <2>2, <1>1, <1>6, <1>f DEF NodesOK, InTree
<1> QED BY <1>7, <1>8, <1>9 DEF NodesOK, AtWork, Attached

(* runner.run(): the signal is captured, the session opened, the work begun. *)
LEMMA NodesStart ==
  ASSUME Shape, NodesOK, NEW a \in Attempts, Announced(a) \/ Opened(a) \/ Linked(a)
  PROVE  NodesOK'
<1>f. a[1] \in Runs /\ a[2] # 0 /\ a = <<a[1], a[2]>>
  BY AttemptFacts
<1>t. phase \in [Attempts -> Phases] /\ signal \in [Attempts -> 0..MaxAttempts]
  BY DEF Shape, TypeOK
<1>1. UNCHANGED tree
  BY DEF Announced, Opened, Linked, ownership
<1>2. /\ phase' = [phase EXCEPT ![a] = phase'[a]] /\ Attached(a) /\ phase[a] # "done"
      /\ phase'[a] \notin Unattached /\ phase'[a] # "done"
  BY <1>t DEF Announced, Opened, Linked, MoveTo, Fail, Attached, Unattached
<1>3. \A b \in Attempts : b # a => phase'[b] = phase[b] /\ signal'[b] = signal[b]
  BY <1>t, <1>2 DEF Announced, Opened, Linked
<1>4. linked \subseteq linked'
  BY DEF Announced, Opened, Linked, ownership
<1>5. \A b \in Attempts : (Attached(b) <=> Attached(b)') /\ (phase[b] = "done" <=> phase'[b] = "done")
  BY <1>2, <1>3 DEF Attached
<1>6. /\ phase'[a] = "opening" => signal'[a] = tree'[a[1]].n
      /\ phase'[a] \in {"linking", "working"} =>
           signal'[a] = a[2] /\ InTree(a)' /\ a \in linked'
  <2>1. CASE Announced(a)
    BY <2>1, <1>1, <1>t DEF Announced, MoveTo, Fail
  <2>2. CASE Opened(a)
    <3>1. phase'[a] = "linking" => tree[a[1]].n # 0 /\ a \in linked'
      BY <2>2, <1>t DEF Opened, MoveTo, Fail, Has
    <3>2. phase'[a] \in {"linking", "failing"} /\ signal'[a] = signal[a]
      BY <2>2, <1>t DEF Opened, MoveTo, Fail
    <3>3. signal[a] = tree[a[1]].n /\ tree[a[1]].n \in {0, a[2]}
      BY <2>2, <1>2 DEF Opened, NodesOK
    <3> QED BY <3>1, <3>2, <3>3, <1>1 DEF InTree
  <2>3. CASE Linked(a)
    <3>1. phase'[a] \in {"working", "failing"} /\ signal'[a] = signal[a] /\ phase[a] = "linking"
      BY <2>3, <1>t DEF Linked, MoveTo, Fail
    <3> QED BY <3>1, <1>1, <1>4 DEF NodesOK, InTree
  <2> QED BY <2>1, <2>2, <2>3
<1>7. \A r \in Runs : tree[r].n # 0 => <<r, tree[r].n>> \in Attempts
  <2>1. \A r \in Runs : tree[r].n \in 0..MaxAttempts
    BY DEF Shape, TypeOK
  <2> QED BY <2>1, AttemptFacts, FleetAssumption
<1>8. \A r \in Runs : tree'[r].n # 0 => phase'[<<r, tree'[r].n>>] \notin Unattached
  BY <1>1, <1>5, <1>7 DEF NodesOK, Attached
<1>9. \A b \in Attempts : Attached(b)' /\ phase'[b] # "done" => tree'[b[1]].n \in {0, b[2]}
  BY <1>1, <1>5 DEF NodesOK
<1>10. \A b \in Attempts : b # a =>
         /\ phase'[b] = "opening" => signal'[b] = tree'[b[1]].n
         /\ phase'[b] \in {"linking", "working"} =>
              signal'[b] = b[2] /\ InTree(b)' /\ b \in linked'
  BY <1>1, <1>3, <1>4 DEF NodesOK, InTree
<1> QED BY <1>6, <1>8, <1>9, <1>10 DEF NodesOK, Attached

(* The other steps of an attempt and the rest of the fleet.                 *)
LEMMA NodesUnchanged ==
  ASSUME Shape, AdmissionOK, NodesOK, Next, Steady,
         \A r \in Runs : tree'[r].n = tree[r].n, UNCHANGED <<linked, signal>>
  PROVE  NodesOK'
<1>1. \A a \in Attempts : Attached(a) => Attached(a)'
  BY Forward
<1>2. \A a \in Attempts : tree'[a[1]].n = tree[a[1]].n
  BY AttemptFacts
<1> QED BY <1>1, <1>2, NodesKeep

(* stop() removes a node only when nothing of the run holds a slot.         *)
LEMMA NodesStop ==
  ASSUME Shape, AdmissionOK, Counted, WaitsOK, NodesOK, Next,
         NEW s \in StopIds, StopCleansUp(s) \/ StopReported(s)
  PROVE  NodesOK'
<1> USE DEF attempts, ownership
<1>1. UNCHANGED <<phase, signal>>
  BY DEF StopCleansUp, StopReported
<1>2. Steady
  BY <1>1 DEF Steady, Attached
<1>3. CASE UNCHANGED <<tree, linked>>
  BY <1>1, <1>2, <1>3, NodesUnchanged
<1>4. ASSUME NEW waited, StopReturns(s, waited), ~UNCHANGED <<tree, linked>> PROVE NodesOK'
  <2>1. /\ tree' = Remove(tree, s.run) /\ linked' = LinkedWithout(s.run) /\ s.run \in Runs
        /\ \/ stop[s].wasQueued
           \/ s.run \notin launching \cup followUps \cup {r \in Runs : active[r] # 0}
    BY <1>4, ActorFacts DEF StopReturns
  <2>2. \A a \in Attempts : phase[a] \in AtWork => a[1] # s.run
    <3>1. \A a \in Attempts : phase[a] \in AtWork => phase[a] \in Executing /\ Live(a)
      BY DEF AtWork, Executing, Live
    <3>2. CASE stop[s].wasQueued
      BY <3>1, <3>2 DEF WaitsOK
    <3>3. CASE s.run \notin launching \cup followUps \cup {r \in Runs : active[r] # 0}
      BY <2>1, <3>1, <3>3, AttemptFacts DEF Counted
    <3> QED BY <2>1, <3>2, <3>3
  <2>3. \A a \in Attempts : Attached(a) => Attached(a)'
    BY <1>1 DEF Attached
  <2> QED BY <1>1, <1>2, <2>1, <2>2, <2>3, NodesTrim
<1> QED BY <1>3, <1>4 DEF StopCleansUp, StopReported

LEMMA NodesCancel ==
  ASSUME Shape, AdmissionOK, NodesOK, Next, CancelStep \/ CancelAll \/ Dispose
  PROVE  NodesOK'
<1>t. DOMAIN tree = Ids /\ root \in 0..MaxCancels /\ cancelling.root \in 0..MaxCancels
  BY DEF Shape, TypeOK, Ids
<1>1. UNCHANGED <<phase, signal>>
  BY DEF CancelStep, CancelAllStops, CancelAllReturns, Disposed, CancelAll, Dispose,
         BeginCancelAll, attempts
<1>2. Steady
  BY <1>1 DEF Steady, Attached
<1>3. CASE CancelAllStops \/ Dispose
  BY <1>1, <1>2, <1>3, NodesUnchanged DEF CancelAllStops, Dispose, BeginCancelAll, ownership
<1>4. CASE CancelAll
  <2>1. root + 1 \in 0..MaxCancels
    BY <1>4, <1>t, FleetAssumption DEF CancelAll
  <2>2. \A r \in Runs : r # RootId(root + 1) /\ r \in Ids
    BY <2>1, IdFacts
  <2>3. \A r \in Runs : tree'[r].n = tree[r].n
    BY <1>4, <1>t, <2>2 DEF CancelAll, Create
  <2> QED BY <1>1, <1>2, <1>4, <2>3, NodesUnchanged DEF CancelAll, BeginCancelAll
<1>5. CASE CancelAllReturns
  <2>1. \A r \in Runs : r # RootId(cancelling.root) /\ r \in Ids
    BY <1>t, IdFacts
  <2>2. tree \in [Ids -> [n : 0..MaxAttempts, up : Ids \cup {NoId}]]
    BY DEF Shape, TypeOK, Ids
  <2>3. \A r \in Runs : tree'[r].n = tree[r].n
    BY <1>5, <2>1, <2>2 DEF CancelAllReturns, Remove
  <2> QED BY <1>1, <1>2, <1>5, <2>3, NodesUnchanged DEF CancelAllReturns
<1>6. CASE Disposed
  <2>1. \A a \in Attempts : phase'[a] \notin AtWork
    BY <1>1, <1>6 DEF Disposed, AtWork, Executing
  <2>2. \A r \in Runs : tree'[r].n = 0
    BY <1>6, <1>t, IdFacts DEF Disposed, Absent
  <2>3. \A a \in Attempts : Attached(a) => Attached(a)'
    BY Forward
  <2> QED BY <1>2, <2>1, <2>2, <2>3, NodesKeep
<1> QED BY <1>3, <1>4, <1>5, <1>6 DEF CancelStep

LEMMA NodesStep ==
  ASSUME Shape, AdmissionOK, Solo, Counted, WaitsOK, NodesOK, Next
  PROVE  NodesOK'
<1> USE DEF attempts, ownership
<1>t. phase \in [Attempts -> Phases] /\ signal \in [Attempts -> 0..MaxAttempts]
  BY DEF Shape, TypeOK
<1>f. \A a \in Attempts : Attached(a) => Attached(a)'
  BY Forward
<1>1. ASSUME NEW r \in Runs, Spawn(r) \/ Retry(r) PROVE NodesOK'
  <2>1. PICK k \in 1..MaxAttempts : Spawns(r, k) /\ BeginSpawn(r, k)
    BY <1>1, SpawnEffect
  <2> QED BY <2>1, SteadyPhases, NodesUnchanged DEF BeginSpawn
<1>2. ASSUME NEW a \in Attempts,
             \/ CatalogReady(a) \/ Isolated(a) \/ IsolationFails(a) \/ OpenFails(a)
             \/ WorkDone(a) \/ WorkFails(a) \/ Reported(a)
      PROVE  NodesOK'
  <2>1. AttemptMoves(a)
    BY <1>2, AttemptEffect
  <2>2. phase'[a] \notin AtWork /\ UNCHANGED <<tree, linked, signal>>
    BY <1>2, <1>t DEF CatalogReady, Isolated, IsolationFails, OpenFails, WorkDone, WorkFails,
                      Reported, MoveTo, Fail, Announce, AtWork
  <2> QED BY <2>1, <2>2, SteadyPhases, NodesUnchanged
<1>3. ASSUME NEW a \in Attempts, Started(a) PROVE NodesOK'
  <2>1. AttemptMoves(a)
    BY <1>3, AttemptEffect
  <2>2. /\ phase'[a] \notin AtWork /\ UNCHANGED <<tree, linked>>
        /\ \A b \in Attempts : b # a => signal'[b] = signal[b]
    BY <1>3, <1>t DEF Started, MoveTo, Fail, Announce, AtWork
  <2> QED BY <1>f, <2>1, <2>2, SteadyPhases, NodesKeep
<1>4. ASSUME NEW a \in Attempts, Created(a) \/ Attach(a) PROVE NodesOK'
  <2>1. CASE Created(a) /\ Has(tree, a[1])
    <3>1. Replaces(a) /\ UNCHANGED <<tree, linked, signal>>
      <4>1. a[1] \in Runs /\ DisposeHost(a[1])
        BY <2>1, AttemptFacts DEF Created
      <4>2. PhasesStay /\ completedHosts' = [completedHosts EXCEPT ![a[1]] = 0]
        BY <4>1, DisposeHostType
      <4> QED BY <2>1, <4>2 DEF Created, Replaces, admission, guard, calls
    <3> QED BY <3>1, SteadyPhases, NodesUnchanged
  <2>2. CASE (Created(a) /\ ~Has(tree, a[1])) \/ Attach(a)
    <3>1. Attaching(a) /\ UNCHANGED signal
      BY <2>2 DEF Created, Attach, AttachTo, Attaching, Adopts
    <3>2. Attaches(a)
      <4>1. \E ap \in Seq(Events) : AttachTo(a, ap)
        BY <2>2, TailType DEF Created, Attach, Shape, TypeOK
      <4>2. CASE Created(a)
        <5>1. a[1] \in Runs /\ DisposeHost(a[1])
          BY <4>2, AttemptFacts DEF Created
        <5>2. PhasesStay /\ completedHosts' = [completedHosts EXCEPT ![a[1]] = 0]
          BY <5>1, DisposeHostType
        <5> QED BY <4>1, <4>2, <5>2, AttachEffect DEF Created, Attaches, guard, calls
      <4>3. CASE Attach(a)
        BY <4>1, <4>3, AttachEffect DEF Attach, Attaches, PhasesStay, guard, calls
      <4> QED BY <2>2, <4>2, <4>3
    <3> QED BY <3>1, <3>2, NodesAttach
  <2> QED BY <1>4, <2>1, <2>2
<1>5. ASSUME NEW a \in Attempts, Unwound(a) PROVE NodesOK'
  <2>1. Unwinds(a)
    BY <1>5, BoundaryEffect DEF Unwound, Replaces, Attaches
  <2>2. Steady
    BY <2>1, SteadyPhases
  <2>3. \A b \in Attempts : phase'[b] \in AtWork => b[1] # a[1]
    BY <2>1, <2>2 DEF Steady, Unwinds, Solo, Live, AtWork
  <2>4. /\ UNCHANGED <<tree, linked>>
             \/ (tree' = Remove(tree, a[1]) /\ linked' = LinkedWithout(a[1]))
        /\ \A b \in Attempts : b # a => signal'[b] = signal[b]
    BY <1>5, <1>t DEF Unwound
  <2> QED BY <1>f, <2>2, <2>3, <2>4, AttemptFacts, NodesTrim
<1>6. ASSUME NEW r \in Runs, FollowUpStep(r) \/ Send(r) PROVE NodesOK'
  <2>1. UNCHANGED <<tree, linked, signal>>
    BY <1>6 DEF FollowUpStep, Send, FollowUpAdmitted, FollowUpDropped, FollowUpLocked,
                FollowUpLockFails, FollowUpStarts, FollowUpDone, FollowUpFails,
                FollowUpReported, FollowUpFailed, FollowUpAbandoned, Release, Drain
  <2> QED BY <1>6, <2>1, FollowUpEffect, SteadyPhases, NodesUnchanged
<1>7. ASSUME NEW s \in StopIds, StopCancels(s) PROVE NodesOK'
  <2>1. UNCHANGED <<tree, linked, signal>>
    BY <1>7 DEF StopCancels
  <2> QED BY <1>7, <2>1, SteadyPhases, NodesUnchanged
<1>8. ASSUME Reduce \/ \E r \in Runs : Wait(r) \/ Stop(r) PROVE NodesOK'
  <2>1. UNCHANGED <<tree, linked, signal>>
    BY <1>8 DEF Reduce, Wait, Stop
  <2> QED BY <1>8, <2>1, RestEffect, SteadyPhases, NodesUnchanged DEF RestStep
<1>9. ASSUME NEW a \in Attempts, Heartbeat(a) PROVE NodesOK'
  <2>1. UNCHANGED <<tree, linked, signal>>
    BY <1>9 DEF Heartbeat
  <2> QED BY <1>9, <2>1, RestEffect, SteadyPhases, NodesUnchanged DEF RestStep
<1> QED BY <1>1, <1>2, <1>3, <1>4, <1>5, <1>6, <1>7, <1>8, <1>9, NodesStart, NodesStop,
           NodesCancel
        DEF Next, Progress, AttemptStep, StopStep

-----------------------------------------------------------------------------
(* Stops                                                                    *)

LEMMA StopTypes ==
  ASSUME Shape
  PROVE  /\ stop \in [StopIds -> StopRecords]
         /\ \A s \in StopIds : s.run \in Runs /\ stop[s].before \subseteq Attempts
BY ActorFacts DEF Shape, TypeOK, StopRecords

Returned(s) == stop[s].phase = "idle"
AllReturned == \A s \in StopIds : s.via = "all" => Returned(s)

(* stop() is called for one run, or by cancelAll() for all it has collected. *)
StopsBegin ==
  /\ UNCHANGED <<phase, tree, aborted>>
  /\ \/ \E r \in Runs : /\ BeginStops({r}, "user") /\ UNCHANGED cancelling
                         /\ Returned(StopId(r, r, "user"))
     \/ /\ BeginStops(cancelling.runs, "all")
        /\ cancelling.phase = "cleanup" /\ cancelling'.phase = "stops"

LEMMA StopSteps ==
  ASSUME Shape, Next
  PROVE  \/ /\ UNCHANGED stop
            /\ cancelling'.phase = "stops" => cancelling.phase = "stops"
            /\ cancelling.phase = "stops" /\ cancelling'.phase # "stops" => AllReturned
         \/ StopsBegin
         \/ UNCHANGED cancelling
              /\ \E s \in StopIds : StopCancels(s) \/ StopCleansUp(s) \/ StopReported(s)
<1> USE DEF calls
<1>c. cancelling = [phase |-> cancelling.phase, root |-> cancelling.root, runs |-> cancelling.runs]
  BY DEF Shape, TypeOK
<1>1. ASSUME NEW a \in Attempts, AttemptStep(a) \/ Heartbeat(a) PROVE UNCHANGED <<stop, cancelling>>
  BY <1>1 DEF AttemptStep, CatalogReady, Created, Attach, Started, Isolated, IsolationFails,
              Announced, Opened, OpenFails, Linked, WorkDone, WorkFails, Reported, Unwound,
              Heartbeat
<1>2. ASSUME NEW r \in Runs, FollowUpStep(r) \/ Send(r) \/ Wait(r)
      PROVE  UNCHANGED <<stop, cancelling>>
  BY <1>2 DEF FollowUpStep, Send, FollowUpAdmitted, FollowUpDropped, FollowUpLocked,
              FollowUpLockFails, FollowUpStarts, FollowUpDone, FollowUpFails,
              FollowUpReported, FollowUpFailed, FollowUpAbandoned, Wait
<1>3. ASSUME NEW r \in Runs, Spawn(r) \/ Retry(r) PROVE UNCHANGED <<stop, cancelling>>
  BY <1>3 DEF Spawn, Retry, BeginSpawn
<1>4. CASE Reduce
  BY <1>4 DEF Reduce
<1>5. CASE Disposed \/ CancelAll \/ Dispose
  BY <1>5, <1>c DEF Disposed, CancelAll, Dispose, BeginCancelAll
<1>6. CASE CancelAllReturns
  BY <1>6 DEF CancelAllReturns, AllReturned, Returned
<1>7. CASE CancelAllStops
  BY <1>7 DEF CancelAllStops, StopsBegin, attempts, ownership
<1>8. ASSUME NEW r \in Runs, Stop(r) PROVE StopsBegin
  BY <1>8 DEF Stop, StopsBegin, Returned, attempts, ownership
<1>9. ASSUME NEW s \in StopIds, StopStep(s)
      PROVE  UNCHANGED cancelling /\ (StopCancels(s) \/ StopCleansUp(s) \/ StopReported(s))
  BY <1>9 DEF StopStep, StopCancels, StopCleansUp, StopReported
<1> QED BY <1>1, <1>2, <1>3, <1>4, <1>5, <1>6, <1>7, <1>8, <1>9 DEF Next, Progress, CancelStep

LEMMA WaitsKeep ==
  ASSUME CallersWait, Shape, AdmissionOK, WaitsOK, Next, NEW s \in StopIds, stop[s].wasQueued
  PROVE  /\ (\E a \in Attempts : a[1] = s.run /\ phase'[a] # "none")
         /\ \A a \in Attempts : a[1] = s.run => ~Live(a)'
<1>1. /\ stop[s].phase # "idle" /\ s.run \in Runs
      /\ \E a \in Attempts : a[1] = s.run /\ phase[a] # "none"
      /\ \A a \in Attempts : a[1] = s.run => ~Live(a)
      /\ ~Unoccupied(s.run)
  BY StopTypes DEF WaitsOK, Unoccupied
<1>3. ASSUME NEW r \in Runs, NEW k \in 1..MaxAttempts, Spawns(r, k)
      PROVE  \A a \in Attempts : a[1] = s.run => phase'[a] = phase[a]
  <2>1. Begun(s.run) # {}
    BY <1>1, AttemptFacts DEF Begun
  <2>2. r # s.run
    <3>1. CASE k = 1
      BY <1>3, <2>1, <3>1 DEF Spawns
    <3>2. CASE k > 1
      BY <1>1, <1>3, <3>2 DEF Spawns
    <3> QED BY <3>1, <3>2
  <2> QED BY <1>3, <2>2, KeptTypes DEF Spawns
<1>4. /\ \E a \in Attempts : a[1] = s.run /\ phase'[a] # "none"
      /\ \A a \in Attempts : a[1] = s.run => ~Live(a)'
  BY <1>1, <1>3, Forward DEF Live
<1> QED BY <1>4

LEMMA WaitsStep ==
  ASSUME CallersWait, Shape, AdmissionOK, Solo, WaitsOK, Next
  PROVE  WaitsOK'
<1> DEFINE Rest(s) == /\ (\E a \in Attempts : a[1] = s.run /\ phase'[a] # "none")
                      /\ \A a \in Attempts : a[1] = s.run => ~Live(a)'
<1> SUFFICES ASSUME NEW s \in StopIds, stop'[s].wasQueued
             PROVE  stop'[s].phase # "idle" /\ Rest(s)
  BY DEF WaitsOK
<1>1. ASSUME stop[s].wasQueued, stop'[s].phase # "idle"
      PROVE  stop'[s].phase # "idle" /\ Rest(s)
  BY <1>1, WaitsKeep
<1>2. stop[s].wasQueued => stop[s].phase # "idle"
  BY DEF WaitsOK
<1>3. CASE stop'[s] = stop[s]
  BY <1>1, <1>2, <1>3
<1>4. ASSUME NEW runs, NEW via, BeginStops(runs, via) PROVE stop'[s] = stop[s]
  BY <1>4 DEF BeginStops
<1>b. CASE StopsBegin
  BY <1>3, <1>4, <1>b DEF StopsBegin
<1>5. ASSUME NEW o \in StopIds, StopCancels(o), stop'[s] # stop[s]
      PROVE  stop'[s].phase # "idle" /\ Rest(s)
  <2>0. \A x \in StopIds \ {o} : stop'[x] = stop[x]
    BY <1>5, StopTypes DEF StopCancels
  <2>a. s = o
    BY <2>0, <1>5
  <2>b. /\ stop'[o].phase = "cleanup"
        /\ stop'[o].wasQueued = ({i \in DOMAIN queue : queue[i][1] = o.run} # {})
    BY <1>5, StopTypes DEF StopCancels, StopRecords
  <2>1. /\ s = o /\ stop'[s].phase = "cleanup"
        /\ {i \in DOMAIN queue : queue[i][1] = s.run} # {}
    BY <2>a, <2>b
  <2>2. PICK m \in 1..Len(queue) :
           queue[m][1] = s.run /\ phase' = [phase EXCEPT ![queue[m]] = "done"]
    BY <1>5, <2>1, StopCancelsEffect, KeptTypes
  <2>3. queue[m] \in Attempts /\ phase[queue[m]] = "queued"
    BY KeptTypes DEF AdmissionOK, QueueOK
  <2>4. \A a \in Attempts : a[1] = s.run => a = queue[m] \/ ~Live(a)
    BY <2>2, <2>3 DEF Solo, Live
  <2>6. phase'[queue[m]] = "done" /\ \A a \in Attempts : a # queue[m] => phase'[a] = phase[a]
    BY <2>2, <2>3, KeptTypes
  <2> QED BY <2>1, <2>2, <2>3, <2>4, <2>6 DEF Live
<1>6. ASSUME NEW o \in StopIds, StopCleansUp(o) \/ StopReported(o), stop'[s] # stop[s]
      PROVE  stop[s].wasQueued /\ stop'[s].phase # "idle"
  BY <1>6, StopTypes DEF StopCleansUp, StopReported, StopReturns, StopIdle, StopRecords
<1> QED BY <1>1, <1>3, <1>b, <1>5, <1>6, StopSteps

(* Who is attached and not in the tree does not get there, and what is      *)
(* aborted stays so.                                                        *)
LEMMA OutStaysOut ==
  ASSUME Shape, Next, NEW a \in Attempts, Attached(a), InTree(a)'
  PROVE  InTree(a)
<1>f. a[1] \in Runs /\ a[1] \in Ids /\ a[2] # 0
  BY AttemptFacts, IdFacts
<1>t. tree \in [Ids -> [n : 0..MaxAttempts, up : Ids \cup {NoId}]]
  BY DEF Shape, TypeOK, Ids
<1>1. ASSUME NEW id \in Ids PROVE Remove(tree, id)[a[1]].n \in {tree[a[1]].n, 0}
  BY <1>f, <1>t DEF Remove, Absent
<1>2. CASE Removes
  BY <1>1, <1>2, <1>f DEF Removes, InTree
<1>3. CASE NewRoot
  <2>1. RootId(root + 1) # a[1]
    BY <1>3, <1>f, IdFacts DEF NewRoot
  <2> QED BY <1>3, <2>1, <1>f, <1>t DEF NewRoot, Create, InTree
<1>4. CASE Clears
  BY <1>4, <1>f DEF Clears, Absent, InTree
<1>5. ASSUME NEW b \in Attempts, Attaching(b) PROVE InTree(a)
  <2>1. a # b
    BY <1>5 DEF Attaching, Attached, Unattached
  <2>2. b[1] \in Ids /\ b[1] \in Runs
    BY AttemptFacts, IdFacts
  <2>3. tree'[a[1]].n = IF a[1] = b[1] THEN b[2] ELSE Remove(tree, b[1])[a[1]].n
    <3>1. DOMAIN Remove(tree, b[1]) = Ids
      BY <1>t DEF Remove
    <3>2. \E up : tree' = Create(Remove(tree, b[1]), b[1], b[2], up)
      BY <1>5 DEF Attaching, Adopts
    <3> QED BY <3>1, <3>2, <1>f DEF Create
  <2>4. a[1] # b[1]
    BY <2>1, <2>3, AttemptFacts DEF InTree
  <2> QED BY <2>2, <2>3, <2>4, <1>1, <1>f DEF InTree
<1>6. CASE tree' = tree
  BY <1>6 DEF InTree
<1> QED BY <1>2, <1>3, <1>4, <1>5, <1>6, TreeSteps DEF TreeStep, Stays, BeginSpawn, ownership

LEMMA AbortsStay ==
  ASSUME Shape, Next
  PROVE  aborted \subseteq aborted'
BY TreeSteps DEF TreeStep, Stays, Removes, NewRoot, Clears, Attaching, Adopts, Aborts,
                 BeginSpawn, ownership

(* Model work begins in the tree, and not under an abort.                   *)
LEMMA WorkBegins ==
  ASSUME Shape, AdmissionOK, NodesOK, Next, NEW a \in Attempts,
         phase[a] # "working", phase'[a] = "working"
  PROVE  InTree(a) /\ a \notin aborted
<1>1. ~Steady
  BY DEF Steady, AtWork
<1>2. PICK b \in Attempts : (AttemptMoves(b) /\ phase'[b] \in AtWork) \/ Attaches(b)
  BY <1>1, StepKinds, SteadyPhases, RestEffect
<1>3. phase[a] = "linking"
  <2>1. CASE AttemptMoves(b)
    <3>1. a = b
      BY <2>1, KeptTypes DEF AttemptMoves
    <3> QED BY <2>1, <3>1 DEF AttemptMoves, Moves
  <2>2. CASE Attaches(b)
    BY <2>2, AttachLaunch, KeptTypes DEF Launches
  <2> QED BY <1>2, <2>1, <2>2
<1>4. Linked(a)
  <2>1. ASSUME NEW c \in Attempts, AttemptStep(c) PROVE c = a /\ Linked(a)
    <3>1. AttemptMoves(c) \/ Replaces(c) \/ Attaches(c) \/ Unwinds(c)
      BY <2>1, AttemptEffect, BoundaryEffect DEF AttemptStep
    <3>2. CASE AttemptMoves(c)
      <4>1. a = c
        BY <3>2, KeptTypes DEF AttemptMoves
      <4>2. phase[c] = "linking" /\ phase'[c] = "working"
        BY <4>1, <1>3
      <4>3. Linked(c)
        BY <2>1, <4>2
             DEF AttemptStep, CatalogReady, Created, Attach, Started, Isolated, IsolationFails,
                 Announced, Opened, OpenFails, WorkDone, WorkFails, Reported, Unwound
      <4> QED BY <4>1, <4>3
    <3>3. CASE Replaces(c)
      BY <3>3, <1>3, KeptTypes DEF Replaces
    <3>4. CASE Attaches(c)
      BY ZenonT(60), <3>4, <1>3, AttachLaunch, KeptTypes DEF Launches
    <3>5. CASE Unwinds(c)
      <4>1. Launches(launching \ {c[1]}, [phase EXCEPT ![c] = "done"])
        BY <3>5, UnwindLaunch
      <4> QED BY <4>1, <1>3, KeptTypes DEF Launches
    <3> QED BY <3>1, <3>2, <3>3, <3>4, <3>5
  <2>2. ASSUME NEW r \in Runs, NEW k \in 1..MaxAttempts, Spawns(r, k) PROVE FALSE
    BY <2>2, <1>3, KeptTypes DEF Spawns
  <2>3. ASSUME NEW r \in Runs, FollowUpMoves(r) \/ FollowUpEnds(r) PROVE FALSE
    BY <2>3, <1>3, FollowUpLaunch DEF FollowUpMoves, Launches
  <2>4. ASSUME NEW s \in StopIds, StopCancels(s) PROVE FALSE
    <3>1. \A m \in 1..Len(queue) : queue[m] \in Attempts
      BY KeptTypes
    <3> QED BY <2>4, <3>1, <1>3, StopCancelsEffect, KeptTypes
  <2>5. ASSUME RestStep PROVE FALSE
    BY <2>5, <1>3, RestEffect DEF Rests
  <2> QED BY <2>1, <2>2, <2>3, <2>4, <2>5, SpawnEffect, FollowUpEffect
          DEF Next, Progress, StopStep, RestStep
<1>5. ~CapturedAborted(a)
  BY <1>4, <1>3, KeptTypes DEF Linked, Fail, MoveTo
<1>6. signal[a] = a[2] /\ InTree(a) /\ a = <<a[1], a[2]>>
  BY <1>3, AttemptFacts DEF NodesOK
<1> QED BY <1>5, <1>6 DEF CapturedAborted

(* Cancelled or gone, and not at work: for good.                            *)
Finished(a) == (a \in aborted \/ ~InTree(a)) /\ phase[a] # "working"

LEMMA FinishedStays ==
  ASSUME Shape, AdmissionOK, NodesOK, Next, NEW a \in Attempts, Attached(a), Finished(a)
  PROVE  Finished(a)'
<1>1. phase'[a] # "working"
  BY WorkBegins DEF Finished
<1>2. a \in aborted' \/ ~InTree(a)'
  BY OutStaysOut, AbortsStay DEF Finished
<1> QED BY <1>1, <1>2 DEF Finished, InTree

(* What was attached below the run when stop() was called is its own node,  *)
(* is finished, or is left to the stop() of a child which is waited for.    *)
(* The node is aborted or gone once it is cancelled, and everything is      *)
(* finished once the sessions were awaited.                                 *)
Left(s, a) ==
  \E c \in stop[s].kids : /\ ~Returned(StopId(c, s.from, s.via))
                          /\ a \in stop[StopId(c, s.from, s.via)].before

BeforeOK ==
  \A s \in StopIds : \A a \in stop[s].before :
    /\ Attached(a)
    /\ stop[s].phase = "children" => a[1] = s.run \/ Finished(a) \/ Left(s, a)
    /\ stop[s].phase = "cleanup" =>
         Finished(a) \/ (a[1] = s.run /\ (a \in aborted \/ ~InTree(a)))
    /\ stop[s].phase = "reporting" => Finished(a)

(* The stops below a call of stop() are those of the children its stops     *)
(* wait for, and those of cancelAll() are there only while it waits.        *)
Covers(S, r) ==
  \A c \in S : stop[StopId(c, r, "user")].phase = "children"
                 => stop[StopId(c, r, "user")].kids \subseteq S

StopsOK ==
  /\ cancelling.phase # "stops" => AllReturned
  /\ \A r \in Runs : \A S \in SUBSET Runs :
       r \in S /\ Covers(S, r) => \A c \in Runs \ S : Returned(StopId(c, r, "user"))

LEMMA StopNames ==
  /\ \A c, r \in Runs, via \in {"user", "all"} :
       /\ StopId(c, r, via) \in StopIds /\ StopId(c, r, via).run = c
       /\ StopId(c, r, via).from = r /\ StopId(c, r, via).via = via
  /\ \A s \in StopIds : /\ s = StopId(s.run, s.from, s.via) /\ s.run \in Runs
                        /\ s.from \in Runs /\ s.via \in {"user", "all"}
BY DEF StopId, StopIds

(* stop() is begun for a run only when all stops below its last call have   *)
(* returned.                                                                *)
LEMMA StopsBeginFresh ==
  ASSUME Shape, StopsOK, NEW runs, NEW via, BeginStops(runs, via),
         \/ AllReturned /\ via = "all"
         \/ \E r \in Runs : runs = {r} /\ via = "user" /\ Returned(StopId(r, r, "user"))
  PROVE  \A s \in StopIds : stop'[s] = stop[s] \/ (Returned(s) /\ s.via = via /\ s.from \in runs)
<1>1. ASSUME NEW s \in StopIds, ~(s.via = via /\ s.from \in runs) PROVE stop'[s] = stop[s]
  BY <1>1 DEF BeginStops
<1>2. CASE AllReturned /\ via = "all"
  BY <1>1, <1>2 DEF AllReturned
<1>3. ASSUME NEW r \in Runs, runs = {r}, via = "user", Returned(StopId(r, r, "user"))
      PROVE  \A s \in StopIds : stop'[s] = stop[s] \/ (Returned(s) /\ s.via = via /\ s.from \in runs)
  <2>1. {r} \in SUBSET Runs /\ Covers({r}, r)
    BY <1>3 DEF Covers, Returned
  <2>2. \A c \in Runs : Returned(StopId(c, r, "user"))
    BY <1>3, <2>1 DEF StopsOK
  <2>3. \A s \in StopIds : s.via = "user" /\ s.from = r => Returned(s)
    BY <2>2, StopNames
  <2> QED BY <1>1, <1>3, <2>3
<1> QED BY <1>2, <1>3

(* What is below a node is the node, or is below one of its children.       *)
LEMMA SubtreeParts ==
  ASSUME NEW t, NEW id \in DOMAIN t
  PROVE  /\ Children(t, id) \subseteq Subtree(t, id)
         /\ \A y \in Subtree(t, id) : y = id \/ \E c \in Children(t, id) : y \in Subtree(t, c)
<1>1. Children(t, id) \subseteq Subtree(t, id)
  BY DEF Subtree, Children, Closed
<1>2. ASSUME NEW y \in Subtree(t, id), y # id
      PROVE  \E c \in Children(t, id) : y \in Subtree(t, c)
  <2> DEFINE S == {id} \cup {x \in DOMAIN t : \E c \in Children(t, id) : x \in Subtree(t, c)}
  <2>1. S \in SUBSET DOMAIN t /\ id \in S
    OBVIOUS
  <2>2. ASSUME NEW x \in S PROVE Children(t, x) \subseteq S
    <3>1. CASE x = id
      <4>1. \A c \in Children(t, id) : c \in DOMAIN t /\ c \in Subtree(t, c)
        BY SubtreeFacts DEF Children
      <4> QED BY <3>1, <4>1
    <3>2. ASSUME NEW c \in Children(t, id), x \in Subtree(t, c) PROVE Children(t, x) \subseteq S
      <4>1. \A d \in Children(t, x) : d \in DOMAIN t /\ d \in Subtree(t, c)
        BY <3>2, SubtreeFacts DEF Children
      <4> QED BY <4>1
    <3> QED BY <3>1, <3>2
  <2>3. Closed(t, S)
    BY <2>2 DEF Closed
  <2> HIDE DEF S
  <2>4. y \in S
    BY <2>1, <2>3 DEF Subtree
  <2> QED BY <1>2, <2>4 DEF S
<1> QED BY <1>1, <1>2

(* What a call of stop() begins for a run and for what is below it.         *)
Below(r) == {a \in Attempts : \E id \in Subtree(tree, r) : a = Object(tree, id)}

LEMMA BeginsBelow ==
  ASSUME Shape, NEW runs, NEW via, BeginStops(runs, via), NEW s \in StopIds, stop'[s] # stop[s]
  PROVE  /\ stop'[s].phase = "children" /\ stop'[s].kids = Children(tree, s.run)
         /\ stop'[s].before = Below(s.run)
         /\ \A c \in stop'[s].kids : /\ stop'[StopId(c, s.from, s.via)].phase = "children"
                                     /\ stop'[StopId(c, s.from, s.via)].before = Below(c)
<1>0. ASSUME NEW o \in StopIds, o.via = via, o.from \in runs,
             o.run \in {o.from} \cup Subtree(tree, o.from)
      PROVE  /\ stop'[o].phase = "children" /\ stop'[o].kids = Children(tree, o.run)
             /\ stop'[o].before = Below(o.run)
  BY <1>0 DEF BeginStops, Below
<1>1. s.via = via /\ s.from \in runs /\ s.run \in {s.from} \cup Subtree(tree, s.from)
  BY DEF BeginStops
<1>2. s.run \in Runs /\ s.from \in Runs /\ via \in {"user", "all"} /\ DOMAIN tree = Ids
  BY <1>1, StopNames DEF Shape, TypeOK, Ids
<1>3. Children(tree, s.run) \subseteq Runs
  BY <1>2, ShapeTree, TreeType
<1>4. ASSUME NEW c \in Children(tree, s.run)
      PROVE  /\ stop'[StopId(c, s.from, s.via)].phase = "children"
             /\ stop'[StopId(c, s.from, s.via)].before = Below(c)
  <2>1. s.from \in DOMAIN tree
    BY <1>2, IdFacts
  <2>2. c \in Subtree(tree, s.from)
    BY <1>1, <2>1, SubtreeParts, SubtreeFacts
  <2>3. StopId(c, s.from, s.via) \in StopIds /\ StopId(c, s.from, s.via).run = c
        /\ StopId(c, s.from, s.via).from = s.from /\ StopId(c, s.from, s.via).via = via
    BY <1>1, <1>2, <1>3, StopNames
  <2> QED BY <1>0, <1>1, <2>2, <2>3
<1> QED BY <1>0, <1>1, <1>4

(* When stop() is done with what it waits for, all that was there is over.  *)
LEMMA StopEnds ==
  ASSUME Shape, NodesOK, BeforeOK, NEW s \in StopIds, StopCleansUp(s) \/ StopReported(s),
         NEW a \in stop[s].before
  PROVE  a \in Attempts /\ Attached(a) /\ Finished(a)
<1>1. a \in Attempts /\ Attached(a) /\ s.run \in Ids /\ s.run \in Runs
  BY StopTypes, IdFacts DEF BeforeOK
<1>2. CASE StopReported(s)
  BY <1>1, <1>2 DEF StopReported, BeforeOK
<1>3. CASE StopCleansUp(s)
  <2>1. Finished(a) \/ (a[1] = s.run /\ (a \in aborted \/ ~InTree(a)))
    BY <1>3 DEF StopCleansUp, BeforeOK
  <2>2. ASSUME a[1] = s.run, phase[a] = "working" PROVE FALSE
    <3>1. InTree(a) /\ a \in linked /\ DOMAIN tree = Ids /\ a[2] # 0
      BY <1>1, <2>2, AttemptFacts DEF NodesOK, Shape, TypeOK, Ids
    <3>2. s.run \in Subtree(tree, s.run)
      BY <1>1, <2>2, <3>1, SubtreeFacts DEF InTree, Has
    <3> QED BY <1>3, <2>2, <3>1, <3>2 DEF StopCleansUp, HostsIdle, Busy
  <2> QED BY <1>1, <2>1, <2>2 DEF Finished
<1> QED BY <1>2, <1>3

(* What a stop() still waits for stays so, or is finished.                  *)
LEMMA LeftKeeps ==
  ASSUME Shape, AdmissionOK, NodesOK, BeforeOK, StopsOK, Next,
         NEW s \in StopIds, stop'[s] = stop[s], NEW a \in Attempts, Left(s, a)
  PROVE  Left(s, a)' \/ Finished(a)'
<1>1. PICK c \in stop[s].kids : /\ ~Returned(StopId(c, s.from, s.via))
                                /\ a \in stop[StopId(c, s.from, s.via)].before
  BY DEF Left
<1> DEFINE k == StopId(c, s.from, s.via)
<1>2. k \in StopIds
  <2>1. c \in Runs
    BY <1>1, StopTypes DEF StopRecords
  <2> QED BY <2>1, StopNames
<1> HIDE DEF k
<1>3. ~Returned(k) /\ a \in stop[k].before
  BY <1>1 DEF k
<1>4. ASSUME stop'[k].phase # "idle", stop'[k].before = stop[k].before PROVE Left(s, a)'
  BY <1>1, <1>3, <1>4 DEF Left, Returned, k
<1>5. CASE stop'[k] = stop[k]
  BY <1>3, <1>4, <1>5 DEF Returned
<1>6. CASE StopsBegin
  <2>1. stop'[k] = stop[k] \/ Returned(k)
    <3>1. ASSUME NEW r \in Runs, BeginStops({r}, "user"), Returned(StopId(r, r, "user"))
          PROVE  stop'[k] = stop[k] \/ Returned(k)
      BY <3>1, <1>2, StopsBeginFresh
    <3>2. ASSUME BeginStops(cancelling.runs, "all"), cancelling.phase = "cleanup"
          PROVE  stop'[k] = stop[k] \/ Returned(k)
      <4>1. AllReturned
        BY <3>2 DEF StopsOK
      <4> QED BY <3>2, <4>1, <1>2, StopsBeginFresh
    <3> QED BY <1>6, <3>1, <3>2 DEF StopsBegin
  <2> QED BY <2>1, <1>3, <1>5
<1>7. ASSUME NEW o \in StopIds, StopCancels(o), stop'[k] # stop[k] PROVE Left(s, a)'
  <2>1. stop'[k].phase = "cleanup" /\ stop'[k].before = stop[k].before
    BY <1>2, <1>7, StopTypes DEF StopCancels, StopRecords
  <2> QED BY <2>1, <1>4
<1>8. ASSUME NEW o \in StopIds, StopCleansUp(o) \/ StopReported(o), stop'[k] # stop[k]
      PROVE  Finished(a)'
  <2>1. k = o
    BY <1>2, <1>8, StopTypes DEF StopCleansUp, StopReported, StopReturns
  <2>2. Attached(a) /\ Finished(a)
    BY <1>3, <1>8, <2>1, StopEnds
  <2> QED BY <2>2, FinishedStays
<1> QED BY <1>5, <1>6, <1>7, <1>8, StopSteps

LEMMA BeforeKeep ==
  ASSUME Shape, AdmissionOK, NodesOK, BeforeOK, StopsOK, Next,
         NEW s \in StopIds, stop'[s] = stop[s], NEW a \in stop[s].before
  PROVE  /\ Attached(a)'
         /\ stop[s].phase = "children" => a[1] = s.run \/ Finished(a)' \/ Left(s, a)'
         /\ stop[s].phase = "cleanup" =>
              Finished(a)' \/ (a[1] = s.run /\ (a \in aborted' \/ ~InTree(a)'))
         /\ stop[s].phase = "reporting" => Finished(a)'
<1>1. a \in Attempts /\ Attached(a) /\ Attached(a)'
  BY StopTypes, Forward DEF BeforeOK
<1>2. Finished(a) => Finished(a)'
  BY <1>1, FinishedStays
<1>3. Left(s, a) => Left(s, a)' \/ Finished(a)'
  BY <1>1, LeftKeeps
<1>4. a \in aborted \/ ~InTree(a) => a \in aborted' \/ ~InTree(a)'
  BY <1>1, OutStaysOut, AbortsStay
<1> QED BY <1>1, <1>2, <1>3, <1>4 DEF BeforeOK

LEMMA BeforeStep ==
  ASSUME Shape, AdmissionOK, NodesOK, BeforeOK, StopsOK, Next
  PROVE  BeforeOK'
<1> SUFFICES ASSUME NEW s \in StopIds, NEW a \in stop'[s].before
             PROVE  /\ Attached(a)'
                    /\ stop'[s].phase = "children" => a[1] = s.run \/ Finished(a)' \/ Left(s, a)'
                    /\ stop'[s].phase = "cleanup" =>
                         Finished(a)' \/ (a[1] = s.run /\ (a \in aborted' \/ ~InTree(a)'))
                    /\ stop'[s].phase = "reporting" => Finished(a)'
  BY DEF BeforeOK
<1> DEFINE Goal == /\ Attached(a)'
                   /\ stop'[s].phase = "children" => a[1] = s.run \/ Finished(a)' \/ Left(s, a)'
                   /\ stop'[s].phase = "cleanup" =>
                        Finished(a)' \/ (a[1] = s.run /\ (a \in aborted' \/ ~InTree(a)'))
                   /\ stop'[s].phase = "reporting" => Finished(a)'
<1>1. CASE stop'[s] = stop[s]
  BY <1>1, BeforeKeep
<1>2. ASSUME NEW runs, NEW via, BeginStops(runs, via), UNCHANGED <<phase, tree>>,
             stop'[s] # stop[s]
      PROVE  Goal
  <2>1. /\ stop'[s].phase = "children" /\ stop'[s].kids = Children(tree, s.run)
        /\ stop'[s].before = Below(s.run)
        /\ \A c \in stop'[s].kids : /\ stop'[StopId(c, s.from, s.via)].phase = "children"
                                    /\ stop'[StopId(c, s.from, s.via)].before = Below(c)
    BY <1>2, BeginsBelow
  <2>2. PICK id \in Subtree(tree, s.run) : a \in Attempts /\ a = Object(tree, id)
    BY <2>1 DEF Below
  <2>3. a[1] = id /\ InTree(a)
    BY <2>2 DEF Object, InTree
  <2>4. Attached(a)'
    BY <1>2, <2>2, <2>3, AttemptFacts DEF NodesOK, InTree, Attached
  <2>5. s.run \in DOMAIN tree
    BY StopTypes, IdFacts DEF Shape, TypeOK, Ids
  <2>6. ASSUME a[1] # s.run PROVE Left(s, a)'
    <3>1. PICK c \in Children(tree, s.run) : id \in Subtree(tree, c)
      BY <2>3, <2>5, <2>6, SubtreeParts
    <3>2. a \in stop'[StopId(c, s.from, s.via)].before
      BY <2>1, <2>2, <3>1 DEF Below
    <3> QED BY <2>1, <3>1, <3>2 DEF Left, Returned
  <2> QED BY <2>1, <2>4, <2>6
<1>b. CASE StopsBegin
  BY <1>1, <1>2, <1>b DEF StopsBegin
<1>3. ASSUME NEW o \in StopIds, StopCancels(o), stop'[s] # stop[s] PROVE Goal
  <2>1. stop'[s].phase = "cleanup" /\ stop'[s].before = stop[s].before /\ s = o
    BY <1>3, StopTypes DEF StopCancels, StopRecords
  <2>2. a \in Attempts /\ Attached(a) /\ s.run \in Ids /\ a[2] # 0 /\ a = <<a[1], a[2]>>
    BY <2>1, StopTypes, IdFacts, AttemptFacts DEF BeforeOK
  <2>3. tree' = tree /\ aborted' = aborted \cup Objects(tree, Subtree(tree, s.run))
    BY <1>3, <2>1 DEF StopCancels
  <2>4. ~Left(s, a)
    BY <1>3, <2>1 DEF StopCancels, Left, Returned
  <2>5. a[1] = s.run \/ Finished(a)
    BY <1>3, <2>1, <2>4 DEF StopCancels, BeforeOK
  <2>6. ASSUME a[1] = s.run, InTree(a) PROVE a \in aborted'
    <3>1. DOMAIN tree = Ids
      BY DEF Shape, TypeOK, Ids
    <3>2. s.run \in Subtree(tree, s.run) /\ Object(tree, s.run) = a
      BY <2>2, <2>6, <3>1, SubtreeFacts DEF InTree, Has, Object
    <3> QED BY <2>3, <3>2 DEF Objects
  <2>7. InTree(a)' <=> InTree(a)
    BY <2>3 DEF InTree
  <2>8. Attached(a)' /\ (Finished(a) => Finished(a)')
    BY <2>2, Forward, FinishedStays
  <2> QED BY <2>1, <2>5, <2>6, <2>7, <2>8
<1>4. ASSUME NEW o \in StopIds, StopCleansUp(o) \/ StopReported(o), stop'[s] # stop[s] PROVE Goal
  <2>1. s = o
    BY <1>4, StopTypes DEF StopCleansUp, StopReported, StopReturns
  <2>2. ~\E waited : StopReturns(s, waited)
    BY StopTypes DEF StopReturns, StopIdle
  <2>3. stop'[s].phase = "reporting" /\ a \in stop[s].before
    <3>1. ~StopReported(s)
      BY <2>2 DEF StopReported
    <3>2. stop' = [stop EXCEPT ![s].phase = "reporting"]
      BY <1>4, <2>1, <2>2, <3>1 DEF StopCleansUp
    <3> QED BY <3>2, StopTypes DEF StopRecords
  <2>4. a \in Attempts /\ Attached(a) /\ Finished(a)
    BY <1>4, <2>1, <2>3, StopEnds
  <2> QED BY <2>3, <2>4, Forward, FinishedStays
<1> QED BY <1>1, <1>b, <1>3, <1>4, StopSteps

LEMMA StopsStep ==
  ASSUME Shape, StopsOK, Next
  PROVE  StopsOK'
<1> DEFINE Reach == \A r \in Runs : \A S \in SUBSET Runs :
                      r \in S /\ Covers(S, r) => \A c \in Runs \ S : Returned(StopId(c, r, "user"))
<1>0. Reach
  BY DEF StopsOK
<1>1. CASE /\ UNCHANGED stop
           /\ cancelling'.phase = "stops" => cancelling.phase = "stops"
           /\ cancelling.phase = "stops" /\ cancelling'.phase # "stops" => AllReturned
  BY <1>1 DEF StopsOK, AllReturned, Returned, Covers
<1>2. ASSUME NEW r \in Runs, BeginStops({r}, "user"), UNCHANGED cancelling,
             Returned(StopId(r, r, "user"))
      PROVE  StopsOK'
  <2>1. \A s \in StopIds : stop'[s] = stop[s] \/ (Returned(s) /\ s.via = "user" /\ s.from = r)
    BY <1>2, StopsBeginFresh
  <2>2. cancelling'.phase # "stops" => AllReturned'
    BY <1>2, <2>1 DEF StopsOK, AllReturned, Returned
  <2>3. ASSUME NEW q \in Runs, NEW S \in SUBSET Runs, q \in S, Covers(S, q)',
               NEW c \in Runs \ S
        PROVE  Returned(StopId(c, q, "user"))'
    <3>1. CASE q # r
      <4>1. \A x \in Runs : stop'[StopId(x, q, "user")] = stop[StopId(x, q, "user")]
        BY <2>1, <3>1, StopNames
      <4>2. Covers(S, q)
        BY <2>3, <4>1 DEF Covers
      <4> QED BY <1>0, <2>3, <4>1, <4>2 DEF Returned
    <3>2. CASE q = r
      <4> DEFINE T == {x \in DOMAIN tree : x \in S /\ x \in {r} \cup Subtree(tree, r)}
      <4>1. r \in DOMAIN tree
        BY IdFacts DEF Shape, TypeOK, Ids
      <4>2. ASSUME NEW x \in T PROVE Children(tree, x) \subseteq T
        <5>0. x \in S /\ x \in Runs /\ x \in {r} \cup Subtree(tree, r)
          OBVIOUS
        <5>n. StopId(x, r, "user") \in StopIds /\ StopId(x, r, "user").run = x
              /\ StopId(x, r, "user").from = r /\ StopId(x, r, "user").via = "user"
          BY <5>0, StopNames
        <5>1. /\ stop'[StopId(x, r, "user")].phase = "children"
              /\ stop'[StopId(x, r, "user")].kids = Children(tree, x)
          BY <1>2, <5>0, <5>n DEF BeginStops
        <5>2. Children(tree, x) \subseteq S
          BY <2>3, <3>2, <5>0, <5>1 DEF Covers
        <5>3. Children(tree, x) \subseteq Subtree(tree, r)
          BY <4>1, SubtreeParts, SubtreeFacts
        <5> QED BY <5>2, <5>3 DEF Children
      <4>3. T \in SUBSET DOMAIN tree /\ r \in T
        BY <2>3, <3>2, <4>1
      <4>4. Closed(tree, T)
        BY <4>2 DEF Closed
      <4> HIDE DEF T
      <4>5. Subtree(tree, r) \subseteq T
        BY <4>3, <4>4 DEF Subtree
      <4>6. c \notin {r} \cup Subtree(tree, r)
        BY <2>3, <4>3, <4>5 DEF T
      <4>7. stop'[StopId(c, r, "user")] = stop[StopId(c, r, "user")]
        BY <1>2, <4>6, StopNames DEF BeginStops
      <4>8. {r} \in SUBSET Runs /\ Covers({r}, r)
        BY <1>2 DEF Covers, Returned
      <4>9. Returned(StopId(c, r, "user"))
        BY <1>0, <4>6, <4>8
      <4> QED BY <3>2, <4>7, <4>9 DEF Returned
    <3> QED BY <3>1, <3>2
  <2> QED BY <2>2, <2>3 DEF StopsOK
<1>3. ASSUME BeginStops(cancelling.runs, "all"), cancelling'.phase = "stops" PROVE StopsOK'
  <2>1. \A x, q \in Runs : stop'[StopId(x, q, "user")] = stop[StopId(x, q, "user")]
    BY <1>3, StopNames DEF BeginStops
  <2>2. ASSUME NEW q \in Runs, NEW S \in SUBSET Runs, q \in S, Covers(S, q)', NEW c \in Runs \ S
        PROVE  Returned(StopId(c, q, "user"))'
    <3>1. Covers(S, q)
      BY <2>1, <2>2 DEF Covers
    <3> QED BY <1>0, <2>1, <2>2, <3>1 DEF Returned
  <2> QED BY <1>3, <2>2 DEF StopsOK
<1>4. ASSUME NEW o \in StopIds, UNCHANGED cancelling,
             StopCancels(o) \/ StopCleansUp(o) \/ StopReported(o)
      PROVE  StopsOK'
  <2>t. stop \in [StopIds -> StopRecords] /\ stop[o].kids \subseteq Runs
    BY StopTypes DEF StopRecords
  <2>c. ASSUME StopCancels(o)
        PROVE  /\ stop[o].phase = "children" /\ stop'[o].phase = "cleanup"
               /\ \A c \in stop[o].kids : stop[StopId(c, o.from, o.via)].phase = "idle"
               /\ \A s \in StopIds \ {o} : stop'[s] = stop[s]
    <3>1. /\ stop[o].phase = "children"
          /\ \A c \in stop[o].kids : stop[StopId(c, o.from, o.via)].phase = "idle"
      BY <2>c DEF StopCancels
    <3>2. stop'[o].phase = "cleanup" /\ \A s \in StopIds \ {o} : stop'[s] = stop[s]
      BY <2>c, <2>t DEF StopCancels, StopRecords
    <3> QED BY <3>1, <3>2
  <2>r. ASSUME StopCleansUp(o) \/ StopReported(o)
        PROVE  /\ stop[o].phase \in {"cleanup", "reporting"}
               /\ stop'[o].phase \in {"reporting", "idle"}
               /\ \A s \in StopIds \ {o} : stop'[s] = stop[s]
    <3>1. stop[o].phase \in {"cleanup", "reporting"}
      BY <2>r DEF StopCleansUp, StopReported
    <3>2. \/ stop' = [stop EXCEPT ![o].phase = "reporting"]
          \/ stop' = [stop EXCEPT ![o] = StopIdle]
      BY <2>r DEF StopCleansUp, StopReported, StopReturns
    <3>3. stop'[o].phase \in {"reporting", "idle"} /\ \A s \in StopIds \ {o} : stop'[s] = stop[s]
      BY <3>2, <2>t DEF StopRecords, StopIdle
    <3> QED BY <3>1, <3>3
  <2>1. /\ \A s \in StopIds \ {o} : stop'[s] = stop[s]
        /\ stop[o].phase # "idle" /\ stop'[o].phase # "children"
        /\ stop[o].phase = "children" => \A c \in stop[o].kids : Returned(StopId(c, o.from, o.via))
        /\ stop[o].kids \subseteq Runs
    <3>1. CASE StopCancels(o)
      BY <2>c, <2>t, <3>1 DEF Returned
    <3>2. CASE StopCleansUp(o) \/ StopReported(o)
      BY <2>r, <2>t, <3>2
    <3> QED BY <1>4, <3>1, <3>2
  <2>2. \A s \in StopIds : Returned(s) => Returned(s)'
    BY <2>1 DEF Returned
  <2>3. cancelling'.phase # "stops" => AllReturned'
    BY <1>4, <2>2 DEF StopsOK, AllReturned
  <2>4. ASSUME NEW q \in Runs, NEW S \in SUBSET Runs, q \in S, Covers(S, q)', NEW c \in Runs \ S
        PROVE  Returned(StopId(c, q, "user"))'
    <3> DEFINE K == {x \in stop[o].kids : stop[o].phase = "children" /\ o = StopId(o.run, q, "user")}
    <3>1. \A x \in K : x \in Runs /\ Returned(StopId(x, q, "user"))
      BY <2>1, StopNames
    <3>2. ASSUME NEW x \in S \cup K, stop[StopId(x, q, "user")].phase = "children"
          PROVE  stop[StopId(x, q, "user")].kids \subseteq S \cup K
      <4>1. x \in S
        BY <3>1, <3>2 DEF Returned
      <4>2. StopId(x, q, "user") \in StopIds /\ StopId(x, q, "user").run = x
        BY <4>1, StopNames
      <4>3. CASE StopId(x, q, "user") = o
        BY <3>2, <4>2, <4>3
      <4>4. CASE StopId(x, q, "user") # o
        <5>1. stop'[StopId(x, q, "user")] = stop[StopId(x, q, "user")]
          BY <2>1, <4>2, <4>4
        <5> QED BY <2>4, <3>2, <4>1, <5>1 DEF Covers
      <4> QED BY <4>3, <4>4
    <3>3. S \cup K \in SUBSET Runs /\ q \in S \cup K /\ Covers(S \cup K, q)
      BY <2>4, <3>1, <3>2 DEF Covers
    <3> HIDE DEF K
    <3>4. Returned(StopId(c, q, "user"))
      <4>1. CASE c \in K
        BY <3>1, <4>1
      <4>2. CASE c \notin K
        BY <1>0, <3>3, <4>2
      <4> QED BY <4>1, <4>2
    <3>5. StopId(c, q, "user") \in StopIds
      BY StopNames
    <3> QED BY <2>2, <3>4, <3>5
  <2> QED BY <2>3, <2>4 DEF StopsOK
<1> QED BY <1>1, <1>2, <1>3, <1>4, StopSteps DEF StopsBegin

-----------------------------------------------------------------------------
(* Cancelled owners                                                         *)

(* The owner a spawn has captured is an attempt that was attached or a root *)
(* node there has been.                                                     *)
Known(b) == \/ (b \in Attempts /\ Attached(b))
            \/ \E g \in 0..root : b = <<RootId(g), 1>>

OwnedOK == \A a \in Attempts : phase[a] # "none" => Known(owner[a])

(* The node of an attempt in the tree is below those of its captured owners *)
(* that are in the tree too, unless it is aborted; and it is aborted when   *)
(* one of its owners is, also one that has left the tree.                   *)
OwnersOK ==
  \A a \in Attempts : InTree(a) => \A b \in OwnersOf(a) :
    /\ InTree(b) => a \in aborted \/ a[1] \in Subtree(tree, b[1])
    /\ b \in aborted => a \in aborted

LEMMA ObjectFacts ==
  \A b \in NodeObjects : b[1] \in Ids /\ b[2] # 0 /\ b = <<b[1], b[2]>>
<1>1. \A a \in Attempts : a[2] # 0
  BY AttemptFacts
<1> QED BY <1>1, IdFacts DEF NodeObjects

LEMMA RootFacts ==
  \A g, h \in 0..MaxCancels : /\ RootId(g) \notin Runs /\ <<RootId(g), 1>> \notin Attempts
                              /\ RootId(g) = RootId(h) => g = h
<1>1. \A g \in 0..MaxCancels : RootId(g) \notin Runs
  BY IdFacts
<1>2. \A g \in 0..MaxCancels : <<RootId(g), 1>> \notin Attempts
  BY <1>1 DEF Attempts
<1>3. \A g, h \in 0..MaxCancels : RootId(g) = RootId(h) => g = h
  BY DEF RootId
<1> QED BY <1>1, <1>2, <1>3

LEMMA RemovedNode ==
  ASSUME NEW t, TreeOK(t), NEW id \in Ids
  PROVE  /\ TreeOK(Remove(t, id)) /\ DOMAIN Remove(t, id) = Ids /\ DOMAIN t = Ids
         /\ \A c \in Ids : Remove(t, id)[c].n = IF c = id THEN 0 ELSE t[c].n
<1>1. TreeOK(Remove(t, id))
  BY TreeType DEF Ids
<1>2. t \in [Ids -> [n : 0..MaxAttempts, up : Ids \cup {NoId}]]
  BY DEF TreeOK, Ids
<1>3. DOMAIN Remove(t, id) = Ids /\ DOMAIN t = Ids
  BY <1>2 DEF Remove
<1>4. \A c \in Ids : Remove(t, id)[c].n = IF c = id THEN 0 ELSE t[c].n
  BY <1>2 DEF Remove, Has, Absent
<1> QED BY <1>1, <1>3, <1>4

LEMMA OwnedStep ==
  ASSUME Shape, AdmissionOK, NodesOK, OwnedOK, Next
  PROVE  OwnedOK'
<1>t. /\ owner \in [Attempts -> NodeObjects] /\ phase \in [Attempts -> Phases]
      /\ root \in 0..MaxCancels /\ TreeOK(tree) /\ MaxCancels \in Nat
  BY ShapeTree, FleetAssumption DEF Shape, TypeOK
<1>1. ASSUME NEW b, Known(b), root' = root \/ root' = root + 1 PROVE Known(b)'
  <2>1. CASE b \in Attempts /\ Attached(b)
    <3>1. Attached(b)'
      BY <2>1, Forward
    <3> QED BY <2>1, <3>1 DEF Known
  <2>2. ASSUME NEW g \in 0..root, b = <<RootId(g), 1>> PROVE Known(b)'
    <3>1. g \in 0..root'
      BY <1>1, <1>t
    <3> QED BY <2>2, <3>1 DEF Known
  <2> QED BY <1>1, <2>1, <2>2 DEF Known
<1>2. ASSUME NEW r \in Runs, NEW k \in 1..MaxAttempts, Spawns(r, k) PROVE OwnedOK'
  <2>1. Known(Object(tree, ParentId(r)))
    <3>1. CASE ParentOf[r] = NoId
      <4>1. Object(tree, ParentId(r)) = <<RootId(root), 1>>
        BY <1>2, <3>1, <1>t, IdFacts DEF Spawns, ParentId, Has, Object, TreeOK
      <4> QED BY <4>1, <1>t DEF Known
    <3>2. CASE ParentOf[r] # NoId
      <4>1. ParentId(r) \in Runs /\ tree[ParentId(r)].n # 0
        BY <1>2, <3>2, FleetAssumption DEF Spawns, ParentId, Has
      <4>2. tree[ParentId(r)].n \in 1..MaxAttempts
        BY <4>1, <1>t, FleetAssumption DEF TreeOK
      <4>3. Object(tree, ParentId(r)) \in Attempts /\ Attached(Object(tree, ParentId(r)))
        BY <4>1, <4>2, AttemptFacts DEF NodesOK, Object
      <4> QED BY <4>3 DEF Known
    <3> QED BY <3>1, <3>2
  <2>2. root' = root
    BY <1>2 DEF Spawns
  <2>3. \A b : Known(b) => Known(b)'
    BY <1>1, <2>2
  <2> SUFFICES ASSUME NEW a \in Attempts, phase'[a] # "none", NEW b, b = owner'[a]
               PROVE  Known(b)'
    BY DEF OwnedOK, Known
  <2>4. CASE a = <<r, k>>
    BY <1>2, <1>t, <2>1, <2>3, <2>4 DEF Spawns
  <2>5. CASE a # <<r, k>>
    <3>1. owner'[a] = owner[a] /\ phase[a] # "none"
      BY <1>2, <1>t, <2>5 DEF Spawns
    <3>2. Known(owner[a])
      BY <3>1 DEF OwnedOK
    <3> QED BY <3>1, <3>2, <2>3
  <2> QED BY <2>4, <2>5
<1>3. ASSUME TreeStep, \A a \in Attempts : phase[a] # "none" <=> phase'[a] # "none"
      PROVE  OwnedOK'
  <2>1. owner' = owner /\ (root' = root \/ root' = root + 1)
    BY <1>3 DEF TreeStep, Stays, Removes, NewRoot, Clears, Attaching
  <2>2. \A b : Known(b) => Known(b)'
    BY <1>1, <2>1
  <2> SUFFICES ASSUME NEW a \in Attempts, phase'[a] # "none", NEW b, b = owner'[a]
               PROVE  Known(b)'
    BY DEF OwnedOK, Known
  <2> QED BY <1>3, <2>1, <2>2 DEF OwnedOK
<1> QED BY <1>2, <1>3, TreeSteps, Forward

(* The owners of an attached attempt are attached attempts and roots.       *)
LEMMA OwnersKnown ==
  ASSUME Shape, OwnedOK, NEW a \in Attempts, Attached(a)
  PROVE  \A b \in OwnersOf(a) : Known(b)
<1> DEFINE S == {b \in NodeObjects : Known(b)}
<1>1. S \in SUBSET NodeObjects /\ a \in S
  BY IdFacts DEF Known
<1>2. ASSUME NEW c \in S \cap Attempts PROVE owner[c] \in S
  <2>1. owner[c] \in NodeObjects
    BY DEF Shape, TypeOK
  <2>2. \A g \in 0..root : <<RootId(g), 1>> # c
    <3>1. root \in 0..MaxCancels
      BY DEF Shape, TypeOK
    <3>2. \A g \in 0..root : g \in 0..MaxCancels
      BY <3>1, FleetAssumption
    <3> QED BY <3>2, RootFacts
  <2>3. phase[c] # "none"
    BY <2>2 DEF Known, Attached, Unattached
  <2> QED BY <2>1, <2>3 DEF OwnedOK
<1> HIDE DEF S
<1>3. \A b \in OwnersOf(a) : b \in S
  BY <1>1, <1>2 DEF OwnersOf
<1> QED BY <1>3 DEF S

LEMMA InTreeAttached ==
  ASSUME Shape, NodesOK, NEW a \in Attempts, InTree(a)
  PROVE  Attached(a)
BY AttemptFacts DEF NodesOK, InTree

(* An abort of a node reaches what is below it.                             *)
LEMMA AbortsSpread ==
  ASSUME Shape, OwnersOK, Aborts, NEW a \in Attempts, InTree(a), NEW b \in OwnersOf(a),
         b \in aborted'
  PROVE  a \in aborted'
<1>1. a[1] \in Ids /\ a = Object(tree, a[1])
  BY AttemptFacts, IdFacts DEF InTree, Object
<1>2. CASE b \in aborted
  BY <1>2 DEF OwnersOK, Aborts
<1>3. ASSUME NEW id \in Ids, aborted' = aborted \cup Objects(tree, Subtree(tree, id)),
             b \notin aborted
      PROVE  a \in aborted'
  <2>1. PICK c \in Subtree(tree, id) : b = Object(tree, c)
    BY <1>3 DEF Objects
  <2>2. b[1] = c /\ InTree(b)
    BY <2>1 DEF Object, InTree
  <2>3. a \in aborted \/ a[1] \in Subtree(tree, id)
    BY <2>2, SubtreeFacts DEF OwnersOK
  <2> QED BY <1>1, <1>3, <2>3 DEF Objects
<1> QED BY <1>2, <1>3 DEF Aborts

LEMMA OwnersSpawn ==
  ASSUME Shape, NodesOK, OwnedOK, OwnersOK, NEW r \in Runs, NEW k \in 1..MaxAttempts, Spawns(r, k)
  PROVE  OwnersOK'
<1>1. phase[<<r, k>>] = "none" /\ <<r, k>> \in Attempts
  BY AttemptFacts DEF Spawns, Begun
<1>2. tree' = tree /\ aborted' = aborted
  BY DEF Spawns
<1>3. ASSUME NEW a \in Attempts, InTree(a) PROVE OwnersOf(a)' \subseteq OwnersOf(a)
  <2>1. OwnersOf(a) \in SUBSET NodeObjects /\ a \in OwnersOf(a)
        /\ \A c \in OwnersOf(a) \cap Attempts : owner[c] \in OwnersOf(a)
    BY OwnersFacts, IdFacts DEF Shape, TypeOK
  <2>2. <<r, k>> \notin OwnersOf(a)
    <3>1. root \in 0..MaxCancels /\ \A g \in 0..root : g \in 0..MaxCancels
      BY FleetAssumption DEF Shape, TypeOK
    <3>2. ~Known(<<r, k>>)
      BY <1>1, <3>1, RootFacts DEF Known, Attached, Unattached
    <3> QED BY <1>3, <3>2, InTreeAttached, OwnersKnown
  <2>3. \A c \in Attempts : c # <<r, k>> => owner'[c] = owner[c]
    BY DEF Spawns, Shape, TypeOK
  <2> DEFINE S == OwnersOf(a)
  <2>4. S \in SUBSET NodeObjects /\ a \in S /\ \A c \in S \cap Attempts : owner'[c] \in S
    BY <2>1, <2>2, <2>3
  <2> HIDE DEF S
  <2>5. \A b \in OwnersOf(a)' : b \in S
    BY <2>4 DEF OwnersOf
  <2> QED BY <2>5 DEF S
<1> QED BY <1>2, <1>3 DEF OwnersOK, InTree

LEMMA OwnersStays ==
  ASSUME Shape, OwnersOK, Stays, owner' = owner
  PROVE  OwnersOK'
<1>1. \A a : OwnersOf(a)' = OwnersOf(a)
  BY DEF OwnersOf
<1>2. tree' = tree /\ Aborts /\ aborted \subseteq aborted'
  BY DEF Stays, Aborts
<1> QED BY <1>1, <1>2, AbortsSpread DEF OwnersOK, InTree

LEMMA OwnersRemoves ==
  ASSUME Shape, OwnersOK, Removes, owner' = owner
  PROVE  OwnersOK'
<1>1. \A a : OwnersOf(a)' = OwnersOf(a)
  BY DEF OwnersOf
<1>2. PICK id \in Ids : tree' = Remove(tree, id)
  BY DEF Removes
<1>3. \A c \in Ids : tree'[c].n = IF c = id THEN 0 ELSE tree[c].n
  BY <1>2, ShapeTree, RemovedNode
<1>4. aborted' = aborted
  BY DEF Removes
<1>5. \A b \in NodeObjects : InTree(b)' => b[1] # id /\ InTree(b)
  BY <1>3, ObjectFacts DEF InTree
<1>6. ASSUME NEW a \in Attempts, InTree(a)', NEW b \in OwnersOf(a), InTree(b)'
      PROVE  a \in aborted \/ a[1] \in Subtree(tree', b[1])
  <2>1. b \in NodeObjects /\ a \in NodeObjects
    BY IdFacts DEF OwnersOf
  <2>2. InTree(a) /\ InTree(b) /\ a[1] # id /\ b[1] # id /\ b[1] \in Ids
    BY <2>1, <1>5, <1>6, ObjectFacts
  <2>3. a \in aborted \/ a[1] \in Subtree(tree, b[1])
    BY <2>2 DEF OwnersOK
  <2> QED BY <1>2, <2>2, <2>3, ShapeTree, RemoveKeepsSubtree
<1> QED BY <1>1, <1>4, <1>5, <1>6, IdFacts DEF OwnersOK

LEMMA OwnersNewRoot ==
  ASSUME Shape, NodesOK, OwnedOK, OwnersOK, NewRoot, owner' = owner
  PROVE  OwnersOK'
<1> DEFINE new == RootId(root + 1)
<1>1. \A a : OwnersOf(a)' = OwnersOf(a)
  BY DEF OwnersOf
<1>2. new \in RootIds /\ new \in Ids /\ new \notin Runs /\ DOMAIN tree = Ids
  BY IdFacts, RootFacts DEF NewRoot, Shape, TypeOK, Ids
<1>3. Aborts /\ aborted \subseteq aborted' /\ tree' = Create(tree, new, 1, NoId)
  BY DEF NewRoot, Aborts
<1>4. \A c \in Ids : c # new => tree'[c] = tree[c]
  BY <1>2, <1>3 DEF Create
<1>5. \A c \in Ids : new \notin Children(tree, c)
  BY <1>2, ShapeTree, IdFacts DEF TreeOK, Children
<1>6. ASSUME NEW a \in Attempts, InTree(a)' PROVE InTree(a)
  <2>1. a[1] \in Ids /\ a[1] # new
    BY <1>2, AttemptFacts, IdFacts
  <2> QED BY <1>4, <1>6, <2>1 DEF InTree
<1>7. ASSUME NEW a \in Attempts, InTree(a), NEW b \in OwnersOf(a), InTree(b)'
      PROVE  a \in aborted' \/ a[1] \in Subtree(tree', b[1])
  <2>1. Known(b) /\ b \in NodeObjects
    BY <1>7, InTreeAttached, OwnersKnown DEF OwnersOf
  <2>2. b[1] \in Ids /\ b[1] # new
    <3>1. CASE b \in Attempts
      BY <3>1, <1>2, AttemptFacts, IdFacts
    <3>2. ASSUME NEW g \in 0..root, b = <<RootId(g), 1>> PROVE b[1] # new
      <4>1. root \in 0..MaxCancels /\ root + 1 \in 0..MaxCancels
        BY DEF Shape, TypeOK, NewRoot
      <4>2. g \in 0..MaxCancels /\ g # root + 1
        BY <4>1, FleetAssumption
      <4> QED BY <3>2, <4>1, <4>2, RootFacts
    <3> QED BY <2>1, <3>1, <3>2, ObjectFacts DEF Known
  <2>3. InTree(b)
    BY <1>4, <1>7, <2>2 DEF InTree
  <2>4. a \in aborted \/ a[1] \in Subtree(tree, b[1])
    BY <1>7, <2>3 DEF OwnersOK
  <2>5. Subtree(tree, b[1]) \subseteq Subtree(Create(tree, new, 1, NoId), b[1])
    <3> HIDE DEF new
    <3>1. 1 \in Nat \ {0}
      OBVIOUS
    <3> QED BY <1>2, <1>5, <2>2, <3>1, ShapeTree, CreateKeepsSubtree
  <2> QED BY <1>3, <2>4, <2>5
<1> HIDE DEF new
<1> QED BY <1>1, <1>3, <1>6, <1>7, AbortsSpread DEF OwnersOK

(* spawn() makes its node: below its owner, or aborted.                     *)
LEMMA OwnersAttach ==
  ASSUME Shape, NodesOK, OwnedOK, OwnersOK, NEW x \in Attempts, Attaching(x), owner' = owner
  PROVE  OwnersOK'
<1> DEFINE t == Remove(tree, x[1])
           o == owner[x]
           adopted == Has(t, o[1]) /\ Object(t, o[1]) = o
           up == IF adopted THEN o[1] ELSE NoId
<1>1. \A a : OwnersOf(a)' = OwnersOf(a)
  BY DEF OwnersOf
<1>2. /\ x[1] \in Ids /\ x[1] \in Runs /\ x[2] \in Nat \ {0} /\ ~Attached(x)
      /\ x \in NodeObjects /\ x = <<x[1], x[2]>> /\ o \in NodeObjects /\ o[1] \in Ids
  BY SMTT(30), AttemptFacts, IdFacts, FleetAssumption, ObjectFacts
     DEF Attaching, Attached, Unattached, Shape, TypeOK
<1>3. tree' = Create(t, x[1], x[2], up)
      /\ aborted' = IF adopted /\ o \notin aborted THEN aborted ELSE aborted \cup {x}
  BY DEF Attaching, Adopts
<1>4. /\ TreeOK(t) /\ DOMAIN t = Ids
      /\ \A c \in Ids : t[c].n = IF c = x[1] THEN 0 ELSE tree[c].n
  BY <1>2, ShapeTree, RemovedNode
<1> HIDE DEF t, up
<1>5. \A c \in Ids : x[1] \notin Children(t, c)
  BY <1>2, <1>4 DEF Children, Has
<1>6. \A c \in Ids : /\ Subtree(t, c) \subseteq Subtree(tree', c)
                     /\ up \in Subtree(t, c) => x[1] \in Subtree(tree', c)
  BY <1>2, <1>3, <1>4, <1>5, CreateKeepsSubtree
<1>7. \A c \in Ids : tree'[c].n = IF c = x[1] THEN x[2] ELSE tree[c].n
  BY <1>2, <1>3, <1>4 DEF Create
<1>8. ASSUME NEW b \in NodeObjects, b # x, InTree(b)'
      PROVE  b[1] # x[1] /\ b[1] \in Ids /\ InTree(b)
  <2>1. b[1] \in Ids /\ b = <<b[1], b[2]>>
    BY ObjectFacts
  <2> QED BY <2>1, <1>2, <1>7, <1>8 DEF InTree
<1>9. ASSUME NEW a \in NodeObjects, NEW b \in NodeObjects, a[1] # x[1], b[1] # x[1],
             a[1] \in Subtree(tree, b[1])
      PROVE  a[1] \in Subtree(t, b[1])
  BY <1>2, <1>9, ObjectFacts, ShapeTree, RemoveKeepsSubtree DEF t
<1>10. ASSUME NEW a \in Attempts, a # x, InTree(a)', NEW b \in OwnersOf(a)
       PROVE  /\ InTree(b)' => a \in aborted' \/ a[1] \in Subtree(tree', b[1])
              /\ b \in aborted' => a \in aborted'
  <2>1. a \in NodeObjects /\ b \in NodeObjects /\ a[1] # x[1] /\ InTree(a)
    BY <1>8, <1>10, IdFacts DEF OwnersOf
  <2>2. Known(b)
    BY <1>10, <2>1, InTreeAttached, OwnersKnown
  <2>3. b # x
    <3>1. \A g \in 0..root : x # <<RootId(g), 1>>
      <4>1. root \in 0..MaxCancels /\ \A g \in 0..root : g \in 0..MaxCancels
        BY FleetAssumption DEF Shape, TypeOK
      <4> QED BY <4>1, RootFacts
    <3> QED BY <2>2, <3>1, <1>2 DEF Known
  <2>4. b \in aborted' => a \in aborted'
    BY <1>3, <1>10, <2>1, <2>3 DEF OwnersOK
  <2>5. ASSUME InTree(b)' PROVE a \in aborted' \/ a[1] \in Subtree(tree', b[1])
    <3>1. b[1] # x[1] /\ b[1] \in Ids /\ InTree(b)
      BY <1>8, <2>1, <2>3, <2>5
    <3>2. a \in aborted \/ a[1] \in Subtree(tree, b[1])
      BY <1>10, <2>1, <3>1 DEF OwnersOK
    <3> QED BY <1>3, <1>6, <1>9, <2>1, <3>1, <3>2
  <2> QED BY <2>4, <2>5
<1>11. ASSUME x \notin aborted', NEW b \in OwnersOf(x)
       PROVE  /\ InTree(b)' => x[1] \in Subtree(tree', b[1])
              /\ b \notin aborted'
  <2>1. adopted /\ o \notin aborted /\ aborted' = aborted /\ x \notin aborted
    BY <1>3, <1>11
  <2>2. up = o[1] /\ Has(t, o[1]) /\ Object(t, o[1]) = o
    BY <2>1 DEF up
  <2>3. o[1] # x[1] /\ InTree(o)
    BY <2>2, <1>2, <1>4 DEF Has, Object, InTree
  <2>4. o[1] \in Subtree(t, o[1])
    BY <2>2, <1>2, <1>4, SubtreeFacts
  <2>5. b \in NodeObjects /\ b \in {x} \cup OwnersOf(o)
    BY <1>2, <1>11, OwnersFacts DEF Shape, TypeOK
  <2>6. CASE b = x
    <3>1. x[1] \in Subtree(tree', x[1])
      <4>1. DOMAIN tree' = Ids
        BY <1>3, <1>4 DEF Create
      <4> QED BY <4>1, <1>2, <1>7, SubtreeFacts DEF Has
    <3> QED BY <2>1, <2>6, <3>1
  <2>7. ASSUME b # x, o \in Attempts
        PROVE  /\ InTree(b)' => x[1] \in Subtree(tree', b[1])
               /\ b \notin aborted'
    <3>1. b \notin aborted
      BY <2>1, <2>3, <2>5, <2>7 DEF OwnersOK
    <3>2. ASSUME InTree(b)' PROVE x[1] \in Subtree(tree', b[1])
      <4>1. b[1] # x[1] /\ b[1] \in Ids /\ InTree(b)
        BY <1>8, <2>5, <2>7, <3>2
      <4>2. o[1] \in Subtree(tree, b[1])
        BY <2>1, <2>3, <2>5, <2>7, <4>1 DEF OwnersOK
      <4> QED BY <1>2, <1>6, <1>9, <2>2, <2>3, <2>5, <4>1, <4>2
    <3> QED BY <2>1, <3>1, <3>2
  <2>8. ASSUME b # x, o \notin Attempts
        PROVE  /\ InTree(b)' => x[1] \in Subtree(tree', b[1])
               /\ b \notin aborted'
    <3>1. b = o
      BY <1>2, <2>5, <2>8, OwnersFacts DEF Shape, TypeOK
    <3> QED BY <3>1, <1>2, <1>6, <2>1, <2>2, <2>4
  <2> QED BY <2>6, <2>7, <2>8
<1> HIDE DEF o, adopted
<1> SUFFICES ASSUME NEW a \in Attempts, InTree(a)', NEW b \in OwnersOf(a)
             PROVE  /\ InTree(b)' => a \in aborted' \/ a[1] \in Subtree(tree', b[1])
                    /\ b \in aborted' => a \in aborted'
  BY <1>1 DEF OwnersOK
<1> QED BY <1>10, <1>11

LEMMA OwnersStep ==
  ASSUME Shape, NodesOK, OwnedOK, OwnersOK, Next
  PROVE  OwnersOK'
<1>1. ASSUME Clears PROVE OwnersOK'
  <2>1. \A a \in Attempts : tree'[a[1]].n # a[2]
    BY <1>1, AttemptFacts, IdFacts DEF Clears, Absent
  <2> QED BY <2>1 DEF OwnersOK, InTree
<1> QED BY <1>1, TreeSteps, OwnersSpawn, OwnersStays, OwnersRemoves, OwnersNewRoot, OwnersAttach
        DEF TreeStep

-----------------------------------------------------------------------------
(* The invariant                                                            *)
Tracked == Orderly /\ NodesOK /\ WaitsOK /\ StopsOK /\ BeforeOK /\ OwnedOK /\ OwnersOK

LEMMA TrackedInvariant ==
  ASSUME CallersWait
  PROVE  Spec => []Tracked
<1> DEFINE Rules == NodesOK /\ WaitsOK /\ StopsOK /\ BeforeOK /\ OwnedOK /\ OwnersOK
<1>1. Init => Rules
  <2> SUFFICES ASSUME Init PROVE Rules
    OBVIOUS
  <2>1. \A a \in Attempts : phase[a] = "none" /\ a[1] \in Runs /\ a[2] # 0
    BY AttemptFacts DEF Init
  <2>2. \A r \in Runs : tree[r].n = 0
    <3>1. \A r \in Runs : r # RootId(0) /\ r \in Runs \cup RootIds
      <4>1. 0 \in 0..MaxCancels
        BY FleetAssumption
      <4> QED BY <4>1, IdFacts
    <3> QED BY <3>1 DEF Init, Absent
  <2>3. NodesOK /\ OwnedOK /\ OwnersOK
    BY <2>1, <2>2 DEF NodesOK, OwnedOK, OwnersOK, InTree, Attached, Unattached
  <2>4. WaitsOK /\ StopsOK /\ BeforeOK
    <3>1. /\ \A s \in StopIds : /\ Returned(s) /\ stop[s].before = {}
                               /\ stop[s].wasQueued = FALSE
      BY DEF Init, Returned
    <3> QED BY <3>1, StopNames DEF WaitsOK, StopsOK, AllReturned, BeforeOK
  <2> QED BY <2>3, <2>4
<1>2. Orderly /\ Rules /\ [Next]_vars => Rules'
  <2>1. ASSUME Orderly, Rules, Next PROVE Rules'
    <3>1. Shape /\ AdmissionOK /\ Solo /\ Counted
      BY <2>1 DEF Orderly, Kept
    <3> QED BY <2>1, <3>1, NodesStep, WaitsStep, StopsStep, BeforeStep, OwnedStep, OwnersStep
  <2>2. ASSUME Rules, UNCHANGED vars PROVE Rules'
    <3>1. UNCHANGED <<phase, owner, signal, tree, root, aborted, linked, stop, cancelling>>
      BY <2>2 DEF vars, attempts, ownership, calls
    <3>2. NodesOK' /\ WaitsOK' /\ OwnedOK' /\ OwnersOK'
      BY <2>2, <3>1 DEF NodesOK, WaitsOK, OwnedOK, OwnersOK, InTree, Attached, Live, Known,
                        OwnersOf
    <3>3. StopsOK' /\ BeforeOK'
      BY <2>2, <3>1 DEF StopsOK, BeforeOK, AllReturned, Returned, Covers, Left, Finished,
                        InTree, Attached
    <3> QED BY <3>2, <3>3
  <2> QED BY <2>1, <2>2
<1> HIDE DEF Rules
<1>3. Orderly /\ Rules => Tracked
  BY DEF Rules, Tracked
<1> QED BY <1>1, <1>2, <1>3, OrderlyInvariant, PTL DEF Spec

(* When callers retry a run only when nothing of it goes on, and send to it *)
(* only when no attempt and no follow-up of it does: no attempt starts      *)
(* model work when it, an owner captured by its spawn, or an owner of that  *)
(* owner was cancelled before, for any tree of runs and any interleaving of *)
(* spawns in flight, stops and cancelAll().                                 *)
THEOREM OldChildrenStayIdle ==
  ASSUME CallersWait
  PROVE  Spec => NoWorkUnderCancelledOwner
<1>1. ASSUME Tracked, Next, NEW a \in Attempts, phase[a] # "working", phase'[a] = "working"
      PROVE  OwnersOf(a) \cap aborted = {}
  <2>1. Shape /\ AdmissionOK /\ NodesOK /\ OwnersOK
    BY <1>1 DEF Tracked, Orderly, Kept
  <2> QED BY <1>1, <2>1, WorkBegins DEF OwnersOK
<1>2. Tracked /\ [Next]_vars =>
        [\A a \in Attempts : phase[a] # "working" /\ phase'[a] = "working"
           => OwnersOf(a) \cap aborted = {}]_vars
  BY <1>1
<1> QED BY <1>2, TrackedInvariant, PTL DEF Spec, NoWorkUnderCancelledOwner

(* When callers retry a run only when nothing of it goes on, and send to it *)
(* only when no attempt and no follow-up of it does: when stop() returns,   *)
(* no attempt that was attached to the tree below the run when it was       *)
(* called is at work, whatever else was spawned, stopped or moved in the    *)
(* tree in between.                                                         *)
THEOREM StopsStop ==
  ASSUME CallersWait
  PROVE  Spec => StopMeansStopped
<1>1. ASSUME Tracked, Next, NEW s \in StopIds, stop[s].phase # "idle", stop'[s].phase = "idle",
             NEW a \in stop[s].before
      PROVE  phase'[a] # "working"
  <2>t. Shape /\ AdmissionOK /\ NodesOK /\ BeforeOK
    BY <1>1 DEF Tracked, Orderly, Kept
  <2>1. ASSUME NEW runs, NEW via, BeginStops(runs, via) PROVE FALSE
    BY <1>1, <2>1 DEF BeginStops
  <2>2. ASSUME NEW c \in StopIds, StopCancels(c) PROVE FALSE
    BY <1>1, <2>t, <2>2, StopTypes DEF StopCancels, StopRecords
  <2>3. ASSUME NEW c \in StopIds, StopCleansUp(c) \/ StopReported(c) PROVE phase'[a] # "working"
    <3>1. c = s /\ phase' = phase
      BY <1>1, <2>t, <2>3, StopTypes
         DEF StopCleansUp, StopReported, StopReturns, StopRecords, attempts
    <3>2. Finished(a)
      BY <1>1, <2>t, <2>3, <3>1, StopEnds
    <3> QED BY <3>1, <3>2 DEF Finished
  <2> QED BY <1>1, <2>t, <2>1, <2>2, <2>3, StopSteps DEF StopsBegin
<1>2. Tracked /\ [Next]_vars =>
        [\A s \in StopIds : stop[s].phase # "idle" /\ stop'[s].phase = "idle"
           => \A a \in stop[s].before : phase'[a] # "working"]_vars
  BY <1>1
<1> QED BY <1>2, TrackedInvariant, PTL DEF Spec, StopMeansStopped
=============================================================================
