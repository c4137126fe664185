--------------------------- MODULE InflightProofs ---------------------------
(***************************************************************************)
(* Theorems of Inflight, for any number of requests, jobs, versions,         *)
(* attempts and lost acknowledgements: types; that no job's push carries an  *)
(* unreviewed object to the default branch (BranchInv); that a green job did *)
(* what it says, and what becomes of a shard (ShardInv).                    *)
(***************************************************************************)
EXTENDS Inflight, TLAPS

(***************************************************************************)
(* Types.                                                                   *)
(***************************************************************************)

LEMMA ConstantTypes ==
    /\ NoEdits \in Edits /\ NoFolder \in Folders
    /\ Root \in Commits /\ Tree(Root) \in Trees
    /\ \A c \in Commits : Tree(c) \in Trees
BY InflightAssumption DEF NoEdits, Edits, Versions, NoFolder, Folders, NoShard, Root, Commits,
                          Tree, Trees

LEMMA InitTypes == Init => TypeOK
<1> SUFFICES ASSUME Init PROVE TypeOK
  OBVIOUS
<1>1. /\ tip \in Commits /\ seen \subseteq Objects \X Jobs /\ newest \in Edits
      /\ triggered \in 0 .. MaxJobs /\ acksLost \in 0 .. LostAcks
  BY ConstantTypes, InflightAssumption DEF Init
<1>2. /\ state \in [Requests -> {"none", "open", "merged"}]
      /\ edits \in [Requests -> Edits] /\ fork \in [Requests -> Trees]
  BY ConstantTypes DEF Init
<1>3. /\ kind \in [Jobs -> {"none", "publish", "prune"}]
      /\ request \in [Jobs -> Requests]
      /\ head \in [Jobs -> Edits]
      /\ start \in [Jobs -> Commits] /\ onto \in [Jobs -> Commits] /\ work \in [Jobs -> Trees]
  BY ConstantTypes DEF Init
<1>4. step \in [Jobs -> Steps] /\ attempt \in [Jobs -> 1 .. PushAttempts]
  BY InflightAssumption DEF Init, Steps
<1> QED
  BY <1>1, <1>2, <1>3, <1>4 DEF TypeOK

\* The parts of TypeOK that one group of variables makes up.
BranchTypes == tip \in Commits /\ seen \subseteq Objects \X Jobs /\ newest \in Edits

LEMMA MovesTypes ==
    ASSUME TypeOK, NEW c \in Commits, Moves(c)
    PROVE  BranchTypes'
<1>1. tip' \in Commits
  BY DEF Moves
<1>2. seen' \subseteq Objects \X Jobs
  BY DEF Moves, TypeOK, Commits, Folders, NoShard
<1>3. newest' \in Edits
  BY DEF Moves, TypeOK, Commits, Edits
<1> QED
  BY <1>1, <1>2, <1>3 DEF BranchTypes

LEMMA TriggersTypes ==
    ASSUME TypeOK, NEW k \in {"publish", "prune"}, NEW p \in Requests, NEW h \in Edits,
           NEW c \in Commits, Triggers(k, p, h, c)
    PROVE  /\ triggered' \in Jobs /\ triggered' \in 0 .. MaxJobs
           /\ kind' \in [Jobs -> {"none", "publish", "prune"}]
           /\ request' \in [Jobs -> Requests]
           /\ head' \in [Jobs -> Edits]
           /\ start' \in [Jobs -> Commits]
           /\ step' \in [Jobs -> Steps]
<1>1. triggered' \in Jobs /\ triggered' \in 0 .. MaxJobs
  BY InflightAssumption DEF Triggers, TypeOK, Jobs
<1>2. "queued" \in Steps
  BY DEF Steps, Active
<1> QED
  BY <1>1, <1>2 DEF Triggers, TypeOK

LEMMA PushedType ==
    ASSUME TypeOK, NEW j \in Jobs
    PROVE  Pushed(j) \in Commits
BY DEF Pushed, TypeOK, Commits, Trees

LEMMA RefusedTypes ==
    ASSUME TypeOK, NEW j \in Jobs, Refused(j)
    PROVE  step' \in [Jobs -> Steps] /\ attempt' \in [Jobs -> 1 .. PushAttempts]
<1>1. "retrying" \in Steps /\ "failed" \in Steps
  BY DEF Steps, Active
<1>2. MayRetry(j) => attempt[j] + 1 \in 1 .. PushAttempts
  BY InflightAssumption DEF TypeOK, MayRetry
<1> QED
  BY <1>1, <1>2 DEF Refused, TypeOK

LEMMA CommitTypes ==
    ASSUME TypeOK, NEW j \in Jobs, NEW tree \in Trees, NEW base \in Commits,
           CommitAndPush(j, tree, base)
    PROVE  /\ work' \in [Jobs -> Trees] /\ onto' \in [Jobs -> Commits]
           /\ step' \in [Jobs -> Steps]
<1>1. "ok" \in Steps /\ "pushing" \in Steps
  BY DEF Steps, Active
<1> QED
  BY <1>1 DEF CommitAndPush, TypeOK

\* What a job commits: shards, on the objects of the commit it started from.
LEMMA CommittedTree ==
    ASSUME TypeOK, NEW j \in Jobs, Publish(j) \/ Prune(j)
    PROVE  \E tree \in Trees : /\ CommitAndPush(j, tree, start[j])
                               /\ tree.objects = start[j].objects
<1>1. CASE Publish(j)
  <2>1. PICK written \in Diffs(j) :
          CommitAndPush(j,
             [objects |-> Worktree(j).objects,
              shards  |-> [o \in Objects |-> IF o \in written THEN j ELSE work[j].shards[o]]],
             Worktree(j))
    BY <1>1 DEF Publish
  <2> DEFINE tree == [objects |-> Worktree(j).objects,
                      shards  |-> [o \in Objects |-> IF o \in written THEN j
                                                                      ELSE work[j].shards[o]]]
  <2>2. tree \in Trees /\ tree.objects = start[j].objects
    BY DEF Worktree, TypeOK, Commits, Trees, Folders
  <2>3. CommitAndPush(j, tree, start[j])
    BY <2>1 DEF Worktree
  <2> QED
    BY <2>2, <2>3
<1>2. CASE Prune(j)
  <2> DEFINE tree == [objects |-> start[j].objects,
                      shards  |-> [o \in Objects |-> IF Superseded(start[j], o) THEN NoShard
                                                                    ELSE start[j].shards[o]]]
  <2>1. tree \in Trees /\ tree.objects = start[j].objects
    BY DEF TypeOK, Commits, Trees, Folders
  <2>2. CommitAndPush(j, tree, start[j])
    BY <1>2 DEF Prune
  <2> QED
    BY <2>1, <2>2
<1> QED
  BY <1>1, <1>2

LEMMA NextTypes == TypeOK /\ [Next]_vars => TypeOK'
<1> SUFFICES ASSUME TypeOK, [Next]_vars PROVE TypeOK'
  OBVIOUS
<1> USE DEF branchVars, requestVars
<1>1. ASSUME NEW p \in Requests, PushToRequest(p) PROVE TypeOK'
  <2>1. PICK h \in Edits : /\ edits' = [edits EXCEPT ![p] = h]
                           /\ Triggers("publish", p, h, Root)
    BY <1>1 DEF PushToRequest
  <2>2. /\ state' \in [Requests -> {"none", "open", "merged"}]
        /\ edits' \in [Requests -> Edits] /\ fork' \in [Requests -> Trees]
    <3>1. Tree(tip) \in Trees
      BY ConstantTypes DEF TypeOK
    <3> QED
      BY <1>1, <2>1, <3>1 DEF PushToRequest, TypeOK
  <2> QED
    BY <1>1, <2>1, <2>2, TriggersTypes, ConstantTypes DEF PushToRequest, Triggers, TypeOK
<1>2. ASSUME NEW p \in Requests, Merge(p) PROVE TypeOK'
  <2> DEFINE c == [objects |-> Over(tip.objects, edits[p]), shards |-> tip.shards,
                   at |-> tip.at + 1]
  <2>1. c \in Commits
    <3>1. tip \in [objects : Edits, shards : Folders, at : Nat] /\ edits[p] \in Edits
      BY DEF TypeOK, Commits
    <3>2. Over(tip.objects, edits[p]) \in Edits
      BY <3>1 DEF Over, Edits
    <3> QED
      BY <3>1, <3>2 DEF Commits
  <2>2. Moves(c) /\ tip' = c /\ Triggers("prune", p, NoEdits, c)
    BY <1>2 DEF Merge, Moves
  <2>3. BranchTypes'
    BY <2>1, <2>2, MovesTypes
  <2>4. state' \in [Requests -> {"none", "open", "merged"}]
    BY <1>2 DEF Merge, TypeOK
  <2> HIDE DEF c
  <2> QED
    BY <1>2, <2>1, <2>2, <2>3, <2>4, TriggersTypes, ConstantTypes
    DEF Merge, Triggers, TypeOK, BranchTypes
<1>3. ASSUME NEW j \in Jobs, TakeBase(j) PROVE TypeOK'
  <2>1. head' \in [Jobs -> Edits]
    BY <1>3 DEF TakeBase, TypeOK
  <2>2. start' \in [Jobs -> Commits] /\ work' \in [Jobs -> Trees]
    BY <1>3 DEF TakeBase, TypeOK, Commits, Trees, BaseFolder
  <2>3. step' \in [Jobs -> Steps]
    BY <1>3 DEF TakeBase, TypeOK, Steps, Active
  <2> QED
    BY <1>3, <2>1, <2>2, <2>3 DEF TakeBase, TypeOK
<1>4. ASSUME NEW j \in Jobs, Publish(j) \/ Prune(j)
      PROVE  /\ work' \in [Jobs -> Trees] /\ onto' \in [Jobs -> Commits]
             /\ step' \in [Jobs -> Steps]
  <2>1. PICK tree \in Trees : CommitAndPush(j, tree, start[j])
    BY <1>4, CommittedTree
  <2>2. start[j] \in Commits
    BY DEF TypeOK
  <2> QED
    BY <2>1, <2>2, CommitTypes
<1>5. ASSUME NEW j \in Jobs, Publish(j) \/ Prune(j) PROVE TypeOK'
  <2>1. CASE Prune(j)
    BY <1>4, <2>1 DEF Prune, TypeOK
  <2>2. CASE Publish(j)
    <3>1. PICK written \in Diffs(j) :
            head' = [head EXCEPT ![j] =
                        [o \in Objects |-> IF o \in written THEN Checkout(j)[o] ELSE 0]]
      BY <2>2 DEF Publish
    <3>2. [o \in Objects |-> IF o \in written THEN Checkout(j)[o] ELSE 0] \in Edits
      BY InflightAssumption DEF Checkout, Over, TypeOK, Trees, Edits, Versions
    <3>3. head' \in [Jobs -> Edits]
      BY <3>1, <3>2 DEF TypeOK
    <3> QED
      BY <1>4, <2>2, <3>3 DEF Publish, TypeOK
  <2> QED
    BY <1>5, <2>1, <2>2
<1>6. ASSUME NEW j \in Jobs, PushAccepted(j) PROVE TypeOK'
  <2>1. BranchTypes'
    BY <1>6, PushedType, MovesTypes DEF PushAccepted
  <2>2. step' \in [Jobs -> Steps]
    BY <1>6 DEF PushAccepted, TypeOK, Steps
  <2> QED
    BY <1>6, <2>1, <2>2 DEF PushAccepted, TypeOK, BranchTypes
<1>7. ASSUME NEW j \in Jobs, PushRejected(j) PROVE TypeOK'
  BY <1>7, RefusedTypes DEF PushRejected, TypeOK
<1>8. ASSUME NEW j \in Jobs, PushUnacknowledged(j) PROVE TypeOK'
  <2>1. BranchTypes' /\ onto' \in [Jobs -> Commits]
    BY <1>8, PushedType, MovesTypes DEF PushUnacknowledged, TypeOK
  <2>2. acksLost' \in 0 .. LostAcks
    BY <1>8, InflightAssumption DEF PushUnacknowledged, TypeOK
  <2> QED
    BY <1>8, <2>1, <2>2, RefusedTypes DEF PushUnacknowledged, TypeOK, BranchTypes
<1>9. ASSUME NEW j \in Jobs, Rebase(j) PROVE TypeOK'
  <2>1. \A base, mine, theirs \in Edits : Merged(base, mine, theirs) \in Edits
    BY DEF Merged, Edits
  <2>2. \A base, mine, theirs \in Folders : Merged(base, mine, theirs) \in Folders
    BY DEF Merged, Folders
  <2>3. [objects |-> Merged(onto[j].objects, work[j].objects, tip.objects),
         shards  |-> Merged(onto[j].shards, work[j].shards, tip.shards)] \in Trees
    BY <2>1, <2>2 DEF TypeOK, Commits, Trees
  <2>4. work' \in [Jobs -> Trees] /\ onto' \in [Jobs -> Commits]
    BY <1>9, <2>3 DEF Rebase, TypeOK
  <2>5. step' \in [Jobs -> Steps]
    BY <1>9 DEF Rebase, TypeOK, Steps, Active
  <2> QED
    BY <1>9, <2>4, <2>5 DEF Rebase, TypeOK
<1>10. ASSUME NEW j \in Jobs, Stops(j) PROVE TypeOK'
  BY <1>10 DEF Stops, TypeOK, Steps
<1>11. CASE UNCHANGED vars
  BY <1>11 DEF TypeOK, vars, jobVars
<1> QED
  BY <1>1, <1>2, <1>3, <1>4, <1>5, <1>6, <1>7, <1>8, <1>9, <1>10, <1>11
  DEF Next, Job, Settled

\* Every variable keeps its type, whatever the constants.
THEOREM TypeCorrect == Spec => []TypeOK
<1> QED
  BY InitTypes, NextTypes, PTL DEF Spec

(***************************************************************************)
(* Only merges change objects. A push is a fast-forward when HEAD's base is  *)
(* as old as the tip, and then it is the tip (Before); what a job commits    *)
(* has the objects of the commit it sits on (OnlyShards), a rebase included. *)
(***************************************************************************)

\* d is a commit of the branch whose tip is c, as far as its age tells.
Before(d, c) == d.at <= c.at /\ (d.at = c.at => d = c)

OnlyShards(j) == step[j] \in {"pushing", "retrying"} => work[j].objects = onto[j].objects

BranchInv ==
    /\ Before(Root, tip)
    /\ \A j \in Jobs : Before(start[j], tip) /\ Before(onto[j], tip) /\ OnlyShards(j)

LEMMA InitBranchInv == Init => BranchInv
BY DEF Init, BranchInv, Before, OnlyShards, Root, NoEdits, NoFolder

\* A fast-forward push moves the branch by one commit, or not at all, with its objects.
LEMMA PushKeepsObjects ==
    ASSUME TypeOK, BranchInv, NEW j \in Jobs, step[j] = "pushing", FastForwards(j)
    PROVE  /\ Pushed(j) \in Commits
           /\ Pushed(j) = tip \/ Pushed(j).at = tip.at + 1
           /\ Pushed(j).objects = tip.objects
           /\ Pushed(j).objects = work[j].objects
<1>1. onto[j] = tip /\ work[j].objects = tip.objects
  BY DEF BranchInv, Before, OnlyShards, FastForwards
<1>2. CASE work[j] = Tree(onto[j])
  BY <1>1, <1>2, PushedType DEF Pushed
<1>3. CASE work[j] # Tree(onto[j])
  BY <1>1, <1>3, PushedType DEF Pushed
<1> QED
  BY <1>2, <1>3

\* What a step does to the tip: a merge adds the request's edits, a push none.
LEMMA TipMoves ==
    ASSUME TypeOK, BranchInv, [Next]_vars
    PROVE  /\ tip' = tip \/ tip'.at = tip.at + 1
           /\ \/ tip'.objects = tip.objects
              \/ \E p \in Requests : /\ state[p] = "open" /\ state'[p] = "merged"
                                     /\ tip'.objects = Over(tip.objects, edits[p])
<1> USE DEF branchVars, requestVars
<1>1. ASSUME NEW p \in Requests, Merge(p)
      PROVE  /\ tip'.at = tip.at + 1
             /\ state[p] = "open" /\ state'[p] = "merged"
             /\ tip'.objects = Over(tip.objects, edits[p])
  BY <1>1 DEF Merge, Moves, TypeOK
<1>2. ASSUME NEW j \in Jobs, PushAccepted(j) \/ PushUnacknowledged(j)
      PROVE  (tip' = tip \/ tip'.at = tip.at + 1) /\ tip'.objects = tip.objects
  <2>1. step[j] = "pushing" /\ FastForwards(j) /\ tip' = Pushed(j)
    BY <1>2 DEF PushAccepted, PushUnacknowledged, Moves
  <2> QED
    BY <2>1, PushKeepsObjects
<1>3. ASSUME NEW p \in Requests, PushToRequest(p) PROVE tip' = tip
  BY <1>3 DEF PushToRequest
<1>4. ASSUME NEW j \in Jobs, Job(j), ~PushAccepted(j), ~PushUnacknowledged(j) PROVE tip' = tip
  BY <1>4 DEF Job, TakeBase, Publish, Prune, PushRejected, Rebase, Stops
<1>5. UNCHANGED vars => tip' = tip
  BY DEF vars
<1> QED
  BY <1>1, <1>2, <1>3, <1>4, <1>5 DEF Next, Job, Settled

\* A commit of the branch stays one.
LEMMA BeforeStays ==
    ASSUME TypeOK, BranchInv, [Next]_vars, NEW d \in Commits, Before(d, tip)
    PROVE  Before(d, tip')
<1>1. tip' = tip \/ tip'.at = tip.at + 1
  BY TipMoves
<1>2. d.at \in Nat /\ tip.at \in Nat
  BY DEF TypeOK, Commits
<1> QED
  BY <1>1, <1>2 DEF Before

\* A job that commits does so on a commit of the branch, with its objects.
LEMMA CommitOnBranch ==
    ASSUME TypeOK, NEW j \in Jobs, NEW tree \in Trees, CommitAndPush(j, tree, start[j]),
           tree.objects = start[j].objects
    PROVE  /\ onto'[j] = start[j] /\ work'[j].objects = onto'[j].objects
           /\ \A k \in Jobs \ {j} : onto'[k] = onto[k] /\ work'[k] = work[k] /\ step'[k] = step[k]
BY DEF CommitAndPush, TypeOK

LEMMA NextBranchInv == TypeOK /\ TypeOK' /\ BranchInv /\ [Next]_vars => BranchInv'
<1> SUFFICES ASSUME TypeOK, TypeOK', BranchInv, [Next]_vars PROVE BranchInv'
  OBVIOUS
<1> USE DEF branchVars, requestVars
<1>1. \A d \in Commits : Before(d, tip) => Before(d, tip')
  BY BeforeStays
<1>2. /\ Before(Root, tip') /\ Before(tip, tip')
      /\ \A j \in Jobs : Before(start[j], tip') /\ Before(onto[j], tip')
  <2>1. tip \in Commits /\ Before(tip, tip)
    BY DEF TypeOK, Commits, Before
  <2> QED
    BY <1>1, <2>1, ConstantTypes DEF BranchInv, TypeOK
<1>3. ASSUME NEW j \in Jobs PROVE Before(start'[j], tip')
  <2>1. start'[j] \in {start[j], tip, tip', Root}
    <3>1. ASSUME NEW p \in Requests, PushToRequest(p) \/ Merge(p)
          PROVE  start'[j] \in {start[j], tip', Root}
      BY <3>1 DEF PushToRequest, Merge, Triggers, TypeOK
    <3>2. ASSUME NEW k \in Jobs, TakeBase(k) PROVE start'[j] \in {start[j], tip}
      BY <3>2 DEF TakeBase, TypeOK
    <3>3. ASSUME NEW k \in Jobs, Job(k), ~TakeBase(k) PROVE start' = start
      BY <3>3 DEF Job, Publish, Prune, PushAccepted, PushRejected, PushUnacknowledged, Rebase, Stops
    <3>4. UNCHANGED vars => start' = start
      BY DEF vars, jobVars
    <3> QED
      BY <3>1, <3>2, <3>3, <3>4 DEF Next, Settled
  <2>2. Before(tip', tip')
    BY DEF TypeOK, Commits, Before
  <2> QED
    BY <1>2, <2>1, <2>2
<1>4. ASSUME NEW j \in Jobs PROVE Before(onto'[j], tip') /\ OnlyShards(j)'
  <2> USE DEF BranchInv, OnlyShards
  <2>1. ASSUME NEW p \in Requests, PushToRequest(p) \/ Merge(p)
        PROVE  Before(onto'[j], tip') /\ OnlyShards(j)'
    <3>1. onto' = onto /\ work' = work /\ step'[j] \in {step[j], "queued"}
      BY <2>1 DEF PushToRequest, Merge, Triggers, TypeOK
    <3> QED
      BY <1>2, <3>1
  <2>2. ASSUME NEW k \in Jobs, TakeBase(k) PROVE Before(onto'[j], tip') /\ OnlyShards(j)'
    <3>1. onto' = onto /\ (j # k => work'[j] = work[j] /\ step'[j] = step[j])
                      /\ (j = k => step'[j] = "generating")
      BY <2>2 DEF TakeBase, TypeOK
    <3> QED
      BY <1>2, <3>1
  <2>3. ASSUME NEW k \in Jobs, Publish(k) \/ Prune(k)
        PROVE  Before(onto'[j], tip') /\ OnlyShards(j)'
    <3>1. PICK tree \in Trees : /\ CommitAndPush(k, tree, start[k])
                               /\ tree.objects = start[k].objects
      BY <2>3, CommittedTree
    <3>2. CASE j = k
      BY <1>2, <3>1, <3>2, CommitOnBranch
    <3>3. CASE j # k
      BY <1>2, <3>1, <3>3, CommitOnBranch
    <3> QED
      BY <3>2, <3>3
  <2>4. ASSUME NEW k \in Jobs, PushAccepted(k) \/ PushRejected(k) \/ Stops(k)
        PROVE  Before(onto'[j], tip') /\ OnlyShards(j)'
    <3>1. onto' = onto /\ work' = work
      BY <2>4 DEF PushAccepted, PushRejected, Stops
    <3>2. step'[j] \in {step[j], "ok", "failed"} \/ step[j] = "pushing"
      BY <2>4 DEF PushAccepted, PushRejected, Stops, Refused, TypeOK
    <3> QED
      BY <1>2, <3>1, <3>2
  <2>5. ASSUME NEW k \in Jobs, PushUnacknowledged(k)
        PROVE  Before(onto'[j], tip') /\ OnlyShards(j)'
    <3>1. /\ step[k] = "pushing" /\ FastForwards(k) /\ tip' = Pushed(k) /\ work' = work
          /\ onto' = [onto EXCEPT ![k] = Pushed(k)]
      BY <2>5 DEF PushUnacknowledged, Moves
    <3>2. CASE j = k
      <4>1. onto'[j] = tip' /\ work'[j].objects = tip'.objects
        BY <3>1, <3>2, PushKeepsObjects DEF TypeOK
      <4> QED
        BY <4>1 DEF TypeOK, Commits, Before
    <3>3. CASE j # k
      <4>1. onto'[j] = onto[j] /\ step'[j] = step[j]
        BY <2>5, <3>3 DEF PushUnacknowledged, Refused, TypeOK
      <4> QED
        BY <1>2, <3>1, <4>1
    <3> QED
      BY <3>2, <3>3
  <2>6. ASSUME NEW k \in Jobs, Rebase(k) PROVE Before(onto'[j], tip') /\ OnlyShards(j)'
    <3>1. /\ onto' = [onto EXCEPT ![k] = tip] /\ step[k] = "retrying" /\ tip' = tip
          /\ work' = [work EXCEPT ![k] =
                         [objects |-> Merged(onto[k].objects, work[k].objects, tip.objects),
                          shards  |-> Merged(onto[k].shards, work[k].shards, tip.shards)]]
      BY <2>6 DEF Rebase
    <3>2. Merged(onto[k].objects, work[k].objects, tip.objects) = tip.objects
      BY <3>1 DEF Merged, TypeOK, Commits, Edits
    <3>3. CASE j = k
      BY <1>2, <3>1, <3>2, <3>3 DEF TypeOK
    <3>4. CASE j # k
      BY <1>2, <2>6, <3>1, <3>4 DEF TypeOK, Rebase
    <3> QED
      BY <3>3, <3>4
  <2>7. UNCHANGED vars => onto' = onto /\ work' = work /\ step' = step
    BY DEF vars, jobVars
  <2> QED
    BY <1>2, <2>1, <2>2, <2>3, <2>4, <2>5, <2>6, <2>7 DEF Next, Job, Settled
<1> QED
  BY <1>2, <1>3, <1>4 DEF BranchInv

LEMMA Invariance == Spec => [](TypeOK /\ BranchInv)
<1> QED
  BY InitTypes, NextTypes, InitBranchInv, NextBranchInv, PTL DEF Spec

\* No job's push changes an object: a merge of the request that changes it does.
THEOREM JobsCarryOnlyShards == Spec => OnlyMergesChangeObjects
<1>1. ASSUME TypeOK, BranchInv, [Next]_vars, NEW o \in Objects,
             tip'.objects[o] # tip.objects[o]
      PROVE  \E p \in Requests : /\ state[p] = "open" /\ state'[p] = "merged"
                                /\ tip'.objects[o] = edits[p][o]
  BY <1>1, TipMoves DEF Over
<1>2. TypeOK /\ BranchInv /\ [Next]_vars =>
         [\A o \in Objects : tip'.objects[o] # tip.objects[o] =>
             \E p \in Requests : /\ state[p] = "open" /\ state'[p] = "merged"
                                /\ tip'.objects[o] = edits[p][o]]_vars
  BY <1>1
<1> QED
  BY <1>2, Invariance, PTL DEF Spec, OnlyMergesChangeObjects

(***************************************************************************)
(* What becomes of a shard. A job that commits owns what it wrote: its head *)
(* is fixed from then on, and the shards it wrote are not on the branch yet. *)
(* Whatever its push changes on its base is one of those or a removal, and  *)
(* a rebase keeps it so: a conflict stops the job, and what landed without  *)
(* the client knowing is in the base and is no longer a change.             *)
(***************************************************************************)

\* A job whose head is not going to change.
Fixed(j) == step[j] \in {"pushing", "retrying", "ok", "failed"}
Writes(j, o) == kind[j] = "publish" /\ Fixed(j) /\ head[j][o] # 0

\* A shard that left the branch.
Gone(o, s) == <<o, s>> \in seen /\ tip.shards[o] # s

\* Every shard of the commit c was on the branch.
FromBranch(c) == \A o \in Objects : c.shards[o] # NoShard => <<o, c.shards[o]>> \in seen

HadVersions(c) == \A o \in Objects : newest[o] >= c.objects[o]

\* What the push of j changes: removals of what the branch outgrew, and new shards of j.
ChangesAt(j, o) ==
    \/ work[j].shards[o] = onto[j].shards[o]
    \/ work[j].shards[o] = NoShard /\ newest[o] >= head[onto[j].shards[o]][o]
    \/ work[j].shards[o] = j /\ Writes(j, o) /\ <<o, j>> \notin seen

Unpushed(j) == step[j] \in {"pushing", "retrying"}

PublishedAt(j, o) == <<o, j>> \in seen \/ (Unpushed(j) /\ work[j].shards[o] = j)

PrunedAt(j, o) ==
    \/ Gone(o, start[j].shards[o])
    \/ Unpushed(j) /\ work[j].shards[o] = NoShard /\ onto[j].shards[o] = start[j].shards[o]

HistoryInv ==
    /\ \A o \in Objects, k \in Jobs : <<o, k>> \in seen => Writes(k, o)
    /\ FromBranch(tip) /\ HadVersions(tip)
    /\ \A j \in Jobs : FromBranch(start[j]) /\ HadVersions(start[j]) /\ FromBranch(onto[j])

JobInv(j) ==
    /\ j > triggered => step[j] = "none"
    /\ step[j] = "generating" => work[j].shards = start[j].shards /\ kind[j] = "publish"
    /\ Unpushed(j) => \A o \in Objects : ChangesAt(j, o)
    /\ kind[j] = "publish" /\ (Unpushed(j) \/ step[j] = "ok")
          => \A o \in Changed(head[j]) : PublishedAt(j, o)
    /\ kind[j] = "prune" /\ (Unpushed(j) \/ step[j] = "ok")
          => \A o \in Objects : Superseded(start[j], o) => PrunedAt(j, o)

ShardInv == HistoryInv /\ \A j \in Jobs : JobInv(j)

LEMMA InitShardInv == Init => ShardInv
<1> SUFFICES ASSUME Init PROVE ShardInv
  OBVIOUS
<1>1. HistoryInv
  BY DEF Init, HistoryInv, FromBranch, HadVersions, Root, NoFolder, NoEdits
<1>2. \A j \in Jobs : JobInv(j)
  BY DEF Init, JobInv, Unpushed, Jobs
<1> QED
  BY <1>1, <1>2 DEF ShardInv

\* Once a job has committed or failed, what it checked out is settled.
LEMMA FixedStays ==
    ASSUME TypeOK, ShardInv, [Next]_vars, NEW j \in Jobs, Fixed(j)
    PROVE  Fixed(j)' /\ head'[j] = head[j] /\ kind'[j] = kind[j]
<1> USE DEF requestVars, branchVars, Fixed
<1>1. j <= triggered /\ triggered \in Nat /\ j \in Nat
  BY DEF ShardInv, JobInv, TypeOK, Jobs
<1>2. ASSUME NEW p \in Requests, PushToRequest(p) \/ Merge(p)
      PROVE  Fixed(j)' /\ head'[j] = head[j] /\ kind'[j] = kind[j]
  <2>1. triggered' # j
    BY <1>1, <1>2 DEF PushToRequest, Merge, Triggers
  <2>2. step'[j] = step[j] /\ head'[j] = head[j] /\ kind'[j] = kind[j]
    BY <1>2, <2>1 DEF PushToRequest, Merge, Triggers, TypeOK
  <2> QED
    BY <2>2
<1>3. ASSUME NEW k \in Jobs, Job(k)
      PROVE  Fixed(j)' /\ head'[j] = head[j] /\ kind'[j] = kind[j]
  <2>1. CASE TakeBase(k) \/ Publish(k)
    BY <2>1 DEF TakeBase, Publish, CommitAndPush, TypeOK
  <2>2. CASE Prune(k)
    BY <2>2 DEF Prune, CommitAndPush, TypeOK
  <2>3. CASE PushAccepted(k) \/ Rebase(k) \/ Stops(k)
    BY <2>3 DEF PushAccepted, Rebase, Stops, TypeOK
  <2>4. CASE PushRejected(k) \/ PushUnacknowledged(k)
    BY <2>4 DEF PushRejected, PushUnacknowledged, Refused, TypeOK
  <2> QED
    BY <1>3, <2>1, <2>2, <2>3, <2>4 DEF Job
<1>4. UNCHANGED vars => step' = step /\ head' = head /\ kind' = kind
  BY DEF vars, jobVars
<1> QED
  BY <1>2, <1>3, <1>4 DEF Next, Settled

\* A shard that was on the branch has an owner, and the version it had.
LEMMA SeenStays ==
    ASSUME TypeOK, ShardInv, [Next]_vars, NEW o \in Objects, NEW k, <<o, k>> \in seen
    PROVE  k \in Jobs /\ Writes(k, o) /\ Writes(k, o)' /\ head'[k] = head[k]
<1>1. k \in Jobs /\ Writes(k, o)
  BY DEF TypeOK, ShardInv, HistoryInv
<1> QED
  BY <1>1, FixedStays DEF Writes

-----------------------------------------------------------------------------
\* What the branch has had, once its tip moved.
LEMMA MovesBranch ==
    ASSUME TypeOK, NEW c \in Commits, Moves(c)
    PROVE  /\ tip' = c /\ seen \subseteq seen'
           /\ \A o \in Objects : newest'[o] >= newest[o] /\ newest'[o] >= c.objects[o]
           /\ FromBranch(tip)' /\ HadVersions(tip)'
           /\ \A o \in Objects, k \in Jobs : <<o, k>> \in seen' =>
                 <<o, k>> \in seen \/ k = c.shards[o]
<1>1. tip' = c /\ seen \subseteq seen' /\ FromBranch(tip)'
  BY DEF Moves, FromBranch
<1>2. \A o \in Objects : newest'[o] >= newest[o] /\ newest'[o] >= c.objects[o]
  BY DEF Moves, TypeOK, Commits, Edits, Versions
<1>3. \A o \in Objects, k \in Jobs : <<o, k>> \in seen' => <<o, k>> \in seen \/ k = c.shards[o]
  BY DEF Moves
<1> QED
  BY <1>1, <1>2, <1>3 DEF HadVersions

\* The push of j lands on the tip.
Lands(j) ==
    /\ step[j] = "pushing" /\ step'[j] # "pushing" /\ onto[j] = tip
    /\ tip'.shards = work[j].shards
    /\ \A o \in Objects, k \in Jobs : <<o, k>> \in seen' =>
          <<o, k>> \in seen \/ k = work[j].shards[o]

Grows ==
    /\ seen \subseteq seen'
    /\ \A o \in Objects : newest'[o] >= newest[o]
    /\ FromBranch(tip)' /\ HadVersions(tip)'

LEMMA PushLands ==
    ASSUME TypeOK, BranchInv, NEW j \in Jobs, PushAccepted(j) \/ PushUnacknowledged(j)
    PROVE  Grows /\ Lands(j)
<1>1. step[j] = "pushing" /\ FastForwards(j) /\ Moves(Pushed(j)) /\ step'[j] # "pushing"
  BY DEF PushAccepted, PushUnacknowledged, Refused, TypeOK
<1>2. onto[j] = tip /\ Pushed(j).shards = work[j].shards
  BY <1>1 DEF BranchInv, Before, FastForwards, Pushed, Tree
<1> QED
  BY <1>1, <1>2, PushedType, MovesBranch DEF Grows, Lands

LEMMA MergeMoves ==
    ASSUME TypeOK, NEW p \in Requests, Merge(p)
    PROVE  \E c \in Commits : c.shards = tip.shards /\ Moves(c) /\ Triggers("prune", p, NoEdits, c)
<1> DEFINE c == [objects |-> Over(tip.objects, edits[p]), shards |-> tip.shards,
                 at |-> tip.at + 1]
<1>1. c \in Commits
  <2>1. tip \in [objects : Edits, shards : Folders, at : Nat] /\ edits[p] \in Edits
    BY DEF TypeOK, Commits
  <2>2. Over(tip.objects, edits[p]) \in Edits
    BY <2>1 DEF Over, Edits
  <2> QED
    BY <2>1, <2>2 DEF Commits
<1>2. Moves(c) /\ tip' = c /\ Triggers("prune", p, NoEdits, c)
  BY DEF Merge, Moves
<1> QED
  BY <1>1, <1>2

\* The branch grows; its shards change only when the push of a job lands.
LEMMA BranchSteps ==
    ASSUME TypeOK, BranchInv, ShardInv, [Next]_vars
    PROVE  /\ Grows
           /\ \/ tip'.shards = tip.shards /\ seen' = seen
              \/ \E j \in Jobs : Lands(j)
<1> USE DEF branchVars, requestVars
<1>1. ASSUME NEW p \in Requests, Merge(p)
      PROVE  Grows /\ tip'.shards = tip.shards /\ seen' = seen
  <2>1. PICK c \in Commits : c.shards = tip.shards /\ Moves(c)
    BY <1>1, MergeMoves
  <2>2. \A o \in Objects : c.shards[o] # NoShard => <<o, c.shards[o]>> \in seen
    BY <2>1 DEF ShardInv, HistoryInv, FromBranch
  <2>3. seen' = seen
    BY <2>1, <2>2 DEF Moves
  <2> QED
    BY <2>1, <2>3, MovesBranch DEF Grows
<1>2. UNCHANGED branchVars => Grows /\ tip'.shards = tip.shards /\ seen' = seen
  BY DEF Grows, ShardInv, HistoryInv, FromBranch, HadVersions, TypeOK, Edits, Versions
<1>3. ASSUME NEW p \in Requests, PushToRequest(p) PROVE UNCHANGED branchVars
  BY <1>3 DEF PushToRequest
<1>4. ASSUME NEW j \in Jobs, Job(j), ~PushAccepted(j), ~PushUnacknowledged(j)
      PROVE  UNCHANGED branchVars
  BY <1>4 DEF Job, TakeBase, Publish, Prune, PushRejected, Rebase, Stops
<1>5. UNCHANGED vars => UNCHANGED branchVars
  BY DEF vars
<1> QED
  BY <1>1, <1>2, <1>3, <1>4, <1>5, PushLands DEF Next, Job, Settled

\* What a push that lands changes: it removes the outgrown and adds its own.
LEMMA LandsChanges ==
    ASSUME TypeOK, ShardInv, NEW j \in Jobs, Lands(j), NEW o \in Objects
    PROVE  \/ tip'.shards[o] = tip.shards[o]
           \/ tip'.shards[o] = NoShard /\ newest[o] >= head[tip.shards[o]][o]
           \/ tip'.shards[o] = j /\ Writes(j, o) /\ <<o, j>> \notin seen
<1>1. ChangesAt(j, o)
  BY DEF ShardInv, JobInv, Unpushed, Lands
<1> QED
  BY <1>1 DEF ChangesAt, Lands

\* A shard that is new on the branch is of the job that pushes.
LEMMA NewShards ==
    ASSUME TypeOK, ShardInv, NEW j \in Jobs, Lands(j), NEW o \in Objects, NEW k \in Jobs,
           <<o, k>> \in seen', <<o, k>> \notin seen
    PROVE  k = j /\ Writes(j, o)
<1>1. k = tip'.shards[o] /\ k # NoShard
  BY DEF Lands, Jobs, NoShard
<1>2. k # tip.shards[o]
  BY <1>1 DEF ShardInv, HistoryInv, FromBranch
<1> QED
  BY <1>1, <1>2, LandsChanges

\* What left the branch stays away.
LEMMA GoneStays ==
    ASSUME TypeOK, BranchInv, ShardInv, [Next]_vars, NEW o \in Objects, NEW s, Gone(o, s)
    PROVE  Gone(o, s)'
<1>1. <<o, s>> \in seen' /\ s \in Jobs
  BY BranchSteps DEF Grows, Gone, TypeOK
<1>2. CASE tip'.shards = tip.shards
  BY <1>1, <1>2 DEF Gone
<1>3. CASE \E j \in Jobs : Lands(j)
  <2>1. PICK j \in Jobs : Lands(j)
    BY <1>3
  <2>2. s # NoShard /\ <<o, s>> \in seen /\ tip.shards[o] # s
    BY <1>1 DEF Gone, NoShard, Jobs
  <2>3. tip'.shards[o] # s
    BY <2>1, <2>2, LandsChanges
  <2> QED
    BY <1>1, <2>3 DEF Gone
<1> QED
  BY <1>1, <1>2, <1>3, BranchSteps

\* Where the commits that jobs work on come from.
LEMMA JobCommits ==
    ASSUME TypeOK, BranchInv, [Next]_vars, NEW j \in Jobs
    PROVE  /\ start'[j] \in {start[j], tip, tip', Root}
           /\ onto'[j] \in {onto[j], start[j], tip, tip'}
<1> USE DEF branchVars, requestVars
<1>1. ASSUME NEW p \in Requests, PushToRequest(p) \/ Merge(p)
      PROVE  start'[j] \in {start[j], tip', Root} /\ onto' = onto
  BY <1>1 DEF PushToRequest, Merge, Triggers, TypeOK
<1>2. ASSUME NEW k \in Jobs, TakeBase(k) PROVE start'[j] \in {start[j], tip} /\ onto' = onto
  BY <1>2 DEF TakeBase, TypeOK
<1>3. ASSUME NEW k \in Jobs, Job(k), ~TakeBase(k) PROVE start' = start
  BY <1>3 DEF Job, Publish, Prune, PushAccepted, PushRejected, PushUnacknowledged, Rebase, Stops
<1>4. ASSUME NEW k \in Jobs, Job(k), ~TakeBase(k)
      PROVE  onto'[j] \in {onto[j], start[j], tip, tip'}
  <2>1. CASE Publish(k) \/ Prune(k)
    <3>1. PICK tree \in Trees : CommitAndPush(k, tree, start[k])
      BY <2>1, CommittedTree
    <3> QED
      BY <3>1 DEF CommitAndPush, TypeOK
  <2>2. CASE PushUnacknowledged(k)
    BY <2>2 DEF PushUnacknowledged, Moves, TypeOK
  <2>3. CASE Rebase(k)
    BY <2>3 DEF Rebase, TypeOK
  <2>4. CASE PushAccepted(k) \/ PushRejected(k) \/ Stops(k)
    BY <2>4 DEF PushAccepted, PushRejected, Stops
  <2> QED
    BY <1>4, <2>1, <2>2, <2>3, <2>4 DEF Job
<1>5. UNCHANGED vars => start' = start /\ onto' = onto
  BY DEF vars, jobVars
<1> QED
  BY <1>1, <1>2, <1>3, <1>4, <1>5 DEF Next, Settled

LEMMA NextHistory ==
    ASSUME TypeOK, TypeOK', BranchInv, ShardInv, [Next]_vars
    PROVE  HistoryInv'
<1>1. ASSUME NEW o \in Objects, NEW k \in Jobs, <<o, k>> \in seen' PROVE Writes(k, o)'
  <2>1. CASE <<o, k>> \in seen
    BY <2>1, SeenStays
  <2>2. CASE <<o, k>> \notin seen
    <3>1. Writes(k, o)
      BY <1>1, <2>2, BranchSteps, NewShards
    <3> QED
      BY <3>1, FixedStays DEF Writes
  <2> QED
    BY <2>1, <2>2
<1>2. FromBranch(tip)' /\ HadVersions(tip)'
  BY BranchSteps DEF Grows
<1>3. \A o \in Objects : Root.shards[o] = NoShard /\ Root.objects[o] = 0
  BY DEF Root, NoFolder, NoEdits
<1>4. ASSUME NEW c \in {Root, tip, tip'} \cup {start[j] : j \in Jobs}
      PROVE  /\ \A o \in Objects : c.shards[o] # NoShard => <<o, c.shards[o]>> \in seen'
             /\ \A o \in Objects : newest'[o] >= c.objects[o]
  <2>1. c = tip' \/ (FromBranch(c) /\ HadVersions(c))
    BY <1>3 DEF ShardInv, HistoryInv, FromBranch, HadVersions, TypeOK, Edits, Versions
  <2>2. c \in Commits
    BY ConstantTypes DEF TypeOK
  <2>3. \A o \in Objects : newest'[o] >= newest[o] /\ newest[o] \in Nat /\ newest'[o] \in Nat
                             /\ c.objects[o] \in Nat
    BY <2>2, BranchSteps DEF Grows, TypeOK, Commits, Edits, Versions
  <2> QED
    BY <1>2, <2>1, <2>3, BranchSteps DEF Grows, FromBranch, HadVersions
<1>5. ASSUME NEW j \in Jobs
      PROVE  \A o \in Objects : onto[j].shards[o] # NoShard => <<o, onto[j].shards[o]>> \in seen'
  BY BranchSteps DEF Grows, ShardInv, HistoryInv, FromBranch
<1>6. ASSUME NEW j \in Jobs PROVE FromBranch(start[j])' /\ HadVersions(start[j])'
                                  /\ FromBranch(onto[j])'
  BY <1>4, <1>5, JobCommits DEF FromBranch, HadVersions
<1> QED
  BY <1>1, <1>2, <1>6 DEF HistoryInv

-----------------------------------------------------------------------------
\* A step that leaves j's own state alone, whatever it does to the branch.
Still(j) ==
    /\ kind'[j] = kind[j] /\ head'[j] = head[j] /\ start'[j] = start[j]
    /\ onto'[j] = onto[j] /\ work'[j] = work[j] /\ step'[j] = step[j]

\* A version a merge supersedes is superseded for good.
LEMMA SupersededStays ==
    ASSUME TypeOK, ShardInv, [Next]_vars, NEW j \in Jobs, start'[j] = start[j], NEW o \in Objects,
           Superseded(start[j], o)'
    PROVE  Superseded(start[j], o)
<1>1. start[j].shards[o] # NoShard => <<o, start[j].shards[o]>> \in seen
  BY DEF ShardInv, HistoryInv, FromBranch
<1> QED
  BY <1>1, SeenStays DEF Superseded

LEMMA StillChanges ==
    ASSUME TypeOK, TypeOK', BranchInv, ShardInv, [Next]_vars, NEW j \in Jobs, Still(j),
           Unpushed(j), NEW o \in Objects
    PROVE  ChangesAt(j, o)'
<1>1. ChangesAt(j, o)
  BY DEF ShardInv, JobInv
<1>2. CASE work[j].shards[o] = onto[j].shards[o]
  BY <1>2 DEF ChangesAt, Still
<1>3. CASE /\ work[j].shards[o] # onto[j].shards[o]
           /\ work[j].shards[o] = NoShard /\ newest[o] >= head[onto[j].shards[o]][o]
  <2> DEFINE s == onto[j].shards[o]
  <2>1. <<o, s>> \in seen
    BY <1>3 DEF ShardInv, HistoryInv, FromBranch
  <2>2. s \in Jobs /\ head'[s] = head[s]
    BY <2>1, SeenStays
  <2>3. newest'[o] >= newest[o] /\ newest'[o] \in Nat /\ newest[o] \in Nat /\ head[s][o] \in Nat
    BY <2>2, BranchSteps DEF Grows, TypeOK, Edits, Versions
  <2> QED
    BY <1>3, <2>2, <2>3 DEF ChangesAt, Still
<1>4. CASE work[j].shards[o] = j /\ Writes(j, o) /\ <<o, j>> \notin seen
  <2>1. Writes(j, o)'
    BY <1>4, FixedStays DEF Writes
  <2>2. <<o, j>> \notin seen'
    <3>1. SUFFICES ASSUME <<o, j>> \in seen' PROVE FALSE
      OBVIOUS
    <3>2. PICK k \in Jobs : Lands(k)
      BY <1>4, <3>1, BranchSteps
    <3>3. k = j
      BY <1>4, <3>1, <3>2, NewShards
    <3> QED
      BY <3>2, <3>3 DEF Lands, Still
  <2> QED
    BY <1>4, <2>1, <2>2 DEF ChangesAt, Still
<1> QED
  BY <1>1, <1>2, <1>3, <1>4 DEF ChangesAt

LEMMA StillJob ==
    ASSUME TypeOK, TypeOK', BranchInv, ShardInv, [Next]_vars, NEW j \in Jobs, Still(j),
           j > triggered' => step[j] = "none"
    PROVE  JobInv(j)'
<1>1. JobInv(j)
  BY DEF ShardInv
<1>2. \A o \in Objects : PublishedAt(j, o) => PublishedAt(j, o)'
  BY BranchSteps DEF PublishedAt, Grows, Unpushed, Still
<1>3. \A o \in Objects : PrunedAt(j, o) => PrunedAt(j, o)'
  <2>1. \A o \in Objects : Gone(o, start[j].shards[o]) => Gone(o, start[j].shards[o])'
    BY GoneStays DEF Still
  <2> QED
    BY <2>1 DEF PrunedAt, Unpushed, Still
<1>4. Unpushed(j)' => \A o \in Objects : ChangesAt(j, o)'
  BY StillChanges DEF Unpushed, Still
<1>5. \A o \in Objects : Superseded(start[j], o)' => Superseded(start[j], o)
  BY SupersededStays DEF Still
<1>6. Unpushed(j)' = Unpushed(j) /\ Changed(head[j])' = Changed(head[j])
  BY DEF Unpushed, Changed, Still
<1>7. \A o \in Changed(head[j]) : o \in Objects
  BY DEF Changed
<1>8. step'[j] = "generating" => work'[j].shards = start'[j].shards /\ kind'[j] = "publish"
  BY <1>1 DEF Still, JobInv
<1>9. kind'[j] = "publish" /\ (Unpushed(j)' \/ step'[j] = "ok")
         => \A o \in Changed(head[j])' : PublishedAt(j, o)'
  BY <1>1, <1>2, <1>6, <1>7 DEF Still, JobInv
<1>10. kind'[j] = "prune" /\ (Unpushed(j)' \/ step'[j] = "ok")
          => \A o \in Objects : Superseded(start[j], o)' => PrunedAt(j, o)'
  BY <1>1, <1>3, <1>5, <1>6 DEF Still, JobInv
<1>11. j > triggered' => step'[j] = "none"
  BY DEF Still
<1> QED
  BY <1>4, <1>8, <1>9, <1>10, <1>11 DEF JobInv

-----------------------------------------------------------------------------
\* A job that is over without a push has nothing to keep.
LEMMA EndedJob ==
    ASSUME NEW j \in Jobs, step'[j] \in {"queued", "failed"}, ~(j > triggered')
    PROVE  JobInv(j)'
BY DEF JobInv, Unpushed

LEMMA JobRuns ==
    ASSUME TypeOK, ShardInv, NEW j \in Jobs, step[j] # "none"
    PROVE  ~(j > triggered)
BY DEF ShardInv, JobInv

LEMMA TriggersJobs ==
    ASSUME TypeOK, TypeOK', BranchInv, ShardInv, [Next]_vars,
           NEW p \in Requests, PushToRequest(p) \/ Merge(p), NEW j \in Jobs
    PROVE  JobInv(j)'
<1>1. /\ triggered' = triggered + 1 /\ triggered' \in Jobs
      /\ onto' = onto /\ work' = work
  BY InflightAssumption DEF PushToRequest, Merge, Triggers, TypeOK, Jobs
<1>2. CASE j = triggered'
  <2>1. step'[j] = "queued"
    BY <1>1, <1>2 DEF PushToRequest, Merge, Triggers, TypeOK
  <2>2. ~(j > triggered')
    BY <1>2 DEF Jobs
  <2> QED
    BY <2>1, <2>2, EndedJob
<1>3. CASE j # triggered'
  <2>1. Still(j)
    BY <1>1, <1>3 DEF PushToRequest, Merge, Triggers, TypeOK, Still
  <2>2. j > triggered' => step[j] = "none"
    BY <1>1 DEF ShardInv, JobInv, TypeOK, Jobs
  <2> QED
    BY <2>1, <2>2, StillJob
<1> QED
  BY <1>2, <1>3

LEMMA OtherJobs ==
    ASSUME TypeOK, TypeOK', BranchInv, ShardInv, [Next]_vars, NEW k \in Jobs, Job(k),
           NEW j \in Jobs, j # k
    PROVE  JobInv(j)'
<1> USE DEF requestVars, branchVars
<1>1. triggered' = triggered /\ kind' = kind
  BY DEF Job, TakeBase, Publish, Prune, PushAccepted, PushRejected, PushUnacknowledged, Rebase,
         Stops
<1>2. head'[j] = head[j] /\ start'[j] = start[j]
  BY DEF Job, TakeBase, Publish, Prune, PushAccepted, PushRejected, PushUnacknowledged, Rebase,
         Stops, TypeOK
<1>3. onto'[j] = onto[j] /\ work'[j] = work[j] /\ step'[j] = step[j]
  <2>1. CASE Publish(k) \/ Prune(k)
    <3>1. PICK tree \in Trees : CommitAndPush(k, tree, start[k])
      BY <2>1, CommittedTree
    <3> QED
      BY <3>1 DEF CommitAndPush, TypeOK
  <2>2. CASE TakeBase(k) \/ PushAccepted(k) \/ Rebase(k) \/ Stops(k)
    BY <2>2 DEF TakeBase, PushAccepted, Rebase, Stops, TypeOK
  <2>3. CASE PushRejected(k) \/ PushUnacknowledged(k)
    BY <2>3 DEF PushRejected, PushUnacknowledged, Refused, TypeOK
  <2> QED
    BY <2>1, <2>2, <2>3 DEF Job
<1>4. j > triggered' => step[j] = "none"
  BY <1>1 DEF ShardInv, JobInv
<1> QED
  BY <1>1, <1>2, <1>3, <1>4, StillJob DEF Still

LEMMA TakesBaseJob ==
    ASSUME TypeOK, ShardInv, NEW j \in Jobs, TakeBase(j)
    PROVE  JobInv(j)'
<1>1. step'[j] = "generating" /\ kind'[j] = "publish" /\ triggered' = triggered
  BY DEF TakeBase, TypeOK
<1>2. work'[j].shards = start'[j].shards
  BY DEF TakeBase, BaseFolder, TypeOK
<1>3. ~(j > triggered')
  BY <1>1, JobRuns DEF TakeBase
<1> QED
  BY <1>1, <1>2, <1>3 DEF JobInv, Unpushed

\* What a publishing job wrote is new: it differs from all that was on the branch.
LEMMA PublishesJob ==
    ASSUME TypeOK, TypeOK', BranchInv, ShardInv, [Next]_vars, NEW j \in Jobs, Publish(j)
    PROVE  JobInv(j)'
<1> USE DEF requestVars, branchVars
<1>1. PICK written \in Diffs(j) :
        /\ \A o \in written : Checkout(j)[o] # 0
        /\ head' = [head EXCEPT ![j] =
                       [o \in Objects |-> IF o \in written THEN Checkout(j)[o] ELSE 0]]
        /\ CommitAndPush(j,
              [objects |-> Worktree(j).objects,
               shards  |-> [o \in Objects |-> IF o \in written THEN j ELSE work[j].shards[o]]],
              Worktree(j))
  BY DEF Publish
<1>2. step[j] = "generating" /\ kind[j] = "publish" /\ work[j].shards = start[j].shards
  BY DEF Publish, ShardInv, JobInv
<1>3. kind' = kind /\ triggered' = triggered /\ seen' = seen /\ start' = start
  BY DEF Publish
<1>4. \A o \in Objects : <<o, j>> \notin seen
  BY <1>2 DEF ShardInv, HistoryInv, Writes, Fixed
<1>5. \A o \in Objects : start[j].shards[o] # j
  <2>1. j # NoShard
    BY DEF NoShard, Jobs
  <2>2. FromBranch(start[j])
    BY DEF ShardInv, HistoryInv
  <2> QED
    BY <1>4, <2>1, <2>2 DEF FromBranch
<1>6. /\ onto'[j] = start[j] /\ step'[j] \in {"ok", "pushing"}
      /\ work'[j].shards = [o \in Objects |-> IF o \in written THEN j ELSE start[j].shards[o]]
      /\ step'[j] = "ok" => work'[j].shards = start[j].shards
  BY <1>1, <1>2 DEF CommitAndPush, Worktree, NothingStaged, Tree, TypeOK
<1>7. ASSUME NEW o \in Objects
      PROVE  /\ head'[j][o] # 0 <=> o \in written
             /\ work'[j].shards[o] = IF o \in written THEN j ELSE start[j].shards[o]
  BY <1>1, <1>6 DEF TypeOK
<1>8. ASSUME NEW o \in Objects PROVE ChangesAt(j, o)'
  <2>1. CASE o \in written
    BY <1>2, <1>3, <1>4, <1>6, <1>7, <2>1 DEF ChangesAt, Writes, Fixed
  <2>2. CASE o \notin written
    BY <1>6, <1>7, <2>2 DEF ChangesAt
  <2> QED
    BY <2>1, <2>2
<1>9. ASSUME NEW o \in Objects, head'[j][o] # 0 PROVE PublishedAt(j, o)'
  <2>1. step'[j] = "pushing"
    BY <1>5, <1>6, <1>7, <1>9
  <2> QED
    BY <1>7, <1>9, <2>1 DEF PublishedAt, Unpushed
<1>10. ~(j > triggered')
  BY <1>2, <1>3, JobRuns
<1>11. kind'[j] = "publish"
  BY <1>2, <1>3
<1> QED
  BY <1>6, <1>8, <1>9, <1>10, <1>11 DEF JobInv, Unpushed, Changed

\* A pruning job removes exactly what its merge superseded.
LEMMA PrunesJob ==
    ASSUME TypeOK, TypeOK', BranchInv, ShardInv, [Next]_vars, NEW j \in Jobs, Prune(j)
    PROVE  JobInv(j)'
<1> USE DEF requestVars, branchVars
<1>1. /\ kind[j] = "prune" /\ step[j] = "queued" /\ kind' = kind /\ triggered' = triggered
      /\ head' = head /\ start' = start /\ seen' = seen /\ newest' = newest
  BY DEF Prune
<1>2. /\ onto'[j] = start[j] /\ step'[j] \in {"ok", "pushing"}
      /\ work'[j].shards = [o \in Objects |-> IF Superseded(start[j], o) THEN NoShard
                                                             ELSE start[j].shards[o]]
      /\ step'[j] = "ok" => work'[j].shards = start[j].shards
  BY DEF Prune, CommitAndPush, NothingStaged, Tree, TypeOK
<1>3. ASSUME NEW o \in Objects
      PROVE  work'[j].shards[o] = IF Superseded(start[j], o) THEN NoShard ELSE start[j].shards[o]
  BY <1>2
<1>4. ASSUME NEW o \in Objects PROVE ChangesAt(j, o)'
  <2>1. CASE Superseded(start[j], o)
    <3> DEFINE s == start[j].shards[o]
    <3>1. s \in Jobs /\ start[j].objects[o] >= head[s][o]
      BY <2>1 DEF Superseded, TypeOK, Commits, Folders
    <3>2. /\ newest[o] \in Nat /\ start[j].objects[o] \in Nat /\ head[s][o] \in Nat
          /\ newest[o] >= start[j].objects[o]
      BY <3>1 DEF TypeOK, Commits, Edits, Versions, ShardInv, HistoryInv, HadVersions
    <3>3. newest'[o] >= head'[s][o]
      BY <1>1, <3>1, <3>2
    <3> QED
      BY <1>2, <1>3, <2>1, <3>3 DEF ChangesAt
  <2>2. CASE ~Superseded(start[j], o)
    BY <1>2, <1>3, <2>2 DEF ChangesAt
  <2> QED
    BY <2>1, <2>2
<1>5. ASSUME NEW o \in Objects, Superseded(start[j], o)' PROVE PrunedAt(j, o)'
  <2>1. Superseded(start[j], o)
    BY <1>1, <1>5 DEF Superseded
  <2>2. work'[j].shards[o] = NoShard /\ start[j].shards[o] # NoShard
    BY <1>3, <2>1 DEF Superseded
  <2>3. step'[j] = "pushing"
    BY <1>2, <2>2
  <2> QED
    BY <1>1, <1>2, <2>2, <2>3 DEF PrunedAt, Unpushed
<1>6. ~(j > triggered')
  BY <1>1, JobRuns
<1>7. kind'[j] = "prune" /\ step'[j] # "generating"
  BY <1>1, <1>2
<1> QED
  BY <1>4, <1>5, <1>6, <1>7 DEF JobInv

\* Once a push landed, all that the job wrote was on the branch, and all that it
\* removed is gone.
LEMMA LandedJob ==
    ASSUME TypeOK, TypeOK', BranchInv, ShardInv, [Next]_vars, NEW j \in Jobs, Lands(j),
           tip'.shards = work[j].shards, seen' = seen \cup {<<o, work[j].shards[o]>> :
               o \in {x \in Objects : work[j].shards[x] # NoShard}},
           kind'[j] = kind[j], head'[j] = head[j], start'[j] = start[j]
    PROVE  /\ kind[j] = "publish" => \A o \in Changed(head[j])' : <<o, j>> \in seen'
           /\ kind[j] = "prune" => \A o \in Objects : Superseded(start[j], o)' =>
                 Gone(o, start[j].shards[o])'
<1>1. JobInv(j) /\ Unpushed(j)
  BY DEF ShardInv, Lands, Unpushed
<1>2. ASSUME kind[j] = "publish", NEW o \in Changed(head[j])' PROVE <<o, j>> \in seen'
  <2>1. o \in Changed(head[j]) /\ o \in Objects
    BY <1>2 DEF Changed
  <2>2. PublishedAt(j, o)
    BY <1>1, <1>2, <2>1 DEF JobInv
  <2>3. j # NoShard
    BY DEF NoShard, Jobs
  <2> QED
    BY <2>1, <2>2, <2>3 DEF PublishedAt
<1>3. ASSUME kind[j] = "prune", NEW o \in Objects, Superseded(start[j], o)'
      PROVE  Gone(o, start[j].shards[o])'
  <2>1. Superseded(start[j], o)
    BY <1>3, SupersededStays
  <2>2. PrunedAt(j, o)
    BY <1>1, <1>3, <2>1 DEF JobInv
  <2>3. CASE Gone(o, start[j].shards[o])
    BY <2>3, GoneStays
  <2>4. CASE work[j].shards[o] = NoShard
    <3>1. start[j].shards[o] # NoShard /\ <<o, start[j].shards[o]>> \in seen
      BY <2>1 DEF Superseded, ShardInv, HistoryInv, FromBranch
    <3> QED
      BY <2>4, <3>1 DEF Gone
  <2> QED
    BY <2>2, <2>3, <2>4 DEF PrunedAt
<1> QED
  BY <1>2, <1>3

LEMMA PushesJob ==
    ASSUME TypeOK, TypeOK', BranchInv, ShardInv, [Next]_vars, NEW j \in Jobs,
           PushAccepted(j) \/ PushUnacknowledged(j)
    PROVE  JobInv(j)'
<1>1. /\ step[j] = "pushing" /\ step'[j] \in {"ok", "retrying", "failed"}
      /\ triggered' = triggered /\ kind' = kind /\ head' = head /\ start' = start /\ work' = work
  BY DEF PushAccepted, PushUnacknowledged, Refused, TypeOK
<1>2. Lands(j)
  BY PushLands
<1>3. tip' = Pushed(j) /\ Pushed(j).shards = work[j].shards
  BY <1>2 DEF PushAccepted, PushUnacknowledged, Moves, Lands
<1>4. seen' = seen \cup {<<o, work[j].shards[o]>> :
                          o \in {x \in Objects : work[j].shards[x] # NoShard}}
  BY <1>3 DEF PushAccepted, PushUnacknowledged, Moves
<1>5. /\ kind[j] = "publish" => \A o \in Changed(head[j])' : <<o, j>> \in seen'
      /\ kind[j] = "prune" => \A o \in Objects : Superseded(start[j], o)' =>
            Gone(o, start[j].shards[o])'
  BY <1>1, <1>2, <1>3, <1>4, LandedJob
<1>6. step'[j] = "retrying" => \A o \in Objects : ChangesAt(j, o)'
  <2>1. step'[j] = "retrying" => onto'[j] = Pushed(j)
    BY <1>1 DEF PushAccepted, PushUnacknowledged, TypeOK
  <2> QED
    BY <1>1, <1>3, <2>1 DEF ChangesAt
<1>7. ~(j > triggered')
  BY <1>1, JobRuns
<1>8. start'[j] = start[j] /\ kind'[j] = kind[j]
  BY <1>1
<1> QED
  BY <1>1, <1>5, <1>6, <1>7, <1>8 DEF JobInv, Unpushed, PublishedAt, PrunedAt

LEMMA RefusedJob ==
    ASSUME TypeOK, ShardInv, NEW j \in Jobs, PushRejected(j)
    PROVE  JobInv(j)'
<1> USE DEF branchVars, requestVars
<1>1. /\ step[j] = "pushing" /\ step'[j] \in {"retrying", "failed"}
      /\ UNCHANGED <<tip, seen, newest, triggered, kind, head, start, onto, work>>
  BY DEF PushRejected, Refused, TypeOK
<1>2. ~(j > triggered')
  BY <1>1, JobRuns
<1>3. CASE step'[j] = "failed"
  BY <1>2, <1>3, EndedJob
<1>4. CASE step'[j] = "retrying"
  <2>1. JobInv(j)
    BY DEF ShardInv
  <2>2. Unpushed(j) /\ Unpushed(j)'
    BY <1>1, <1>4 DEF Unpushed
  <2>3. \A o \in Objects : ChangesAt(j, o)'
    BY <1>1, <1>4, <2>1, <2>2 DEF JobInv, ChangesAt, Writes, Fixed
  <2>4. kind[j] = "publish" => \A o \in Changed(head[j]) : PublishedAt(j, o)'
    BY <1>1, <2>1, <2>2 DEF JobInv, PublishedAt
  <2>5. kind[j] = "prune" => \A o \in Objects : Superseded(start[j], o) => PrunedAt(j, o)'
    BY <1>1, <2>1, <2>2 DEF JobInv, PrunedAt, Gone
  <2>6. Changed(head[j])' = Changed(head[j])
    BY <1>1 DEF Changed
  <2>7. \A o \in Objects : Superseded(start[j], o)' = Superseded(start[j], o)
    BY <1>1 DEF Superseded
  <2> QED
    BY <1>1, <1>2, <1>4, <2>3, <2>4, <2>5, <2>6, <2>7 DEF JobInv
<1> QED
  BY <1>1, <1>3, <1>4

\* A rebase takes over what others did, and keeps what the job does.
LEMMA RebasesJob ==
    ASSUME TypeOK, TypeOK', BranchInv, ShardInv, [Next]_vars, NEW j \in Jobs, Rebase(j)
    PROVE  JobInv(j)'
<1> USE DEF branchVars, requestVars
<1>1. /\ step[j] = "retrying" /\ step'[j] = "pushing" /\ onto'[j] = tip
      /\ UNCHANGED <<tip, seen, newest, triggered, kind, head, start>>
      /\ ~Conflict(onto[j].shards, work[j].shards, tip.shards)
      /\ work'[j].shards = Merged(onto[j].shards, work[j].shards, tip.shards)
  BY DEF Rebase, TypeOK
<1>2. JobInv(j) /\ Unpushed(j) /\ Unpushed(j)'
  BY <1>1 DEF ShardInv, Unpushed
<1>3. ASSUME NEW o \in Objects
      PROVE  \/ /\ work[j].shards[o] = onto[j].shards[o]
                /\ work'[j].shards[o] = tip.shards[o]
             \/ /\ work[j].shards[o] # onto[j].shards[o]
                /\ work'[j].shards[o] = work[j].shards[o]
                /\ tip.shards[o] \in {onto[j].shards[o], work[j].shards[o]}
  BY <1>1 DEF Merged, Conflict
<1>4. ASSUME NEW o \in Objects PROVE ChangesAt(j, o)'
  <2>1. ChangesAt(j, o)
    BY <1>2 DEF JobInv
  <2> QED
    BY <1>1, <1>3, <2>1 DEF ChangesAt, Writes, Fixed
<1>5. ASSUME kind[j] = "publish", NEW o \in Changed(head[j]) PROVE PublishedAt(j, o)'
  <2>1. PublishedAt(j, o) /\ o \in Objects
    BY <1>2, <1>5 DEF JobInv, Changed
  <2>2. work[j].shards[o] = j /\ work[j].shards[o] = onto[j].shards[o] => <<o, j>> \in seen
    <3>1. j # NoShard
      BY DEF NoShard, Jobs
    <3> QED
      BY <2>1, <3>1 DEF ShardInv, HistoryInv, FromBranch
  <2> QED
    BY <1>1, <1>2, <1>3, <2>1, <2>2 DEF PublishedAt
<1>6. ASSUME kind[j] = "prune", NEW o \in Objects, Superseded(start[j], o)
      PROVE  PrunedAt(j, o)'
  <2>1. PrunedAt(j, o)
    BY <1>2, <1>6 DEF JobInv
  <2>2. start[j].shards[o] # NoShard /\ <<o, start[j].shards[o]>> \in seen
    BY <1>6 DEF Superseded, ShardInv, HistoryInv, FromBranch
  <2>3. CASE Gone(o, start[j].shards[o])
    BY <1>1, <2>3 DEF PrunedAt, Gone
  <2>4. CASE work[j].shards[o] = NoShard /\ onto[j].shards[o] = start[j].shards[o]
    BY <1>1, <1>2, <1>3, <2>2, <2>4 DEF PrunedAt, Gone
  <2> QED
    BY <2>1, <2>3, <2>4 DEF PrunedAt
<1>7. Changed(head[j])' = Changed(head[j])
  BY <1>1 DEF Changed
<1>8. \A o \in Objects : Superseded(start[j], o)' = Superseded(start[j], o)
  BY <1>1 DEF Superseded
<1>9. ~(j > triggered')
  BY <1>1, JobRuns
<1> QED
  BY <1>1, <1>4, <1>5, <1>6, <1>7, <1>8, <1>9 DEF JobInv

LEMMA NextShardInv == TypeOK /\ TypeOK' /\ BranchInv /\ ShardInv /\ [Next]_vars => ShardInv'
<1> SUFFICES ASSUME TypeOK, TypeOK', BranchInv, ShardInv, [Next]_vars, NEW j \in Jobs
             PROVE  JobInv(j)'
  BY NextHistory DEF ShardInv
<1>1. ASSUME NEW p \in Requests, PushToRequest(p) \/ Merge(p) PROVE JobInv(j)'
  BY <1>1, TriggersJobs
<1>2. ASSUME NEW k \in Jobs, Job(k), k # j PROVE JobInv(j)'
  BY <1>2, OtherJobs
<1>3. ASSUME Stops(j) PROVE JobInv(j)'
  <2>1. step'[j] = "failed" /\ triggered' = triggered /\ step[j] # "none"
    BY <1>3 DEF Stops, Active, TypeOK
  <2> QED
    BY <2>1, JobRuns, EndedJob
<1>4. ASSUME Job(j) PROVE JobInv(j)'
  BY <1>3, <1>4, TakesBaseJob, PublishesJob, PrunesJob, PushesJob, RefusedJob, RebasesJob DEF Job
<1>5. ASSUME UNCHANGED vars PROVE JobInv(j)'
  <2>1. Still(j) /\ triggered' = triggered
    BY <1>5 DEF vars, jobVars, Still
  <2> QED
    BY <2>1, StillJob DEF ShardInv, JobInv
<1> QED
  BY <1>1, <1>2, <1>4, <1>5 DEF Next, Settled

LEMMA ShardInvariance == Spec => [](TypeOK /\ BranchInv /\ ShardInv)
<1> QED
  BY InitTypes, NextTypes, InitBranchInv, NextBranchInv, InitShardInv, NextShardInv, PTL DEF Spec

\* A publishing job that ends green had every shard it wrote on the branch.
THEOREM GreenJobsPublished == Spec => []GreenIsPublished
<1>1. ShardInv => GreenIsPublished
  BY DEF ShardInv, JobInv, PublishedAt, Unpushed, GreenIsPublished
<1> QED
  BY <1>1, ShardInvariance, PTL

\* What a green pruning job's merge had superseded is not on the branch again.
THEOREM GreenJobsPruned == Spec => []GreenIsPruned
<1>1. ShardInv => GreenIsPruned
  BY DEF ShardInv, JobInv, PrunedAt, Unpushed, Gone, Superseded, GreenIsPruned
<1> QED
  BY <1>1, ShardInvariance, PTL

\* Jobs replace a shard only by one of their request's, and remove only what the
\* branch outgrew.
THEOREM JobsKeepOthersShards == Spec => OthersShardsKept
<1>1. ASSUME TypeOK, BranchInv, ShardInv, [Next]_vars, NEW o \in Objects,
             tip'.shards[o] # tip.shards[o]
      PROVE  IF tip'.shards[o] = NoShard
             THEN newest[o] >= head[tip.shards[o]][o]
             ELSE step[tip'.shards[o]] = "pushing" /\ head[tip'.shards[o]][o] # 0
  <2>1. PICK j \in Jobs : Lands(j)
    BY <1>1, BranchSteps
  <2>2. j # NoShard
    BY DEF NoShard, Jobs
  <2>3. step[j] = "pushing"
    BY <2>1 DEF Lands
  <2>4. \/ tip'.shards[o] = NoShard /\ newest[o] >= head[tip.shards[o]][o]
        \/ tip'.shards[o] = j /\ head[j][o] # 0
    BY <1>1, <2>1, LandsChanges DEF Writes
  <2> QED
    BY <2>2, <2>3, <2>4
<1>2. TypeOK /\ BranchInv /\ ShardInv /\ [Next]_vars =>
         [\A o \in Objects : tip'.shards[o] # tip.shards[o] =>
             IF tip'.shards[o] = NoShard
             THEN newest[o] >= head[tip.shards[o]][o]
             ELSE LET j == tip'.shards[o]
                  IN step[j] = "pushing" /\ head[j][o] # 0]_vars
  BY <1>1
<1> QED
  BY <1>2, ShardInvariance, PTL DEF Spec, OthersShardsKept

\* A shard that left the branch never comes back.
THEOREM ShardsStayGone == Spec => GoneStaysGone
<1>1. ASSUME TypeOK, BranchInv, ShardInv, [Next]_vars, NEW o \in Objects,
             tip'.shards[o] \notin {NoShard, tip.shards[o]}
      PROVE  <<o, tip'.shards[o]>> \notin seen
  BY <1>1, BranchSteps, LandsChanges
<1>2. TypeOK /\ BranchInv /\ ShardInv /\ [Next]_vars =>
         [\A o \in Objects : tip'.shards[o] \notin {NoShard, tip.shards[o]} =>
             <<o, tip'.shards[o]>> \notin seen]_vars
  BY <1>1
<1> QED
  BY <1>2, ShardInvariance, PTL DEF Spec, GoneStaysGone
=============================================================================
