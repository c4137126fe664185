----------------------- MODULE ProductionDeploySafety -----------------------
(***************************************************************************)
(* Theorems of ProductionDeploy about the branch and the tenants, over the   *)
(* invariants of ProductionDeployProofs. For every value of the constants:    *)
(*   DropsReported         no live rule's id is dropped without a report     *)
(* With one production job at a time and no hand edits:                      *)
(*   NoRuleTwice           no rule is made twice on a tenant                 *)
(*   QueuedRunsLandWhole, QueuedRunsKeepOthers, QueuedRunsAreDeltas          *)
(*                         what a run's push does to the branch              *)
(* and, oldest first and each job run once:                                  *)
(*   NewestMergeStands     the tenants are as the newest merges asked        *)
(***************************************************************************)
EXTENDS ProductionDeployProofs, FiniteSetTheorems

USE DEF branchVars, vendorVars, deployVars, commitVars, runnerVars

-----------------------------------------------------------------------------
(***************************************************************************)
(* NothingDroppedSilently. An id is spent at a binding when no handle on a   *)
(* live rule is lost with it: there is none, the rule is gone, or the branch *)
(* dropped it in a conflict that was reported. A commit is harmless when     *)
(* every id it changes away from is spent.                                  *)
(***************************************************************************)
Spent(b, x) == x = NoId \/ x \notin remote[b] \/ \E c \in conflicts : c[1] = b /\ c[3] = x
Harmless ==
    {c \in Commits : \A b \in Bindings : c.parent[b] = c.tree[b] \/ Spent(b, c.parent[b])}

\* A job's commits are harmless, and so is going from its overlay to what it holds,
\* which is what a cancelled write-back commits again.
HarmlessInv(j) ==
    /\ head[j] \in Harmless /\ stateCommit[j] \in Harmless
    /\ Commit(stateBase[j], work[j]) \in Harmless
    /\ Pushing(j) => /\ Commit(stateBase[j], head[j].tree) \in Harmless
                     /\ Commit(stateBase[j], stateCommit[j].tree) \in Harmless
    /\ phase[j] = "forgetting" => \A b \in pending[j].at : stateBase[j][b] \notin remote[b]
    /\ carries[j] = "nothing" => head[j].tree \in PublicMaps

\* A rule's id is live at the one binding it was made for.
MadeInv == \A b \in Bindings : \A id \in remote[b] : fate[id] # "free"
HomeInv == \A b, c \in Bindings : \A id \in remote[b] : id \in remote[c] => b = c
HomeOf(j) ==
    /\ \A b, c \in Bindings : IsRecorded(work[j][b]) /\ work[j][b] \in remote[c] => b = c
    /\ \A b \in pending[j].at : \A c \in Bindings : pending[j].id \in remote[c] => b = c

PlaceInv(j) == Placed(j) /\ AtTip(j)

DropInv ==
    /\ IdInv
    /\ MadeInv /\ HomeInv
    /\ tip \in Harmless
    /\ NothingDroppedSilently
    /\ \A j \in AllJobs : HomeOf(j) /\ HarmlessInv(j) /\ PlaceInv(j)

LEMMA DropInit == Init => DropInv
<1> SUFFICES ASSUME Init PROVE DropInv
  OBVIOUS
<1>1. Commit(NoShards, NoShards) \in Harmless
  BY ShardTypes, CommitType, CommitFields DEF Harmless
<1>0. NoShards \in PublicMaps
  BY ShardTypes DEF PublicMaps, NoShards
<1>2. \A j \in AllJobs : HarmlessInv(j) /\ HomeOf(j) /\ PlaceInv(j)
  BY <1>0, <1>1, CommitFields
  DEF Init, HarmlessInv, HomeOf, PlaceInv, Placed, AtTip, IsRecorded, NoShards, NoPending,
     Pushing, Active, Deploying, WritingBack
<1>3. MadeInv /\ HomeInv /\ tip \in Harmless /\ NothingDroppedSilently
  BY <1>1 DEF Init, MadeInv, HomeInv, NothingDroppedSilently
<1> QED
  BY <1>2, <1>3, IdInit DEF DropInv

(***************************************************************************)
(* What any step does to the vendors' rules and the reports: reports stay,   *)
(* no id is free again, and rules go, or the next id's is made.              *)
(***************************************************************************)
Shrinks == \A b \in Bindings : remote'[b] \subseteq remote[b]
Makes(c) ==
    /\ nextId \in Ids /\ fate'[nextId] \in {"pending", "unknown"}
    /\ \A b \in Bindings : remote'[b] = IF b = c THEN remote[b] \cup {nextId} ELSE remote[b]
WorldStep ==
    /\ conflicts \subseteq conflicts'
    /\ \A id \in Ids : fate'[id] = "free" => fate[id] = "free"
    /\ Shrinks \/ \E c \in Bindings : Makes(c)

LEMMA WorldDeploy ==
    ASSUME IdInv, NEW i \in AllJobs, Deploy(i)
    PROVE  WorldStep
<1>0. /\ remote \in [Bindings -> SUBSET Ids] /\ fate \in [Ids -> Fates]
      /\ pending[i] \in Pendings
  BY DEF IdInv, IInv, TypeOK, VendorTypes, HistoryTypes, DeployTypes
<1>1. ASSUME NEW b \in Bindings, CreateAnswered(i, b) \/ CreateUnanswered(i, b) PROVE WorldStep
  <2>1. Makes(b) /\ conflicts' = conflicts
    BY <1>0, <1>1 DEF CreateAnswered, CreateUnanswered, Makes
  <2>2. \A id \in Ids : fate'[id] = "free" => fate[id] = "free"
    BY <1>0, <1>1 DEF CreateAnswered, CreateUnanswered
  <2> QED
    BY <2>1, <2>2 DEF WorldStep
<1>2. ASSUME NEW b \in Bindings, DeleteAccepted(i, b) \/ DeleteUnanswered(i, b) PROVE WorldStep
  BY <1>0, <1>2 DEF DeleteAccepted, DeleteUnanswered, WorldStep, Shrinks
<1>3. CASE \/ \E b \in Bindings : UpdateAccepted(i, b) \/ VendorRefuses(i, b) \/ RecordDeleted(i, b)
           \/ \E t \in Tenants : ScreenTenant(i, t)
           \/ ForgetFails(i) \/ DeployEnds(i)
  BY <1>0, <1>3 DEF UpdateAccepted, VendorRefuses, RecordDeleted, ScreenTenant, ForgetFails,
     DeployEnds, WorldStep, Shrinks
<1>4. CASE RecordFails(i) \/ \E b \in Bindings : RecordCreated(i, b)
  BY <1>0, <1>4 DEF RecordFails, RecordCreated, WorldStep, Shrinks
<1> QED
  BY <1>1, <1>2, <1>3, <1>4 DEF Deploy, VendorAnswers

LEMMA WorldOthers ==
    ASSUME IdInv, NEW i \in AllJobs, Runner(i) \/ Writeback(i)
    PROVE  WorldStep /\ Shrinks
<1>0. remote \in [Bindings -> SUBSET Ids] /\ fate \in [Ids -> Fates]
  BY DEF IdInv, IInv, TypeOK, VendorTypes, HistoryTypes
<1>1. CASE Runner(i)
  BY <1>0, <1>1
  DEF Runner, Start, StartFails, Rerun, StartStaging, BeginDeploy, Interrupt, CancelWriteback,
     Kill, FreshBecome, PendingLost, WorldStep, Shrinks
<1>2. CASE Writeback(i)
  <2>1. remote' = remote /\ conflicts \subseteq conflicts'
    BY <1>2
    DEF Writeback, CommitWriteback, NothingToCommit, PushAccepted, PushUnacknowledged,
        PushRejected, GivesUp, RetryFails, ExitsUnpublished, Rebase, RebaseOntoSame, ReplayState,
        ReportConflicts, NothingToReplay
  <2>2. \/ fate' = fate \/ fate' = OnTip(head[i].tree) \/ fate' = FreshBecome(i, "printed", fate)
    BY <1>2
    DEF Writeback, CommitWriteback, NothingToCommit, PushAccepted, PushUnacknowledged,
        PushRejected, GivesUp, RetryFails, ExitsUnpublished, Rebase, RebaseOntoSame, ReplayState,
        NothingToReplay
  <2>3. \A id \in Ids : fate'[id] = "free" => fate[id] = "free"
    BY <2>2 DEF OnTip, FreshBecome
  <2> QED
    BY <2>1, <2>3 DEF WorldStep, Shrinks
<1> QED
  BY <1>1, <1>2

LEMMA WorldOperator ==
    ASSUME IdInv, Operator
    PROVE  WorldStep /\ Shrinks
<1>1. remote \in [Bindings -> SUBSET Ids] /\ tip.tree \in ShardMaps
  BY DEF IdInv, IInv, TypeOK, VendorTypes, TipPublic, PublicMaps
<1>2. Shrinks /\ conflicts' = conflicts
  BY <1>1 DEF Operator, Push, RecordByHand, RemoveByHand, Shrinks
<1>3. \A id \in Ids : fate'[id] = "free" => fate[id] = "free"
  BY OperatorFates
<1> QED
  BY <1>2, <1>3 DEF WorldStep

LEMMA WorldNext == ASSUME IdInv, [Next]_vars PROVE WorldStep
<1>1. CASE UNCHANGED vars
  BY <1>1 DEF vars, WorldStep, Shrinks
<1> QED
  BY <1>1, WorldDeploy, WorldOthers, WorldOperator DEF Next, Settled

\* Spent is for ever, for an id that was given out.
LEMMA SpentStays ==
    ASSUME IdInv, IdInv', WorldStep, NEW b \in Bindings, NEW x \in MaybeId,
           x = NoId \/ fate[x] # "free", Spent(b, x)
    PROVE  Spent(b, x)'
<1>1. x # NoId /\ x \notin remote[b] => x \notin remote'[b]
  <2> SUFFICES ASSUME x # NoId, x \notin remote[b], x \in remote'[b] PROVE FALSE
    OBVIOUS
  <2>1. x = nextId /\ nextId \in Ids
    BY DEF WorldStep, Shrinks, Makes
  <2>2. fate[nextId] = "free"
    BY <2>1 DEF IdInv, FreeInv, IInv, TypeOK, VendorTypes
  <2> QED
    BY <2>1, <2>2
<1> QED
  BY <1>1 DEF Spent, WorldStep

LEMMA HarmlessStays ==
    ASSUME IdInv, IdInv', WorldStep
    PROVE  \A c \in Harmless : c.parent \in PublicMaps => c \in Harmless'
<1> SUFFICES ASSUME NEW c \in Harmless, c.parent \in PublicMaps PROVE c \in Harmless'
  OBVIOUS
<1>1. c \in Commits
  BY DEF Harmless
<1>2. ASSUME NEW b \in Bindings, c.parent[b] # c.tree[b] PROVE Spent(b, c.parent[b])'
  <2>1. Spent(b, c.parent[b])
    BY <1>2 DEF Harmless
  <2>2. c.parent[b] \in MaybeId /\ (c.parent[b] = NoId \/ fate[c.parent[b]] # "free")
    BY DEF PublicMaps, ShardMaps
  <2> QED
    BY <2>1, <2>2, SpentStays
<1> QED
  BY <1>1, <1>2 DEF Harmless

-----------------------------------------------------------------------------
\* A live id other than the next was live before, at the same binding.
LEMMA LiveBefore ==
    ASSUME IdInv, WorldStep, NEW b \in Bindings, NEW id \in remote'[b], id # nextId
    PROVE  id \in remote[b]
BY DEF WorldStep, Shrinks, Makes

LEMMA NextIsNew ==
    ASSUME IdInv, MadeInv, nextId \in Ids
    PROVE  fate[nextId] = "free" /\ \A b \in Bindings : nextId \notin remote[b]
BY DEF IdInv, FreeInv, IInv, TypeOK, VendorTypes, MadeInv

LEMMA MadeNext ==
    ASSUME IdInv, IdInv', WorldStep, MadeInv, HomeInv
    PROVE  MadeInv' /\ HomeInv'
<1>1. \A b \in Bindings : remote[b] \subseteq Ids /\ remote'[b] \subseteq Ids
  BY DEF IdInv, IInv, TypeOK, VendorTypes
<1>2. CASE Shrinks
  BY <1>1, <1>2 DEF MadeInv, HomeInv, Shrinks, WorldStep
<1>3. ASSUME NEW a \in Bindings, Makes(a) PROVE MadeInv' /\ HomeInv'
  <2>1. nextId \in Ids /\ fate'[nextId] # "free" /\ \A b \in Bindings : nextId \notin remote[b]
    BY <1>3, NextIsNew DEF Makes
  <2>2. MadeInv'
    BY <1>1, <1>3, <2>1 DEF MadeInv, Makes, WorldStep
  <2>3. HomeInv'
    <3> SUFFICES ASSUME NEW b \in Bindings, NEW c \in Bindings,
                        NEW id \in remote'[b], id \in remote'[c]
                 PROVE  b = c
      BY DEF HomeInv
    <3>1. CASE id = nextId
      BY <1>3, <2>1, <3>1 DEF Makes
    <3>2. CASE id # nextId
      BY <3>2, LiveBefore DEF HomeInv
    <3> QED
      BY <3>1, <3>2
  <2> QED
    BY <2>2, <2>3
<1> QED
  BY <1>2, <1>3 DEF WorldStep

\* What a step does to the id a job waits for.
LEMMA PendingMoves ==
    ASSUME IInv, [Next]_vars, NEW j \in AllJobs
    PROVE  \/ pending'[j] = pending[j] \/ pending'[j].id = NoId
           \/ \E b \in Bindings : pending'[j] = [at |-> {b}, id |-> nextId] /\ Makes(b)
<1>0. TypeOK
  BY DEF IInv
<1>1. CASE Operator
  BY <1>1, OperatorSteps DEF Same, Triggered
<1>2. ASSUME NEW i \in AllJobs, i # j, Runner(i) \/ Deploy(i) \/ Writeback(i)
      PROVE  pending'[j] = pending[j]
  BY <1>0, <1>2, RunnerLocal, DeployLocal, WritebackLocal DEF Same
<1>3. CASE Runner(j)
  BY <1>0, <1>3 DEF Runner, Start, StartFails, Rerun, StartStaging, BeginDeploy, Interrupt,
     CancelWriteback, Kill, RunStops, TypeOK, DeployTypes, NoPending
<1>4. CASE Writeback(j)
  BY <1>0, <1>4, WritebackPhases
<1>5. CASE Deploy(j)
  <2>1. ASSUME NEW b \in Bindings, CreateAnswered(j, b)
        PROVE  pending'[j] = [at |-> {b}, id |-> nextId] /\ Makes(b)
    BY <1>0, <2>1 DEF CreateAnswered, Makes, TypeOK, DeployTypes, VendorTypes, HistoryTypes
  <2>2. ASSUME NEW b \in Bindings,
               \/ CreateUnanswered(j, b) \/ UpdateAccepted(j, b) \/ DeleteAccepted(j, b)
               \/ DeleteUnanswered(j, b) \/ VendorRefuses(j, b)
        PROVE  pending'[j] = pending[j] \/ pending'[j].id = NoId
    BY <1>0, <2>2 DEF CreateUnanswered, UpdateAccepted, DeleteAccepted, DeleteUnanswered,
       VendorRefuses, CallMade, RunStops, TypeOK, DeployTypes, NoPending
  <2>3. ASSUME \/ \E t \in Tenants : ScreenTenant(j, t)
               \/ \E b \in Bindings : RecordCreated(j, b) \/ RecordDeleted(j, b)
               \/ RecordFails(j) \/ ForgetFails(j) \/ DeployEnds(j)
        PROVE  pending'[j] = pending[j] \/ pending'[j].id = NoId
    BY <1>0, <2>3 DEF ScreenTenant, RecordCreated, RecordDeleted, RecordFails, ForgetFails,
       DeployEnds, Settle, TypeOK, DeployTypes, NoPending
  <2> QED
    BY <1>5, <2>1, <2>2, <2>3 DEF Deploy, VendorAnswers
<1>6. CASE UNCHANGED vars
  BY <1>6 DEF vars
<1> QED
  BY <1>1, <1>2, <1>3, <1>4, <1>5, <1>6 DEF Next, Settled

\* An id recorded in a checkout after a step was recorded there before it, or is
\* the one its job waited for at that binding.
LEMMA RecordedBefore ==
    ASSUME IdInv, IInv', [Next]_vars, NEW j \in AllJobs, NEW b \in Bindings,
           IsRecorded(work[j][b])'
    PROVE  \/ work'[j][b] = work[j][b] /\ IsRecorded(work[j][b])
           \/ /\ work'[j][b] = pending[j].id /\ pending[j].at = {b}
              /\ pending[j].id # NoId
<1>1. work[j][b] \in MaybeId /\ work'[j][b] \in MaybeId
  BY DEF IdInv, IInv, TypeOK, RunnerTypes, ShardMaps
<1>2. work[j][b] # NoId => fate[work[j][b]] \in {"published", "recorded"}
  BY DEF IdInv, MapInv, OwnMaps
<1>3. ASSUME work'[j][b] = work[j][b],
             \A id \in Ids : fate[id] = "published" => fate'[id] = "published"
      PROVE  IsRecorded(work[j][b])
  BY <1>1, <1>2, <1>3 DEF IsRecorded, MaybeId
<1>4. CASE Operator
  BY <1>3, <1>4, OperatorFates DEF IsRecorded
<1>5. ASSUME NEW i \in AllJobs, Runner(i) \/ Deploy(i) \/ Writeback(i)
      PROVE  \/ work'[j][b] = work[j][b] /\ IsRecorded(work[j][b])
             \/ /\ work'[j][b] = pending[j].id /\ pending[j].at = {b}
                /\ pending[j].id # NoId
  <2>1. OwnStep(i)
    BY <1>5, StepOfJob
  <2>2. \A id \in Ids : fate[id] = "published" => fate'[id] = "published"
    BY <2>1 DEF OwnStep, Lawful
  <2>3. CASE work'[j][b] = work[j][b]
    BY <1>3, <2>2, <2>3
  <2>4. CASE i = j /\ work'[j][b] # work[j][b]
    BY <1>1, <2>1, <2>4 DEF OwnStep, Checkout, IsRecorded
  <2>5. CASE i # j
    BY <1>5, <2>3, <2>5, RunnerLocal, DeployLocal, WritebackLocal DEF Same, IdInv, IInv
  <2> QED
    BY <2>3, <2>4, <2>5
<1>6. CASE UNCHANGED vars
  BY <1>3, <1>6 DEF vars, IsRecorded
<1> QED
  BY <1>4, <1>5, <1>6 DEF Next, Settled

LEMMA HomeNext ==
    ASSUME IdInv, IdInv', WorldStep, MadeInv, [Next]_vars, NEW j \in AllJobs, HomeOf(j)
    PROVE  HomeOf(j)'
<1>0. IInv /\ IInv' /\ pending[j] \in Pendings /\ \A b \in Bindings : remote'[b] \subseteq Ids
  BY DEF IdInv, IInv, TypeOK, DeployTypes, VendorTypes
<1>1. pending[j].id # NoId => pending[j].id # nextId
  <2> SUFFICES ASSUME pending[j].id # NoId, pending[j].id = nextId PROVE FALSE
    OBVIOUS
  <2>1. fate[nextId] = "pending" /\ nextId \in Ids
    BY <1>0 DEF IdInv, PendingInv, Pendings, MaybeId
  <2> QED
    BY <2>1, NextIsNew
<1>2. ASSUME NEW b \in Bindings, NEW c \in Bindings, IsRecorded(work[j][b])',
             work'[j][b] \in remote'[c]
      PROVE  b = c
  <2>1. CASE work'[j][b] = work[j][b] /\ IsRecorded(work[j][b])
    <3>1. work'[j][b] # nextId
      <4> SUFFICES ASSUME work'[j][b] = nextId PROVE FALSE
        OBVIOUS
      <4>1. nextId \in Ids /\ fate[nextId] = "recorded"
        BY <1>0, <1>2, <2>1 DEF IsRecorded
      <4> QED
        BY <4>1, NextIsNew
    <3> QED
      BY <1>2, <2>1, <3>1, LiveBefore DEF HomeOf
  <2>2. CASE work'[j][b] = pending[j].id /\ pending[j].at = {b} /\ pending[j].id # NoId
    BY <1>1, <1>2, <2>2, LiveBefore DEF HomeOf
  <2> QED
    BY <1>0, <1>2, <2>1, <2>2, RecordedBefore
<1>3. ASSUME NEW b \in pending'[j].at, NEW c \in Bindings, pending'[j].id \in remote'[c]
      PROVE  b = c
  <2>1. pending'[j].id # NoId
    BY <1>0, <1>3 DEF Ids, NoId
  <2>2. CASE pending'[j] = pending[j]
    <3>1. b \in pending[j].at /\ pending[j].id \in remote'[c] /\ pending[j].id # nextId
      BY <1>1, <1>3, <2>1, <2>2
    <3>2. pending[j].id \in remote[c]
      BY <3>1, LiveBefore
    <3> QED
      BY <3>1, <3>2 DEF HomeOf
  <2>3. ASSUME NEW a \in Bindings, pending'[j] = [at |-> {a}, id |-> nextId], Makes(a)
        PROVE  b = c
    <3>1. \A d \in Bindings : nextId \notin remote[d]
      BY <2>3, NextIsNew DEF Makes
    <3>2. pending'[j].at = {a} /\ pending'[j].id = nextId
      BY <2>3
    <3>3. b = a /\ nextId \in remote'[c]
      BY <1>3, <3>2
    <3>4. remote'[c] = IF c = a THEN remote[c] \cup {nextId} ELSE remote[c]
      BY <2>3 DEF Makes
    <3> QED
      BY <3>1, <3>3, <3>4
  <2> QED
    BY <1>0, <2>1, <2>2, <2>3, PendingMoves
<1> QED
  BY <1>2, <1>3 DEF HomeOf

-----------------------------------------------------------------------------
\* What is not live stays so, if it was given out.
LEMMA GoneStays ==
    ASSUME IdInv, IdInv', WorldStep, NEW m \in PublicMaps, NEW b \in Bindings,
           m[b] \notin remote[b]
    PROVE  m[b] \notin remote'[b]
<1>1. m[b] # nextId
  <2> SUFFICES ASSUME m[b] = nextId PROVE FALSE
    OBVIOUS
  <2>1. nextId # NoId /\ fate[nextId] = "published" /\ nextId \in Ids
    BY DEF PublicMaps, ShardMaps, MaybeId, IdInv, IInv, TypeOK, VendorTypes, NoId
  <2> QED
    BY <2>1 DEF IdInv, FreeInv, IInv, TypeOK, VendorTypes
<1> QED
  BY <1>1, LiveBefore

\* IdNext's steps keep published ids published.
LEMMA PublicStays ==
    ASSUME IdInv, IdInv', WorldStep, [Next]_vars
    PROVE  \A m \in PublicMaps : m \in PublicMaps'
<1>1. \A id \in Ids : fate[id] = "published" => fate'[id] = "published"
  <2>1. ASSUME NEW i \in AllJobs, Runner(i) \/ Deploy(i) \/ Writeback(i)
        PROVE  \A id \in Ids : fate[id] = "published" => fate'[id] = "published"
    BY <2>1, StepOfJob DEF IdInv, OwnStep, Lawful
  <2>2. CASE Operator
    BY <2>2, OperatorFates
  <2> QED
    BY <2>1, <2>2 DEF Next, Settled, vars
<1> QED
  BY <1>1, MapsGrow DEF IdInv

LEMMA HarmlessSteady ==
    ASSUME IdInv, IdInv', WorldStep, [Next]_vars, NEW j \in AllJobs, HarmlessInv(j),
           UNCHANGED <<work[j], stateBase[j], head[j], stateCommit[j]>>,
           Pushing(j)' => Pushing(j),
           carries'[j] = "nothing" => carries[j] = "nothing",
           phase'[j] = "forgetting" =>
               \/ phase[j] = "forgetting" /\ pending'[j] = pending[j]
               \/ \A b \in pending'[j].at : stateBase[j][b] \notin remote'[b]
    PROVE  HarmlessInv(j)'
<1>1. \A c \in Harmless : c.parent \in PublicMaps => c \in Harmless'
  BY HarmlessStays
<1>2. /\ stateBase[j] \in PublicMaps /\ head[j].parent \in PublicMaps
      /\ stateCommit[j].parent \in PublicMaps
  BY DEF IdInv, MapInv
<1>3. /\ head'[j] \in Harmless' /\ stateCommit'[j] \in Harmless'
      /\ Commit(stateBase'[j], work'[j]) \in Harmless'
  BY <1>1, <1>2, CommitFields DEF HarmlessInv
<1>4. Pushing(j)' => /\ Commit(stateBase'[j], head'[j].tree) \in Harmless'
                     /\ Commit(stateBase'[j], stateCommit'[j].tree) \in Harmless'
  BY <1>1, <1>2, CommitFields DEF HarmlessInv
<1>5. phase'[j] = "forgetting" => \A b \in pending'[j].at : stateBase'[j][b] \notin remote'[b]
  <2>1. pending[j].at \subseteq Bindings
    BY DEF IdInv, IInv, TypeOK, DeployTypes, Pendings
  <2> QED
    BY <1>2, <2>1, GoneStays DEF HarmlessInv
<1>6. carries'[j] = "nothing" => head'[j].tree \in PublicMaps'
  <2>1. \A m \in PublicMaps : m \in PublicMaps'
    BY PublicStays
  <2> QED
    BY <2>1 DEF HarmlessInv
<1> QED
  BY <1>3, <1>4, <1>5, <1>6 DEF HarmlessInv

\* What is replayed changes only bindings whose id is spent, or reported.
LEMMA ReplayHarmless ==
    ASSUME DropInv, NEW c \in Harmless, NEW b \in Bindings,
           Replay(c.parent, c.tree, tip.tree)[b] # tip.tree[b]
    PROVE  Spent(b, tip.tree[b]) \/ b \in ReplayConflicts(c.parent, c.tree, tip.tree)
<1>1. c.parent[b] # c.tree[b] /\ Replay(c.parent, c.tree, tip.tree)[b] = c.tree[b]
  BY ReplayAt
<1>2. Spent(b, c.parent[b])
  BY <1>1 DEF Harmless
<1> QED
  BY <1>1, <1>2 DEF ReplayConflicts, Delta

\* It keeps what the overlay held, unless that is spent.
LEMMA ReplayOfBase ==
    ASSUME DropInv, NEW i \in AllJobs, NEW c \in Commits,
           Commit(stateBase[i], c.tree) \in Harmless
    PROVE  Commit(stateBase[i], Replay(c.parent, c.tree, tip.tree)) \in Harmless
<1>0. stateBase[i] \in PublicMaps /\ stateBase[i] \in ShardMaps /\ tip.tree \in ShardMaps
  BY DEF DropInv, IdInv, MapInv, TipPublic, PublicMaps
<1>1. Commit(stateBase[i], Replay(c.parent, c.tree, tip.tree)) \in Commits
  BY <1>0, CommitParts, ReplayType, CommitType
<1>2. ASSUME NEW b \in Bindings, stateBase[i][b] # Replay(c.parent, c.tree, tip.tree)[b]
      PROVE  Spent(b, stateBase[i][b])
  <2>1. CASE c.parent[b] # c.tree[b]
    BY <1>2, <2>1, ReplayAt, CommitFields DEF Harmless
  <2>2. CASE c.parent[b] = c.tree[b]
    <3>1. tip.tree[b] # stateBase[i][b]
      BY <1>2, <2>2, ReplayAt
    <3>2. stateBase[i][b] = NoId \/ fate[stateBase[i][b]] = "published"
      BY <1>0 DEF PublicMaps
    <3> QED
      BY <3>1, <3>2 DEF DropInv, NothingDroppedSilently, Spent
  <2> QED
    BY <2>1, <2>2
<1> QED
  BY <1>1, <1>2, CommitFields DEF Harmless

\* New commits of job i over an unchanged checkout, pushed next.
LEMMA HarmlessCommits ==
    ASSUME DropInv, IdInv', WorldStep, [Next]_vars, NEW i \in AllJobs,
           UNCHANGED <<work[i], stateBase[i]>>,
           phase'[i] # "forgetting", head'[i] \in Harmless', stateCommit'[i] \in Harmless',
           Commit(stateBase[i], head'[i].tree) \in Harmless,
           Commit(stateBase[i], stateCommit'[i].tree) \in Harmless,
           carries'[i] = "nothing" => head'[i].tree \in PublicMaps'
    PROVE  HarmlessInv(i)'
<1>1. \A c \in Harmless : c.parent \in PublicMaps => c \in Harmless'
  BY HarmlessStays DEF DropInv
<1>2. stateBase[i] \in PublicMaps /\ Commit(stateBase[i], work[i]) \in Harmless
  BY DEF DropInv, IdInv, MapInv, HarmlessInv
<1>3. Commit(stateBase'[i], work'[i]) \in Harmless'
  BY <1>1, <1>2, CommitFields
<1>4. /\ Commit(stateBase'[i], head'[i].tree) \in Harmless'
      /\ Commit(stateBase'[i], stateCommit'[i].tree) \in Harmless'
  BY <1>1, <1>2, CommitFields
<1> QED
  BY <1>3, <1>4 DEF HarmlessInv

LEMMA HarmlessCommit ==
    ASSUME DropInv, IdInv', WorldStep, [Next]_vars, NEW i \in AllJobs,
           NEW edits \in BOOLEAN, NEW valid \in BOOLEAN, CommitWriteback(i, edits, valid)
    PROVE  HarmlessInv(i)'
<1>1. /\ UNCHANGED <<work, stateBase>> /\ phase'[i] = "pushing" /\ carries'[i] # "nothing"
      /\ head'[i] = Commit(stateBase[i], work[i]) /\ stateCommit'[i] = Commit(stateBase[i], work[i])
  BY DEF CommitWriteback, DropInv, IdInv, IInv, TypeOK, JobTypes, RunnerTypes
<1>2. Commit(stateBase[i], work[i]) \in Harmless /\ stateBase[i] \in PublicMaps
  BY DEF DropInv, IdInv, MapInv, HarmlessInv
<1>3. Commit(stateBase[i], work[i]) \in Harmless'
  BY <1>2, HarmlessStays, CommitFields DEF DropInv
<1> QED
  BY <1>1, <1>2, <1>3, CommitFields, HarmlessCommits

LEMMA HarmlessRebase ==
    ASSUME DropInv, IdInv', WorldStep, [Next]_vars, NEW i \in AllJobs, Rebase(i)
    PROVE  HarmlessInv(i)'
<1>1. /\ UNCHANGED <<tip, work, stateBase, stateCommit>>
      /\ phase[i] = "rebasing" /\ phase'[i] = "pushing"
      /\ MergesCleanly(head[i].parent, head[i].tree, tip.tree)
      /\ \/ head'[i] = tip /\ Rebased(i) = tip.tree
         \/ head'[i] = Commit(tip.tree, Rebased(i)) /\ carries'[i] # "nothing"
  BY DEF Rebase, Dropped, DropInv, IdInv, IInv, TypeOK, JobTypes, RunnerTypes
<1>2. /\ head[i] \in Harmless /\ stateCommit[i] \in Harmless /\ tip \in Harmless
      /\ tip.tree \in PublicMaps /\ tip.parent \in PublicMaps
      /\ stateCommit[i].parent \in PublicMaps
      /\ Commit(stateBase[i], head[i].tree) \in Harmless
      /\ Commit(stateBase[i], stateCommit[i].tree) \in Harmless
      /\ head[i] \in Commits
  BY <1>1 DEF DropInv, HarmlessInv, IdInv, TipPublic, MapInv, Pushing, Harmless
<1>3. \A c \in Harmless : c.parent \in PublicMaps => c \in Harmless'
  BY HarmlessStays DEF DropInv
<1>4. Commit(tip.tree, Rebased(i)) \in Harmless
  <2>1. Commit(tip.tree, Rebased(i)) \in Commits
    BY <1>2, CommitParts, ReplayType, CommitType DEF Rebased, PublicMaps
  <2>2. \A b \in Bindings : Rebased(i)[b] # tip.tree[b] => Spent(b, tip.tree[b])
    BY <1>1, <1>2, ReplayHarmless DEF Rebased, MergesCleanly
  <2> QED
    BY <2>1, <2>2, CommitFields DEF Harmless
<1>5. head'[i] \in Harmless' /\ stateCommit'[i] \in Harmless' /\ head'[i].tree = Rebased(i)
  BY <1>1, <1>2, <1>3, <1>4, CommitFields
<1>6. Commit(stateBase[i], Rebased(i)) \in Harmless
  BY <1>2, ReplayOfBase DEF Rebased
<1>7. carries'[i] = "nothing" => head'[i].tree \in PublicMaps'
  BY <1>1, <1>2, PublicStays DEF DropInv
<1> QED
  BY <1>1, <1>2, <1>5, <1>6, <1>7, HarmlessCommits

LEMMA HarmlessReplay ==
    ASSUME DropInv, IdInv', WorldStep, [Next]_vars, NEW i \in AllJobs, ReplayState(i)
    PROVE  HarmlessInv(i)'
<1>1. /\ UNCHANGED <<tip, work, stateBase>> /\ carries'[i] # "nothing"
      /\ phase[i] = "rebasing" /\ phase'[i] = "pushing" /\ ReportConflicts(i)
      /\ head'[i] = Commit(tip.tree, Replayed(i)) /\ stateCommit'[i] = Commit(tip.tree, Replayed(i))
  BY DEF ReplayState, DropInv, IdInv, IInv, TypeOK, JobTypes, RunnerTypes
<1>2. /\ stateCommit[i] \in Harmless /\ tip.tree \in PublicMaps
      /\ Commit(stateBase[i], stateCommit[i].tree) \in Harmless
      /\ stateCommit[i] \in Commits
  BY <1>1 DEF DropInv, HarmlessInv, IdInv, TipPublic, Pushing, Harmless
<1>3. Commit(tip.tree, Replayed(i)) \in Harmless'
  <2>1. Commit(tip.tree, Replayed(i)) \in Commits
    BY <1>2, CommitParts, ReplayType, CommitType DEF Replayed, PublicMaps
  <2>2. ASSUME NEW b \in Bindings, Replayed(i)[b] # tip.tree[b], NEW x, x = tip.tree[b]
        PROVE  Spent(b, x)'
    <3>1. CASE Spent(b, tip.tree[b])
      <4>1. x \in MaybeId /\ (x = NoId \/ fate[x] # "free") /\ Spent(b, x)
        BY <1>2, <2>2, <3>1 DEF PublicMaps, ShardMaps
      <4> QED
        BY <4>1, SpentStays DEF DropInv
    <3>2. CASE b \in ReplayConflicts(stateCommit[i].parent, stateCommit[i].tree, tip.tree)
      <4>1. <<b, stateCommit[i].tree[b], tip.tree[b]>> \in conflicts'
        BY <1>1, <3>2 DEF ReportConflicts
      <4> QED
        BY <2>2, <4>1 DEF Spent
    <3> QED
      BY <1>2, <2>2, <3>1, <3>2, ReplayHarmless DEF Replayed
  <2> QED
    BY <1>1, <2>1, <2>2, CommitFields DEF Harmless, Spent
<1>4. Commit(stateBase[i], Replayed(i)) \in Harmless
  BY <1>2, ReplayOfBase DEF Replayed
<1> QED
  BY <1>1, <1>3, <1>4, CommitFields, HarmlessCommits

LEMMA HarmlessCancel ==
    ASSUME DropInv, IdInv', WorldStep, [Next]_vars, NEW i \in AllJobs, CancelWriteback(i)
    PROVE  HarmlessInv(i)'
<1>1. /\ UNCHANGED <<work, stateBase>>
      /\ phase[i] \in {"pushing", "rebasing"} /\ phase'[i] = "pushing" /\ carries'[i] # "nothing"
      /\ head'[i] = Commit(stateBase[i], head[i].tree)
      /\ stateCommit'[i] = Commit(stateBase[i], head[i].tree)
  BY DEF CancelWriteback, DropInv, IdInv, IInv, TypeOK, JobTypes, RunnerTypes
<1>2. Commit(stateBase[i], head[i].tree) \in Harmless /\ stateBase[i] \in PublicMaps
  BY <1>1 DEF DropInv, IdInv, MapInv, HarmlessInv, Pushing
<1>3. Commit(stateBase[i], head[i].tree) \in Harmless'
  BY <1>2, HarmlessStays, CommitFields DEF DropInv
<1> QED
  BY <1>1, <1>2, <1>3, CommitFields, HarmlessCommits

-----------------------------------------------------------------------------
LEMMA HarmlessSame ==
    ASSUME IdInv, IdInv', WorldStep, [Next]_vars, NEW j \in AllJobs, HarmlessInv(j),
           Same(j) \/ Triggered(j)
    PROVE  HarmlessInv(j)'
<1>1. CASE Same(j)
  BY <1>1, HarmlessSteady DEF Same, Pushing
<1>2. CASE Triggered(j)
  BY <1>2, HarmlessSteady DEF Triggered, Pushing
<1> QED
  BY <1>1, <1>2

\* The overlay is only changed by what the vendor confirmed.
LEMMA HarmlessSettles ==
    ASSUME DropInv, IdInv', WorldStep, [Next]_vars, NEW i \in AllJobs, NEW b \in Bindings,
           RecordCreated(i, b) \/ RecordDeleted(i, b)
    PROVE  HarmlessInv(i)'
<1>0. TypeOK /\ CallInv(i) /\ MapInv(i) /\ HarmlessInv(i)
  BY DEF DropInv, IdInv, IInv
<1>1. /\ UNCHANGED <<stateBase, head, stateCommit, carries, remote>>
      /\ phase[i] \in {"recording", "forgetting"} /\ pending[i].at = {b} /\ phase'[i] = "deploying"
      /\ \A c \in Bindings : c # b => work'[i][c] = work[i][c]
  BY <1>0 DEF RecordCreated, RecordDeleted, Settle, Bind, Unbind, TypeOK, JobTypes, RunnerTypes,
     ShardMaps
<1>2. stateBase[i][b] = NoId \/ stateBase[i][b] \notin remote[b]
  BY <1>0, <1>1 DEF CallInv, CallOf, HarmlessInv
<1>3. \A c \in Harmless : c.parent \in PublicMaps => c \in Harmless'
  BY HarmlessStays DEF DropInv
<1>4. stateBase[i] \in PublicMaps /\ stateBase[i] \in ShardMaps /\ work'[i] \in ShardMaps
  BY <1>0 DEF MapInv, PublicMaps, IdInv, IInv, TypeOK, RunnerTypes
<1>5. Commit(stateBase[i], work'[i]) \in Harmless
  <2>1. Commit(stateBase[i], work'[i]) \in Commits
    BY <1>4, CommitType
  <2>2. \A c \in Bindings : stateBase[i][c] # work'[i][c] => Spent(c, stateBase[i][c])
    BY <1>0, <1>1, <1>2, CommitFields DEF HarmlessInv, Harmless, Spent
  <2> QED
    BY <2>1, <2>2, CommitFields DEF Harmless
<1>6. Commit(stateBase'[i], work'[i]) \in Harmless'
  BY <1>1, <1>3, <1>4, <1>5, CommitFields
<1>7. head'[i] \in Harmless' /\ stateCommit'[i] \in Harmless'
  BY <1>0, <1>1, <1>3 DEF MapInv, HarmlessInv
<1>8. carries'[i] = "nothing" => head'[i].tree \in PublicMaps'
  BY <1>0, <1>1, PublicStays DEF HarmlessInv, DropInv
<1> QED
  BY <1>1, <1>6, <1>7, <1>8 DEF HarmlessInv, Pushing

\* The checkout is laid down, or gone.
LEMMA HarmlessFresh ==
    ASSUME DropInv, IdInv', WorldStep, [Next]_vars, NEW i \in AllJobs,
           work'[i] = stateBase'[i], phase'[i] # "forgetting", ~Pushing(i)',
           \/ UNCHANGED <<head[i], stateCommit[i], carries[i]>>
           \/ head'[i] = Commit(NoShards, NoShards) /\ stateCommit'[i] = Commit(NoShards, NoShards)
    PROVE  HarmlessInv(i)'
<1>1. \A m \in ShardMaps : Commit(m, m) \in Harmless'
  BY CommitType, CommitFields DEF Harmless
<1>2. work'[i] \in ShardMaps /\ NoShards \in ShardMaps
  BY ShardTypes DEF IdInv, IInv, TypeOK, RunnerTypes
<1>3. Commit(stateBase'[i], work'[i]) \in Harmless'
  BY <1>1, <1>2
<1>4. MapInv(i) /\ HarmlessInv(i)
  BY DEF DropInv, IdInv
<1>5. CASE UNCHANGED <<head[i], stateCommit[i], carries[i]>>
  <2>1. head'[i] \in Harmless' /\ stateCommit'[i] \in Harmless'
    BY <1>4, <1>5, HarmlessStays DEF MapInv, HarmlessInv, DropInv
  <2>2. carries'[i] = "nothing" => head'[i].tree \in PublicMaps'
    BY <1>4, <1>5, PublicStays DEF HarmlessInv, DropInv
  <2> QED
    BY <1>3, <2>1, <2>2 DEF HarmlessInv
<1>6. CASE head'[i] = Commit(NoShards, NoShards) /\ stateCommit'[i] = Commit(NoShards, NoShards)
  <2>1. head'[i].tree \in PublicMaps'
    BY <1>2, <1>6, CommitFields DEF PublicMaps, NoShards
  <2> QED
    BY <1>1, <1>2, <1>3, <1>6, <2>1 DEF HarmlessInv
<1> QED
  BY <1>5, <1>6

LEMMA HarmlessDeploy ==
    ASSUME DropInv, IdInv', WorldStep, [Next]_vars, NEW i \in AllJobs, Deploy(i)
    PROVE  HarmlessInv(i)'
<1>0. TypeOK /\ CallInv(i) /\ MapInv(i) /\ HarmlessInv(i) /\ IdInv
  BY DEF DropInv, IdInv, IInv
<1>1. ASSUME NEW b \in Bindings, RecordCreated(i, b) \/ RecordDeleted(i, b) PROVE HarmlessInv(i)'
  BY <1>1, HarmlessSettles
<1>2. ASSUME NEW b \in Bindings, DeleteAccepted(i, b) PROVE HarmlessInv(i)'
  <2>1. /\ UNCHANGED <<work, stateBase, head, stateCommit, carries>> /\ phase'[i] = "forgetting"
        /\ pending'[i].at = {b} /\ remote'[b] = remote[b] \ {plan[i][b].id}
        /\ plan[i][b].kind = "delete"
    BY <1>0, <1>2
    DEF DeleteAccepted, Due, CallMade, TypeOK, JobTypes, DeployTypes, VendorTypes
  <2>2. stateBase[i][b] \notin remote'[b]
    BY <1>0, <2>1 DEF CallInv, CallOf
  <2> QED
    BY <1>0, <2>1, <2>2, HarmlessSteady DEF Pushing
<1>3. CASE \/ \E t \in Tenants : ScreenTenant(i, t)
           \/ \E b \in Bindings : \/ CreateAnswered(i, b) \/ CreateUnanswered(i, b)
                                  \/ UpdateAccepted(i, b) \/ DeleteUnanswered(i, b)
                                  \/ VendorRefuses(i, b)
           \/ RecordFails(i) \/ ForgetFails(i) \/ DeployEnds(i)
  <2>1. /\ UNCHANGED <<work, stateBase, head, stateCommit, carries>>
        /\ phase'[i] \in {"deploying", "recording", "writeback", "done"}
    BY <1>0, <1>3
    DEF ScreenTenant, CreateAnswered, CreateUnanswered, UpdateAccepted, DeleteUnanswered,
        VendorRefuses, RecordFails, ForgetFails, DeployEnds, Due, CallMade, RunStops, Settle,
        AfterDeploy, TypeOK, JobTypes
  <2> QED
    BY <1>0, <2>1, HarmlessSteady DEF Pushing
<1> QED
  BY <1>1, <1>2, <1>3 DEF Deploy, VendorAnswers

LEMMA HarmlessRunner ==
    ASSUME DropInv, IdInv', WorldStep, [Next]_vars, NEW i \in AllJobs, Runner(i)
    PROVE  HarmlessInv(i)'
<1>0. TypeOK /\ HarmlessInv(i) /\ IdInv
  BY DEF DropInv, IdInv, IInv
<1>1. CASE (i \in Jobs /\ Start(i)) \/ (\E w \in Wants : StartStaging(i, w))
  <2>1. /\ phase'[i] = "deploying" /\ work'[i] = stateBase'[i]
        /\ UNCHANGED <<head, stateCommit, carries>>
    BY <1>0, <1>1 DEF Start, StartStaging, BeginDeploy, TypeOK, JobTypes, RunnerTypes
  <2> QED
    BY <2>1, HarmlessFresh DEF Pushing
<1>2. CASE StartFails(i) \/ Rerun(i) \/ Interrupt(i)
  <2>1. /\ phase'[i] \in {"queued", "done", "writeback"}
        /\ UNCHANGED <<work, stateBase, head, stateCommit, carries>>
    BY <1>0, <1>2 DEF StartFails, Rerun, Interrupt, RunStops, AfterDeploy, TypeOK, JobTypes
  <2> QED
    BY <1>0, <2>1, HarmlessSteady DEF Pushing
<1>3. CASE CancelWriteback(i)
  BY <1>3, HarmlessCancel
<1>4. CASE Kill(i)
  <2>1. /\ phase'[i] = "dead" /\ work'[i] = NoShards /\ stateBase'[i] = NoShards
        /\ head'[i] = Commit(NoShards, NoShards) /\ stateCommit'[i] = Commit(NoShards, NoShards)
    BY <1>0, <1>4 DEF Kill, RunnerGone, TypeOK, JobTypes, RunnerTypes
  <2> QED
    BY <2>1, HarmlessFresh DEF Pushing
<1> QED
  BY <1>1, <1>2, <1>3, <1>4 DEF Runner

LEMMA HarmlessWriteback ==
    ASSUME DropInv, IdInv', WorldStep, [Next]_vars, NEW i \in AllJobs, Writeback(i)
    PROVE  HarmlessInv(i)'
<1>0. TypeOK /\ HarmlessInv(i) /\ IdInv
  BY DEF DropInv, IdInv, IInv
<1>1. CASE \E edits, valid \in BOOLEAN : CommitWriteback(i, edits, valid)
  BY <1>1, HarmlessCommit
<1>2. CASE \/ \E valid \in BOOLEAN : NothingToCommit(i, valid)
           \/ PushAccepted(i) \/ GivesUp(i) \/ NothingToReplay(i) \/ RetryFails(i)
  <2>1. /\ phase'[i] = "done" /\ work'[i] = NoShards /\ stateBase'[i] = NoShards
        /\ head'[i] = Commit(NoShards, NoShards) /\ stateCommit'[i] = Commit(NoShards, NoShards)
    BY <1>0, <1>2
    DEF NothingToCommit, PushAccepted, GivesUp, NothingToReplay, RetryFails, ExitsUnpublished,
        Exits, RunnerGone, TypeOK, JobTypes, RunnerTypes
  <2> QED
    BY <2>1, HarmlessFresh DEF Pushing
<1>3. CASE PushUnacknowledged(i) \/ PushRejected(i) \/ RebaseOntoSame(i)
  <2>1. /\ phase[i] \in {"pushing", "rebasing"} /\ phase'[i] \in {"pushing", "rebasing"}
        /\ UNCHANGED <<work, stateBase, head, stateCommit>>
        /\ carries'[i] = "nothing" => carries[i] = "nothing"
    BY <1>0, <1>3
    DEF PushUnacknowledged, PushRejected, RebaseOntoSame, FastForward, Retries, TypeOK, JobTypes,
        RunnerTypes
  <2> QED
    BY <1>0, <2>1, HarmlessSteady DEF Pushing
<1>4. CASE Rebase(i)
  BY <1>4, HarmlessRebase
<1>5. CASE ReplayState(i)
  BY <1>5, HarmlessReplay
<1> QED
  BY <1>1, <1>2, <1>3, <1>4, <1>5 DEF Writeback

-----------------------------------------------------------------------------
\* Where HEAD and the overlay are, cancelled write-backs included.
LEMMA PlaceSame ==
    ASSUME NEW j \in AllJobs, PlaceInv(j), Same(j), Kept(j) \/ Overtaken(j)
    PROVE  PlaceInv(j)'
BY DEF PlaceInv, Placed, AtTip, Pushing, Active, Same, Kept, Overtaken

LEMMA PlaceIdle ==
    ASSUME NEW j \in AllJobs, PlaceInv(j), ~Pushing(j)',
           \/ ~Active(j)'
           \/ Active(j) /\ Kept(j) /\ stateBase'[j] = stateBase[j]
           \/ stateBase'[j] = tip'.tree
    PROVE  PlaceInv(j)'
BY DEF PlaceInv, Placed, AtTip, Kept, Pushing, Active

LEMMA PlaceRunner ==
    ASSUME TypeOK, NEW i \in AllJobs, PlaceInv(i), Runner(i)
    PROVE  PlaceInv(i)'
<1>1. CASE (i \in Jobs /\ Start(i)) \/ (\E w \in Wants : StartStaging(i, w))
  <2>1. phase'[i] = "deploying" /\ stateBase'[i] = tip'.tree
    BY <1>1 DEF Start, StartStaging, BeginDeploy, Overlay, TypeOK, JobTypes, RunnerTypes
  <2> QED
    BY <2>1, PlaceIdle DEF Pushing
<1>2. CASE StartFails(i) \/ Rerun(i) \/ Kill(i)
  <2>1. phase'[i] \in {"queued", "done", "dead"}
    BY <1>2 DEF StartFails, Rerun, Kill, TypeOK, JobTypes
  <2> QED
    BY <2>1, PlaceIdle DEF Pushing, Active, Deploying, WritingBack
<1>3. CASE Interrupt(i)
  <2>1. phase'[i] \in {"done", "writeback"} /\ Active(i) /\ Kept(i) /\ stateBase' = stateBase
    BY <1>3 DEF Interrupt, RunStops, AfterDeploy, Active, Kept, TypeOK, JobTypes
  <2> QED
    BY <2>1, PlaceIdle DEF Pushing
<1>4. CASE CancelWriteback(i)
  <2>1. /\ phase[i] \in {"pushing", "rebasing"} /\ phase'[i] = "pushing"
        /\ UNCHANGED <<tip, moved, stateBase>> /\ behind'[i] = moved[i]
        /\ head'[i] = Commit(stateBase[i], head[i].tree)
    BY <1>4 DEF CancelWriteback, TypeOK, JobTypes, RunnerTypes
  <2> QED
    BY <2>1, CommitFields DEF PlaceInv, Placed, AtTip, Active, WritingBack
<1> QED
  BY <1>1, <1>2, <1>3, <1>4 DEF Runner

LEMMA PlaceDeploy ==
    ASSUME TypeOK, NEW i \in AllJobs, PlaceInv(i), Deploy(i)
    PROVE  PlaceInv(i)'
<1>1. /\ Active(i) /\ Kept(i) /\ stateBase'[i] = stateBase[i]
      /\ phase'[i] \in {"deploying", "recording", "forgetting", "writeback", "done"}
  BY DEF Deploy, VendorAnswers, ScreenTenant, CreateAnswered, CreateUnanswered, UpdateAccepted,
     DeleteAccepted, DeleteUnanswered, VendorRefuses, RecordCreated, RecordDeleted, RecordFails,
     ForgetFails, DeployEnds, Due, CallMade, RunStops, Settle, AfterDeploy, Active, Deploying,
     Kept, TypeOK, JobTypes
<1> QED
  BY <1>1, PlaceIdle DEF Pushing

LEMMA PlaceWriteback ==
    ASSUME TypeOK, NEW i \in AllJobs, PlaceInv(i), Writeback(i)
    PROVE  PlaceInv(i)'
<1>1. ASSUME NEW edits \in BOOLEAN, NEW valid \in BOOLEAN, CommitWriteback(i, edits, valid)
      PROVE  PlaceInv(i)'
  <2>1. /\ phase[i] = "writeback" /\ UNCHANGED <<tip, moved, stateBase>> /\ behind'[i] = moved[i]
        /\ head'[i] = Commit(stateBase[i], work[i])
    BY <1>1 DEF CommitWriteback, TypeOK, JobTypes, RunnerTypes
  <2> QED
    BY <2>1, CommitFields DEF PlaceInv, Placed, AtTip, Active, WritingBack
<1>2. CASE \/ \E valid \in BOOLEAN : NothingToCommit(i, valid)
           \/ PushAccepted(i) \/ GivesUp(i) \/ NothingToReplay(i) \/ RetryFails(i)
  <2>1. phase'[i] = "done"
    BY <1>2 DEF NothingToCommit, PushAccepted, GivesUp, NothingToReplay, RetryFails,
       ExitsUnpublished, Exits, TypeOK, JobTypes
  <2> QED
    BY <2>1, PlaceIdle DEF Pushing, Active, Deploying, WritingBack
<1>3. CASE PushUnacknowledged(i)
  <2>1. /\ phase[i] = "pushing" /\ stateBase' = stateBase /\ head' = head
        /\ carries'[i] = "nothing" <=> carries[i] = "nothing"
    BY <1>3 DEF PushUnacknowledged, FastForward, TypeOK, RunnerTypes
  <2>2. \/ carries[i] = "nothing" /\ UNCHANGED <<tip, moved>>
        \/ moved'[i] /\ tip' = head[i]
    BY <1>3 DEF PushUnacknowledged, TipIsHead
  <2> QED
    BY <2>1, <2>2 DEF PlaceInv, Placed, AtTip, Active, WritingBack
<1>4. CASE PushRejected(i) \/ RebaseOntoSame(i)
  <2>1. /\ Pushing(i) /\ Active(i)
        /\ UNCHANGED <<tip, moved, behind, stateBase, head, carries>>
    BY <1>4 DEF PushRejected, RebaseOntoSame, Pushing, Active, WritingBack
  <2> QED
    BY <2>1 DEF PlaceInv, Placed, AtTip
<1>5. CASE Rebase(i) \/ ReplayState(i)
  <2>1. /\ phase[i] = "rebasing" /\ UNCHANGED <<tip, moved, stateBase>>
        /\ head'[i] = tip \/ head'[i].parent = tip.tree
    BY <1>5, CommitFields DEF Rebase, ReplayState, TypeOK, RunnerTypes
  <2> QED
    BY <2>1 DEF PlaceInv, Placed, AtTip, Active, WritingBack
<1> QED
  BY <1>1, <1>2, <1>3, <1>4, <1>5 DEF Writeback

-----------------------------------------------------------------------------
\* A binding of the branch is live in silence: its id was published and is live,
\* the branch does not hold it, and nothing was reported.
LEMMA DroppedBefore ==
    ASSUME DropInv, IdInv', WorldStep, NEW b \in Bindings, NEW id \in remote'[b],
           fate[id] = "published"
    PROVE  tip.tree[b] = id \/ \E c \in conflicts' : c[1] = b /\ c[3] = id
<1>1. id \in remote[b]
  <2>1. id # nextId
    <3> SUFFICES ASSUME id = nextId PROVE FALSE
      OBVIOUS
    <3>1. nextId \in Ids
      BY DEF IdInv, IInv, TypeOK, VendorTypes
    <3> QED
      BY <3>1, NextIsNew DEF DropInv
  <2> QED
    BY <2>1, LiveBefore DEF DropInv
<1> QED
  BY <1>1 DEF DropInv, NothingDroppedSilently, WorldStep

\* The branch stays as it is, and so does what is published.
LEMMA TipStays ==
    ASSUME DropInv, IdInv', WorldStep, tip' = tip,
           \A id \in Ids : fate'[id] = "published" => fate[id] = "published"
    PROVE  tip' \in Harmless' /\ NothingDroppedSilently'
<1>1. tip \in Harmless'
  BY HarmlessStays DEF DropInv, IdInv, TipPublic
<1>2. \A b \in Bindings : remote'[b] \subseteq Ids
  BY DEF IdInv, IInv, TypeOK, VendorTypes
<1>3. NothingDroppedSilently'
  BY <1>2, DroppedBefore DEF NothingDroppedSilently
<1> QED
  BY <1>1, <1>3

\* A push: HEAD sat on the branch, and changed no id that was not spent.
LEMMA TipPushed ==
    ASSUME DropInv, IdInv', WorldStep, NEW i \in AllJobs, FastForward(i), TipIsHead(i),
           fate' = OnTip(head[i].tree)
    PROVE  tip' \in Harmless' /\ NothingDroppedSilently'
<1>0. /\ Pushing(i) /\ MapInv(i) /\ HarmlessInv(i) /\ Placed(i) /\ HomeOf(i)
      /\ \A b \in Bindings : remote'[b] \subseteq Ids
  BY DEF DropInv, IdInv, PlaceInv, FastForward, Pushing, IInv, TypeOK, VendorTypes
<1>1. CASE carries[i] = "nothing"
  <2>1. tip' = tip
    BY <1>1 DEF TipIsHead
  <2>2. \A id \in Ids : fate'[id] = "published" => fate[id] = "published"
    BY <1>0, <1>1 DEF OnTip, HarmlessInv, PublicMaps, Ids, NoId
  <2> QED
    BY <2>1, <2>2, TipStays
<1>2. CASE carries[i] # "nothing"
  <2>1. tip' = head[i] /\ (head[i].parent = tip.tree \/ head[i].tree = tip.tree)
    BY <1>0, <1>2 DEF TipIsHead, Placed, FastForward
  <2>2. tip' \in Harmless'
    BY <1>0, <2>1, HarmlessStays DEF HarmlessInv, MapInv, DropInv
  <2>3. ASSUME NEW b \in Bindings, NEW id \in remote'[b], fate'[id] = "published"
        PROVE  head[i].tree[b] = id \/ \E c \in conflicts' : c[1] = b /\ c[3] = id
    <3>0. id \in Ids
      BY <1>0
    <3>1. CASE fate[id] = "published"
      <4>1. CASE tip.tree[b] = id /\ head[i].tree[b] # id
        <5>1. head[i].parent[b] = id /\ head[i].parent[b] # head[i].tree[b]
          BY <2>1, <4>1
        <5>2. \/ id = NoId \/ id \notin remote'[b]
              \/ \E c \in conflicts' : c[1] = b /\ c[3] = id
          BY <2>1, <2>2, <5>1 DEF Harmless, Spent
        <5> QED
          BY <3>0, <5>2 DEF Ids, NoId
      <4> QED
        BY <3>1, <4>1, DroppedBefore
    <3>2. CASE fate[id] # "published"
      <4>1. PICK c \in Bindings : head[i].tree[c] = id /\ fate[id] = "recorded"
        BY <2>3, <3>0, <3>2 DEF OnTip
      <4>2. work[i][c] = id /\ IsRecorded(work[i][c])
        BY <1>0, <3>0, <4>1 DEF MapInv, OwnMaps, IsRecorded, Ids, NoId
      <4>3. id # nextId
        <5> SUFFICES ASSUME id = nextId PROVE FALSE
          OBVIOUS
        <5> QED
          BY <3>0, <4>1, NextIsNew DEF DropInv
      <4>4. id \in remote[b]
        BY <4>3, LiveBefore DEF DropInv
      <4> QED
        BY <1>0, <4>1, <4>2, <4>4 DEF HomeOf
    <3> QED
      BY <3>1, <3>2
  <2> QED
    BY <2>1, <2>2, <2>3 DEF NothingDroppedSilently
<1> QED
  BY <1>1, <1>2

\* Every other step of a job leaves the branch, and publishes nothing.
LEMMA TipOfJob ==
    ASSUME DropInv, IdInv', WorldStep, NEW i \in AllJobs, Runner(i) \/ Deploy(i) \/ Writeback(i)
    PROVE  tip' \in Harmless' /\ NothingDroppedSilently'
<1>0. fate \in [Ids -> Fates]
  BY DEF DropInv, IdInv, IInv, TypeOK, HistoryTypes
<1>1. CASE PushAccepted(i) \/ PushUnacknowledged(i)
  BY <1>1, TipPushed DEF PushAccepted, PushUnacknowledged
<1>2. CASE Runner(i)
  <2>1. tip' = tip /\ \A id \in Ids : fate'[id] = "published" => fate[id] = "published"
    BY <1>2
    DEF Runner, Start, StartFails, Rerun, StartStaging, BeginDeploy, Interrupt, CancelWriteback,
       Kill, FreshBecome, PendingLost
  <2> QED
    BY <2>1, TipStays
<1>3. CASE Deploy(i)
  <2>1. tip' = tip
    BY <1>3
    DEF Deploy, VendorAnswers, ScreenTenant, CreateAnswered, CreateUnanswered, UpdateAccepted,
       DeleteAccepted, DeleteUnanswered, VendorRefuses, RecordCreated, RecordDeleted, RecordFails,
       ForgetFails, DeployEnds
  <2>2. \/ fate' = fate
        \/ \E x, f : fate' = [fate EXCEPT ![x] = f] /\ f \in {"pending", "unknown", "recorded"}
    BY <1>3
    DEF Deploy, VendorAnswers, ScreenTenant, CreateAnswered, CreateUnanswered, UpdateAccepted,
       DeleteAccepted, DeleteUnanswered, VendorRefuses, RecordCreated, RecordDeleted, RecordFails,
       ForgetFails, DeployEnds
  <2>3. \A id \in Ids : fate'[id] = "published" => fate[id] = "published"
    BY <1>0, <2>2
  <2> QED
    BY <2>1, <2>3, TipStays
<1>4. CASE Writeback(i) /\ ~(PushAccepted(i) \/ PushUnacknowledged(i))
  <2>1. tip' = tip
    BY <1>4
    DEF Writeback, CommitWriteback, NothingToCommit, PushRejected, GivesUp, RetryFails,
        ExitsUnpublished, Rebase, RebaseOntoSame, ReplayState, NothingToReplay
  <2>2. fate' = fate \/ fate' = FreshBecome(i, "printed", fate)
    BY <1>4
    DEF Writeback, CommitWriteback, NothingToCommit, PushRejected, GivesUp, RetryFails,
        ExitsUnpublished, Rebase, RebaseOntoSame, ReplayState, NothingToReplay
  <2>3. \A id \in Ids : fate'[id] = "published" => fate[id] = "published"
    BY <2>2 DEF FreshBecome
  <2> QED
    BY <2>1, <2>3, TipStays
<1> QED
  BY <1>1, <1>2, <1>3, <1>4

LEMMA TipOfOperator ==
    ASSUME DropInv, IdInv', WorldStep, Operator
    PROVE  tip' \in Harmless' /\ NothingDroppedSilently'
<1>0. /\ tip.tree \in ShardMaps /\ tip' \in Commits /\ remote \in [Bindings -> SUBSET Ids]
      /\ fate \in [Ids -> Fates]
  BY DEF DropInv, IdInv, TipPublic, PublicMaps, IInv, TypeOK, BranchTypes, VendorTypes, HistoryTypes
<1>1. ASSUME NEW w \in Wants, Push(w) PROVE tip' \in Harmless' /\ NothingDroppedSilently'
  <2>1. tip' = Commit(tip.tree, tip.tree) /\ UNCHANGED <<fate, remote, conflicts>>
    BY <1>1 DEF Push, TipMoves
  <2> QED
    BY <1>0, <2>1, CommitFields DEF Harmless, NothingDroppedSilently, DropInv
<1>2. ASSUME NEW b \in Bindings, NEW id \in Ids, RecordByHand(b, id)
      PROVE  tip' \in Harmless' /\ NothingDroppedSilently'
  <2>1. /\ tip'.parent = tip.tree /\ UNCHANGED <<remote, conflicts>>
        /\ \A c \in Bindings : tip'.tree[c] = IF c = b THEN id ELSE tip.tree[c]
        /\ \A x \in Ids : fate'[x] = IF x = id THEN "published" ELSE fate[x]
        /\ tip.tree[b] = NoId /\ id \in remote[b]
    BY <1>0, <1>2, CommitFields DEF RecordByHand, TipMoves, Bind, ShardMaps
  <2>2. tip' \in Harmless'
    BY <1>0, <2>1 DEF Harmless, Spent
  <2>3. ASSUME NEW c \in Bindings, NEW x \in remote'[c], fate'[x] = "published"
        PROVE  tip'.tree[c] = x \/ \E k \in conflicts' : k[1] = c /\ k[3] = x
    <3>1. CASE x = id
      BY <2>1, <2>3, <3>1 DEF DropInv, HomeInv
    <3>2. CASE x # id
      <4>1. x \in Ids /\ x # NoId /\ fate[x] = "published"
        BY <1>0, <2>1, <2>3, <3>2 DEF Ids, NoId
      <4>2. tip.tree[c] = x \/ \E k \in conflicts' : k[1] = c /\ k[3] = x
        BY <4>1, DroppedBefore
      <4> QED
        BY <2>1, <4>1, <4>2
    <3> QED
      BY <3>1, <3>2
  <2> QED
    BY <2>2, <2>3 DEF NothingDroppedSilently
<1>3. ASSUME NEW b \in Bindings, RemoveByHand(b)
      PROVE  tip' \in Harmless' /\ NothingDroppedSilently'
  <2>1. /\ tip'.parent = tip.tree /\ UNCHANGED <<fate, conflicts>>
        /\ \A c \in Bindings : tip'.tree[c] = IF c = b THEN NoId ELSE tip.tree[c]
        /\ \A c \in Bindings : remote'[c] = IF c = b THEN remote[b] \ {tip.tree[b]} ELSE remote[c]
    BY <1>0, <1>3, CommitFields DEF RemoveByHand, TipMoves, Unbind, ShardMaps
  <2>2. tip' \in Harmless'
    BY <1>0, <2>1 DEF Harmless, Spent
  <2>3. NothingDroppedSilently'
    BY <2>1 DEF DropInv, NothingDroppedSilently
  <2> QED
    BY <2>2, <2>3
<1> QED
  BY <1>1, <1>2, <1>3 DEF Operator

LEMMA DropNext == ASSUME DropInv, [Next]_vars PROVE DropInv'
<1>0. IdInv /\ IdInv' /\ WorldStep /\ IInv /\ TypeOK
  BY IdNext, WorldNext DEF DropInv, IdInv, IInv
<1>1. MadeInv' /\ HomeInv'
  BY <1>0, MadeNext DEF DropInv
<1>2. \A j \in AllJobs : HomeOf(j)'
  BY <1>0, HomeNext DEF DropInv
<1>3. CASE Operator
  <2>1. ASSUME NEW j \in AllJobs PROVE HarmlessInv(j)' /\ PlaceInv(j)'
    <3>1. (Same(j) /\ Overtaken(j)) \/ Triggered(j)
      BY <1>0, <1>3, OperatorSteps
    <3>2. HarmlessInv(j)'
      BY <1>0, <3>1, HarmlessSame DEF DropInv
    <3>3. CASE Triggered(j)
      <4>1. ~Pushing(j)' /\ ~Active(j)'
        BY <3>3 DEF Triggered, Pushing, Active, Deploying, WritingBack
      <4>2. PlaceInv(j)
        BY DEF DropInv
      <4>3. PlaceInv(j)'
        BY <4>1, <4>2, PlaceIdle
      <4> QED
        BY <3>2, <4>3
    <3> QED
      BY <3>1, <3>2, <3>3, PlaceSame DEF DropInv
  <2> QED
    BY <1>0, <1>1, <1>2, <1>3, <2>1, TipOfOperator DEF DropInv
<1>4. ASSUME NEW i \in AllJobs, Runner(i) \/ Deploy(i) \/ Writeback(i) PROVE DropInv'
  <2>1. HarmlessInv(i)' /\ PlaceInv(i)'
    BY <1>0, <1>4, HarmlessRunner, HarmlessDeploy, HarmlessWriteback,
       PlaceRunner, PlaceDeploy, PlaceWriteback DEF DropInv
  <2>2. ASSUME NEW j \in AllJobs, j # i PROVE HarmlessInv(j)' /\ PlaceInv(j)'
    <3>1. Same(j) /\ (Kept(j) \/ Overtaken(j))
      BY <1>0, <1>4, <2>2, RunnerLocal, DeployLocal, WritebackLocal, BranchLocal
    <3> QED
      BY <1>0, <3>1, HarmlessSame, PlaceSame DEF DropInv
  <2> QED
    BY <1>0, <1>1, <1>2, <1>4, <2>1, <2>2, TipOfJob DEF DropInv
<1>5. CASE UNCHANGED vars
  <2>1. \A j \in AllJobs : Same(j) /\ Kept(j)
    BY <1>5 DEF vars, Same, Kept
  <2>2. \A j \in AllJobs : HarmlessInv(j)' /\ PlaceInv(j)'
    BY <1>0, <2>1, HarmlessSame, PlaceSame DEF DropInv
  <2>3. tip' \in Harmless' /\ NothingDroppedSilently'
    BY <1>0, <1>5, TipStays DEF vars
  <2> QED
    BY <1>0, <1>1, <1>2, <2>2, <2>3 DEF DropInv
<1> QED
  BY <1>3, <1>4, <1>5 DEF Next, Settled

(***************************************************************************)
(* For every number of overlapping jobs, with retries, replays, lost answers *)
(* and acknowledgements, cancelled write-backs, re-runs and hand edits: the  *)
(* branch never loses the only handle on a live rule without a report.       *)
(***************************************************************************)
THEOREM DropsReported == Spec => []NothingDroppedSilently
<1>1. DropInv => NothingDroppedSilently
  BY DEF DropInv
<1> QED
  BY DropInit, DropNext, <1>1, PTL DEF Spec

-----------------------------------------------------------------------------
(***************************************************************************)
(* One production job at a time, and no hand edits. While a job runs, the    *)
(* branch holds what the job took, or, once a push of it landed               *)
(* unacknowledged, what the job made of that; its commits hold the latter.    *)
(***************************************************************************)
Line(j) ==
    /\ Active(j) => tip.tree = stateBase[j] \/ (Pushing(j) /\ tip.tree = work[j])
    /\ Pushing(j) => head[j].tree = work[j] /\ stateCommit[j].tree = work[j]
    /\ Pushing(j) /\ tip.tree # work[j] =>
           /\ head[j].parent = tip.tree /\ stateCommit[j].parent = tip.tree
           /\ carries[j] # "nothing"

Alone == \A i, j \in Jobs : Active(i) /\ Active(j) => i = j

QueueInv == conflicts = {} /\ Alone /\ \A j \in Jobs : Line(j)

LEMMA QueueInit == Init => QueueInv
BY DEF Init, QueueInv, Alone, Line, Active, Pushing, Deploying, WritingBack, Jobs, AllJobs

LEMMA LineSame ==
    ASSUME NEW j \in AllJobs, Line(j), Same(j), tip'.tree = tip.tree
    PROVE  Line(j)'
BY DEF Line, Same, Active, Pushing

LEMMA LineIdle ==
    ASSUME NEW j \in AllJobs, ~Pushing(j)', Active(j)' => stateBase'[j] = tip'.tree
    PROVE  Line(j)'
BY DEF Line

\* With no hand edits the operators' merges leave the shards alone.
LEMMA MergesOnly ==
    ASSUME HandEdits = 0, TypeOK, Operator
    PROVE  tip'.tree = tip.tree /\ UNCHANGED <<conflicts, remote, fate>>
<1>1. ASSUME NEW w \in Wants, Push(w)
      PROVE  tip'.tree = tip.tree /\ UNCHANGED <<conflicts, remote, fate>>
  BY <1>1, CommitFields DEF Push, TipMoves
<1>2. handEdits = 0
  BY DEF TypeOK, BranchTypes
<1> QED
  BY <1>1, <1>2 DEF Operator, RecordByHand, RemoveByHand

LEMMA LineRunner ==
    ASSUME TypeOK, NEW j \in Jobs, Line(j), Runner(j)
    PROVE  Line(j)' /\ tip' = tip /\ conflicts' = conflicts
<1>0. j \in AllJobs /\ tip' = tip /\ conflicts' = conflicts
  BY DEF AllJobs, Runner, Start, StartFails, Rerun, StartStaging, BeginDeploy, Interrupt,
     CancelWriteback, Kill
<1>1. CASE Start(j) \/ (\E w \in Wants : StartStaging(j, w))
  <2>1. phase'[j] = "deploying" /\ stateBase'[j] = tip'.tree
    BY <1>0, <1>1 DEF Start, StartStaging, BeginDeploy, Overlay, TypeOK, JobTypes, RunnerTypes
  <2> QED
    BY <1>0, <2>1, LineIdle DEF Pushing
<1>2. CASE StartFails(j) \/ Rerun(j) \/ Kill(j)
  <2>1. phase'[j] \in {"queued", "done", "dead"}
    BY <1>0, <1>2 DEF StartFails, Rerun, Kill, TypeOK, JobTypes
  <2> QED
    BY <1>0, <2>1, LineIdle DEF Pushing, Active, Deploying, WritingBack
<1>3. CASE Interrupt(j)
  <2>1. /\ phase[j] \in Deploying /\ phase'[j] \in {"done", "writeback"}
        /\ stateBase'[j] = stateBase[j]
    BY <1>0, <1>3 DEF Interrupt, RunStops, AfterDeploy, TypeOK, JobTypes
  <2> QED
    BY <1>0, <2>1, LineIdle DEF Line, Pushing, Active, Deploying, WritingBack
<1>4. CASE CancelWriteback(j)
  <2>1. /\ Pushing(j) /\ phase'[j] = "pushing"
        /\ work' = work /\ stateBase' = stateBase
        /\ head'[j] = Commit(stateBase[j], head[j].tree)
        /\ stateCommit'[j] = Commit(stateBase[j], head[j].tree)
        /\ carries'[j] # "nothing"
    BY <1>0, <1>4 DEF CancelWriteback, Pushing, TypeOK, JobTypes, RunnerTypes
  <2> QED
    BY <1>0, <2>1, CommitFields DEF Line, Pushing, Active, WritingBack
<1> QED
  BY <1>0, <1>1, <1>2, <1>3, <1>4 DEF Runner

LEMMA LineDeploy ==
    ASSUME TypeOK, NEW j \in AllJobs, Line(j), Deploy(j)
    PROVE  Line(j)' /\ tip' = tip /\ conflicts' = conflicts
<1>1. /\ phase[j] \in Deploying /\ tip' = tip /\ stateBase'[j] = stateBase[j]
      /\ conflicts' = conflicts
      /\ phase'[j] \in {"deploying", "recording", "forgetting", "writeback", "done"}
  BY DEF Deploy, VendorAnswers, ScreenTenant, CreateAnswered, CreateUnanswered, UpdateAccepted,
     DeleteAccepted, DeleteUnanswered, VendorRefuses, RecordCreated, RecordDeleted, RecordFails,
     ForgetFails, DeployEnds, Due, CallMade, RunStops, Settle, AfterDeploy, Deploying,
     TypeOK, JobTypes
<1> QED
  BY <1>1, LineIdle DEF Line, Pushing, Active, Deploying, WritingBack

\* Replaying a job's changes on what it took, or on what it made of that, is what it made.
LEMMA ReplayInLine ==
    ASSUME NEW base \in ShardMaps, NEW ours \in ShardMaps, NEW onto \in ShardMaps,
           onto # ours => base = onto
    PROVE  Replay(base, ours, onto) = ours /\ ReplayConflicts(base, ours, onto) = {}
<1>1. Replay(base, ours, onto) = ours
  <2>1. \A b \in Bindings : Replay(base, ours, onto)[b] = ours[b]
    BY DEF Replay, Delta
  <2> QED
    BY <2>1, ReplayType DEF ShardMaps
<1>2. ReplayConflicts(base, ours, onto) = {}
  BY DEF ReplayConflicts, Delta
<1> QED
  BY <1>1, <1>2

LEMMA LineWriteback ==
    ASSUME TypeOK, NEW j \in AllJobs, Line(j), Writeback(j), conflicts = {}
    PROVE  Line(j)' /\ conflicts' = {}
<1>0. /\ head[j] \in Commits /\ stateCommit[j] \in Commits /\ tip \in Commits
      /\ work[j] \in ShardMaps
  BY DEF TypeOK, RunnerTypes, BranchTypes
<1>1. ASSUME NEW edits \in BOOLEAN, NEW valid \in BOOLEAN, CommitWriteback(j, edits, valid)
      PROVE  Line(j)' /\ conflicts' = conflicts
  <2>1. /\ phase[j] = "writeback" /\ phase'[j] = "pushing" /\ tip' = tip
        /\ work' = work /\ stateBase' = stateBase /\ conflicts' = conflicts
        /\ head'[j] = Commit(stateBase[j], work[j])
        /\ stateCommit'[j] = Commit(stateBase[j], work[j])
        /\ carries'[j] # "nothing"
    BY <1>1 DEF CommitWriteback, TypeOK, JobTypes, RunnerTypes
  <2> QED
    BY <2>1, CommitFields DEF Line, Active, Pushing, Deploying, WritingBack
<1>2. CASE \/ \E valid \in BOOLEAN : NothingToCommit(j, valid)
           \/ PushAccepted(j) \/ GivesUp(j) \/ RetryFails(j) \/ NothingToReplay(j)
  <2>1. phase'[j] = "done" /\ conflicts' = conflicts
    BY <1>2 DEF NothingToCommit, PushAccepted, GivesUp, RetryFails, NothingToReplay,
       ExitsUnpublished, Exits, TypeOK, JobTypes
  <2> QED
    BY <2>1, LineIdle DEF Pushing, Active, Deploying, WritingBack
<1>3. CASE PushRejected(j) \/ RebaseOntoSame(j)
  <2>1. /\ Pushing(j) /\ Pushing(j)' /\ tip' = tip /\ conflicts' = conflicts
        /\ UNCHANGED <<head, stateCommit, carries, work, stateBase>>
    BY <1>3 DEF PushRejected, RebaseOntoSame, Retries, Pushing, TypeOK, JobTypes
  <2> QED
    BY <2>1 DEF Line, Active, Pushing, WritingBack
<1>4. CASE PushUnacknowledged(j)
  <2>1. /\ Pushing(j) /\ Pushing(j)' /\ tip'.tree \in {tip.tree, head[j].tree}
        /\ conflicts' = conflicts /\ UNCHANGED <<head, stateCommit, work, stateBase>>
        /\ carries[j] = "nothing" => tip'.tree = tip.tree
        /\ carries[j] # "nothing" => tip'.tree = head[j].tree
    BY <1>4 DEF PushUnacknowledged, FastForward, TipIsHead, Retries, Pushing, TypeOK, JobTypes
  <2>2. tip'.tree = work[j]
    BY <2>1 DEF Line
  <2> QED
    BY <2>1, <2>2 DEF Line, Active, Pushing, WritingBack
<1>5. CASE Rebase(j)
  <2>1. phase[j] = "rebasing" /\ phase'[j] = "pushing"
    BY <1>5 DEF Rebase, TypeOK, JobTypes
  <2>2. Rebased(j) = work[j]
    BY <1>0, <2>1, ReplayInLine DEF Rebased, Line, Pushing, Commits
  <2>3. /\ UNCHANGED <<tip, stateCommit, work, stateBase, conflicts>>
        /\ \/ tip.tree = work[j] /\ head'[j] = tip
           \/ /\ head'[j] = Commit(tip.tree, work[j])
              /\ tip.tree = work[j] \/ carries'[j] # "nothing"
    BY <1>5, <2>2 DEF Rebase, Dropped, TypeOK, RunnerTypes
  <2> QED
    BY <2>1, <2>3, CommitFields DEF Line, Active, Pushing, WritingBack
<1>6. CASE ReplayState(j)
  <2>1. phase[j] = "rebasing" /\ phase'[j] = "pushing"
    BY <1>6 DEF ReplayState, TypeOK, JobTypes
  <2>2. /\ Replayed(j) = work[j]
        /\ ReplayConflicts(stateCommit[j].parent, stateCommit[j].tree, tip.tree) = {}
    BY <1>0, <2>1, ReplayInLine DEF Replayed, Line, Pushing, Commits
  <2>3. conflicts' = {}
    BY <1>6, <2>2 DEF ReplayState, ReportConflicts
  <2>4. /\ UNCHANGED <<tip, work, stateBase>> /\ carries'[j] = "shards"
        /\ head'[j] = Commit(tip.tree, work[j]) /\ stateCommit'[j] = Commit(tip.tree, work[j])
    BY <1>6, <2>2 DEF ReplayState, TypeOK, RunnerTypes
  <2> QED
    BY <2>1, <2>3, <2>4, CommitFields DEF Line, Active, Pushing, WritingBack
<1> QED
  BY <1>1, <1>2, <1>3, <1>4, <1>5, <1>6 DEF Writeback

\* A job of a merge that is not running leaves the branch, and starts when none runs.
LEMMA QueuedStep ==
    ASSUME TypeOK, Queued, NEW i \in Jobs, Runner(i) \/ Deploy(i) \/ Writeback(i), ~Active(i)
    PROVE  Active(i)' => \A j \in Jobs : ~Active(j)
<1>0. i \in AllJobs
  BY DEF AllJobs
<1>1. i \notin Staging
  BY ParametersAssumption
<1>2. CASE Deploy(i) \/ Writeback(i)
  BY <1>0, <1>2, WritebackPhases
  DEF Active, Deploying, WritingBack, Deploy, VendorAnswers, ScreenTenant, CreateAnswered,
     CreateUnanswered, UpdateAccepted, DeleteAccepted, DeleteUnanswered, VendorRefuses, Due,
     RecordCreated, RecordDeleted, RecordFails, ForgetFails, DeployEnds
<1>3. CASE Runner(i)
  BY <1>0, <1>1, <1>3
  DEF Runner, Start, Turn, StartFails, Rerun, Interrupt, CancelWriteback, Kill, Active,
      Deploying, WritingBack, TypeOK, JobTypes
<1> QED
  BY <1>2, <1>3

LEMMA QueueNext ==
    ASSUME Queued, HandEdits = 0, IInv, \A j \in Staging : ReviewInv(j), QueueInv, [Next]_vars
    PROVE  QueueInv'
<1>0. TypeOK /\ Jobs \subseteq AllJobs
  BY DEF IInv, AllJobs
<1>1. CASE Operator
  <2>1. ASSUME NEW j \in Jobs PROVE Line(j)' /\ (Active(j)' => Active(j))
    <3>1. (Same(j) /\ Overtaken(j)) \/ Triggered(j)
      BY <1>0, <1>1, OperatorSteps
    <3>2. CASE Triggered(j)
      BY <1>0, <3>2, LineIdle DEF Triggered, Pushing, Active, Deploying, WritingBack
    <3>3. CASE Same(j)
      BY <1>0, <1>1, <3>3, LineSame, MergesOnly DEF QueueInv, Same, Active
    <3> QED
      BY <3>1, <3>2, <3>3
  <2> QED
    BY <1>0, <1>1, <2>1, MergesOnly DEF QueueInv, Alone
<1>2. ASSUME NEW i \in AllJobs, Runner(i) \/ Deploy(i) \/ Writeback(i) PROVE QueueInv'
  <2>1. ASSUME NEW j \in Jobs, j # i PROVE Same(j) /\ Active(j)' = Active(j)
    BY <1>0, <1>2, <2>1, RunnerLocal, DeployLocal, WritebackLocal DEF Same, Active
  <2>2. CASE i \in Staging
    <3>1. ~Writeback(i) /\ i \notin Jobs
      BY <1>0, <2>2, WritebackPhases, ParametersAssumption DEF ReviewInv, WritingBack
    <3>2. tip' = tip /\ conflicts' = conflicts
      BY <1>2, <3>1
      DEF Runner, Start, StartFails, Rerun, StartStaging, BeginDeploy, Interrupt,
         CancelWriteback, Kill, Deploy, VendorAnswers, ScreenTenant, CreateAnswered,
         CreateUnanswered, UpdateAccepted, DeleteAccepted, DeleteUnanswered, VendorRefuses,
         RecordCreated, RecordDeleted, RecordFails, ForgetFails, DeployEnds
    <3> QED
      BY <1>0, <2>1, <3>1, <3>2, LineSame DEF QueueInv, Alone
  <2>3. CASE i \in Jobs
    <3>1. Line(i)' /\ conflicts' = {} /\ (~Writeback(i) => tip' = tip)
      BY <1>0, <1>2, <2>3, LineRunner, LineDeploy, LineWriteback DEF QueueInv
    <3>2. Writeback(i) => Active(i)
      BY <1>0, WritebackPhases DEF Active
    <3>3. Active(i)' /\ ~Active(i) => \A j \in Jobs : ~Active(j)
      BY <1>0, <1>2, <2>3, QueuedStep
    <3>4. ASSUME NEW j \in Jobs, j # i PROVE Line(j)' /\ ~(Active(j)' /\ Active(i)')
      <4>1. ~(Active(j)' /\ Active(i)')
        BY <2>1, <2>3, <3>3, <3>4 DEF QueueInv, Alone
      <4>2. CASE Active(j)
        <5>1. tip' = tip
          BY <2>3, <3>1, <3>2, <3>4, <4>2 DEF QueueInv, Alone
        <5> QED
          BY <1>0, <2>1, <3>4, <4>1, <5>1, LineSame DEF QueueInv
      <4>3. CASE ~Active(j)
        <5>1. ~Active(j)' /\ ~Pushing(j)'
          BY <2>1, <3>4, <4>3 DEF Same, Pushing, Active, WritingBack
        <5> QED
          BY <1>0, <4>1, <5>1, LineIdle
      <4> QED
        BY <4>2, <4>3
    <3>5. Alone'
      <4>1. \A j \in Jobs : j # i => (Active(j)' = Active(j) /\ ~(Active(j)' /\ Active(i)'))
        BY <2>1, <3>4
      <4> QED
        BY <4>1 DEF QueueInv, Alone
    <3>6. \A j \in Jobs : Line(j)'
      BY <3>1, <3>4
    <3> QED
      BY <3>1, <3>5, <3>6 DEF QueueInv
  <2> QED
    BY <2>2, <2>3 DEF AllJobs
<1>3. CASE UNCHANGED vars
  <2>1. \A j \in Jobs : Same(j) /\ tip'.tree = tip.tree /\ Active(j)' = Active(j)
    BY <1>3 DEF vars, Same, Active
  <2> QED
    BY <1>0, <1>3, <2>1, LineSame DEF QueueInv, Alone, vars
<1> QED
  BY <1>1, <1>2, <1>3 DEF Next, Settled

-----------------------------------------------------------------------------
\* Where no conflict was ever reported, the branch holds every published live id.
LEMMA PublishedKnown ==
    ASSUME DropInv, conflicts = {}, NEW b \in Bindings, NEW id \in remote[b],
           fate[id] = "published"
    PROVE  tip.tree[b] = id
BY DEF DropInv, NothingDroppedSilently

\* A recorded live id is with a running job where the branch has no live id.
LEMMA RecordedKnown ==
    ASSUME DropInv, QueueInv, NEW b \in Bindings, NEW id \in remote[b], fate[id] = "recorded"
    PROVE  \E j \in Jobs : Active(j) /\ work[j][b] = id /\ tip.tree[b] \notin remote[b]
<1>0. id \in Ids /\ id # NoId /\ remote \in [Bindings -> SUBSET Ids]
  BY DEF DropInv, IdInv, IInv, TypeOK, VendorTypes, Ids, NoId
<1>1. PICK j \in Jobs, c \in Bindings : work[j][c] = id
  BY <1>0 DEF DropInv, IdInv, SomewhereInv
<1>2. j \in AllJobs /\ IsRecorded(work[j][c])
  BY <1>0, <1>1 DEF AllJobs, IsRecorded
<1>3. c = b /\ Active(j)
  BY <1>1, <1>2 DEF DropInv, IdInv, HomeOf, MapInv
<1>4. tip.tree[b] # id /\ stateBase[j][b] # id
  BY <1>0, <1>2 DEF DropInv, IdInv, TipPublic, MapInv, PublicMaps
<1>5. stateBase[j][b] \notin remote[b]
  <2>1. Commit(stateBase[j], work[j]) \in Harmless
    BY <1>2 DEF DropInv, HarmlessInv
  <2>2. Spent(b, stateBase[j][b])
    BY <1>1, <1>3, <1>4, <2>1, CommitFields DEF Harmless
  <2> QED
    BY <1>0, <2>2 DEF Spent, QueueInv, Ids, NoId
<1>6. tip.tree = stateBase[j]
  BY <1>1, <1>3, <1>4 DEF QueueInv, Line
<1> QED
  BY <1>1, <1>3, <1>5, <1>6

(***************************************************************************)
(* One production job at a time and no hand edits: on every tenant a rule has *)
(* at most one live copy among those whose ids were recorded, however often  *)
(* jobs are re-run, killed or cancelled and their pushes rejected, lost or    *)
(* replayed.                                                                *)
(***************************************************************************)
THEOREM NoRuleTwice ==
    ASSUME Queued, HandEdits = 0 PROVE Spec => []NoDuplicate
<1> DEFINE Inv == DropInv /\ QueueInv
<1>1. Init => Inv
  BY DropInit, QueueInit
<1>2. Inv /\ [Next]_vars => Inv'
  BY DropNext, QueueNext DEF DropInv, IdInv
<1>3. Inv => NoDuplicate
  <2> SUFFICES ASSUME Inv, NEW b \in Bindings PROVE Cardinality(KnownLive(b)) <= 1
    BY DEF NoDuplicate
  <2>1. ASSUME NEW x \in KnownLive(b), NEW y \in KnownLive(b) PROVE x = y
    <3>1. CASE fate[x] = "published" /\ fate[y] = "published"
      BY <3>1, PublishedKnown DEF KnownLive, QueueInv
    <3>2. CASE fate[x] = "recorded" /\ fate[y] = "recorded"
      <4>1. PICK i \in Jobs : Active(i) /\ work[i][b] = x
        BY <3>2, RecordedKnown DEF KnownLive
      <4>2. PICK j \in Jobs : Active(j) /\ work[j][b] = y
        BY <3>2, RecordedKnown DEF KnownLive
      <4> QED
        BY <4>1, <4>2 DEF QueueInv, Alone
    <3>3. CASE (fate[x] = "recorded") # (fate[y] = "recorded")
      BY <3>3, RecordedKnown, PublishedKnown DEF KnownLive, QueueInv
    <3> QED
      BY <3>1, <3>2, <3>3 DEF KnownLive
  <2>2. CASE KnownLive(b) = {}
    BY <2>2, FS_EmptySet
  <2>3. CASE KnownLive(b) # {}
    <3>1. PICK x : KnownLive(b) = {x}
      BY <2>1, <2>3
    <3>2. Cardinality({x}) = 1
      BY FS_Singleton
    <3> QED
      BY <3>1, <3>2
  <2> QED
    BY <2>2, <2>3
<1> QED
  BY <1>1, <1>2, <1>3, PTL DEF Spec

-----------------------------------------------------------------------------
(***************************************************************************)
(* TenantsMatchNewestMerge. Settles: id, held for binding b, is what job j's  *)
(* change asks of the tenant. A job that did not fail has settled each of its *)
(* bindings once nothing is planned, pending or still to be screened for it;  *)
(* and what it did not change it left alone.                                *)
(***************************************************************************)
Status(j, b) == StatusIn(j, want[j], b[1])
Settles(j, b, id) ==
    /\ Asks(j, b[1], "RELEASE") => id \in remote[b]
    /\ Asks(j, b[1], "DELETION") => id = NoId
    /\ Asks(j, b[1], "DISABLEMENT") => id = NoId \/ id \in remote[b]

\* Nothing of job j is under way for the binding.
Quiet(j, b) == b \notin todo[j] /\ plan[j][b].kind = "none" /\ b \notin pending[j].at

\* The calls under way are what the change asks for.
AskedCall(j, b) ==
    /\ plan[j][b].kind = "create" => Status(j, b) \notin Retiring
    /\ plan[j][b].kind = "update" => Status(j, b) # "DELETION" /\ plan[j][b].id = work[j][b]
    /\ plan[j][b].kind = "delete" => Status(j, b) = "DELETION"
    /\ phase[j] = "recording" /\ b \in pending[j].at =>
           Status(j, b) \notin Retiring /\ pending[j].id \in remote[b]
    /\ phase[j] = "forgetting" /\ b \in pending[j].at => Status(j, b) = "DELETION"

RunInv(j) ==
    Active(j) =>
        \A b \in Bindings :
            /\ AskedCall(j, b)
            /\ want[j][b[1]] = Unchanged => Quiet(j, b) /\ work[j][b] = stateBase[j][b]
            /\ ~failed[j] /\ want[j][b[1]] # Unchanged /\ Quiet(j, b) =>
                   Settles(j, b, work[j][b])

\* What a job that succeeded asked for is there until a later merge changes the rule.
Succeeded(j) == phase[j] = "done" /\ ~failed[j]
MergeInv(j) ==
    Succeeded(j) =>
        \A b \in Bindings : LastToDeploy(j, b[1]) => Settles(j, b, tip.tree[b])

\* Jobs start in the order of their merges, once.
OrderInv(j) ==
    /\ phase[j] = "new" => want[j] = Nothing
    /\ j <= pushed => phase[j] # "new"
    /\ phase[j] \notin {"new", "queued"} => runs[j] # 0
    /\ Active(j) \/ Succeeded(j) => \A i \in Jobs : i < j => phase[i] \in {"done", "dead"}

TenantInv == \A j \in Jobs : RunInv(j) /\ MergeInv(j) /\ OrderInv(j)

LEMMA TenantInit == Init => TenantInv
<1> SUFFICES ASSUME Init, NEW j \in Jobs PROVE RunInv(j) /\ MergeInv(j) /\ OrderInv(j)
  BY DEF TenantInv
<1>1. j \in AllJobs /\ phase[j] = "new" /\ pushed = 0 /\ want[j] = Nothing /\ j \in Nat \ {0}
  BY DEF Init, AllJobs, Jobs
<1> QED
  BY <1>1 DEF RunInv, MergeInv, OrderInv, Succeeded, Active, Deploying, WritingBack

-----------------------------------------------------------------------------
\* A production job deploys whatever its change touches: previews are promoted.
LEMMA ProductionStatus ==
    ASSUME TypeOK, NEW j \in Jobs, NEW b \in Bindings, want[j][b[1]] # Unchanged
    PROVE  /\ Status(j, b) \in {"RELEASE", "DELETION", "DISABLEMENT"}
           /\ Accepts(Status(j, b), RunOf(j))
<1>1. j \notin Staging /\ j \in AllJobs
  BY ParametersAssumption DEF AllJobs
<1>2. Status(j, b) \in {"RELEASE", "DELETION", "DISABLEMENT"}
  BY <1>1 DEF Status, StatusIn, Promoted, NonPromotable
<1> QED
  BY <1>1, <1>2 DEF Accepts, Deploys, RunOf, Deployable, Retiring

\* plan_external_id calls for what the status asks; without a call a rule is either
\* refused or retired already.
LEMMA DecisionAsks ==
    ASSUME TypeOK, NEW j \in AllJobs, NEW b \in Bindings
    PROVE  LET d == Decision(j, b) IN
           /\ d.kind = "create" => Status(j, b) \notin Retiring
           /\ d.kind = "update" => Status(j, b) # "DELETION" /\ d.id = work[j][b]
           /\ d.kind = "delete" => Status(j, b) = "DELETION"
           /\ ~IsCall(d) /\ ~FailsRun(d) => work[j][b] = NoId /\ Status(j, b) \in Retiring
<1>1. work[j][b] \in MaybeId
  BY DEF TypeOK, RunnerTypes, ShardMaps
<1> QED
  BY <1>1
  DEF Decision, PlanExternalId, Act, Refuse, Status, IsCall, FailsRun, Calls, Codes, Retiring

LEMMA RunIdle == ASSUME NEW j \in AllJobs, ~Active(j)' PROVE RunInv(j)'
BY DEF RunInv

\* The run failed, and calls no more.
LEMMA RunStopped ==
    ASSUME NEW j \in AllJobs, RunInv(j), Active(j), failed'[j], NoCalls(j)',
           want' = want, work'[j] = work[j], stateBase'[j] = stateBase[j],
           phase'[j] \notin {"recording", "forgetting"}
    PROVE  RunInv(j)'
BY DEF RunInv, AskedCall, Quiet, NoCalls, NoPlan, NoCall, NoPending

\* The run goes on with what it has.
LEMMA RunSteady ==
    ASSUME NEW j \in AllJobs, RunInv(j), Active(j), failed[j] => failed'[j],
           UNCHANGED <<want, remote>>, todo'[j] = todo[j], plan'[j] = plan[j],
           pending'[j] = pending[j], work'[j] = work[j], stateBase'[j] = stateBase[j],
           phase'[j] \notin {"recording", "forgetting"}
    PROVE  RunInv(j)'
BY DEF RunInv, AskedCall, Status, Quiet, Settles, Asks

LEMMA RunSame ==
    ASSUME NEW j \in AllJobs, RunInv(j), Same(j), failed'[j] = failed[j],
           Active(j) => remote' = remote
    PROVE  RunInv(j)'
BY DEF RunInv, AskedCall, Status, StatusIn, Quiet, Settles, Asks, Same, Active

LEMMA RunStarts ==
    ASSUME TypeOK, NEW j \in Jobs, CallInv(j), Start(j)
    PROVE  RunInv(j)'
<1>1. /\ phase'[j] = "deploying" /\ plan'[j] = NoPlan /\ pending'[j] = NoPending
      /\ work'[j] = stateBase'[j] /\ want' = want /\ todo'[j] = Targets(j, want[j])
  BY DEF Start, BeginDeploy, TypeOK, JobTypes, RunnerTypes, DeployTypes, CallInv, Deploying, AllJobs
<1>2. ASSUME NEW b \in Bindings PROVE b \in todo'[j] <=> want[j][b[1]] # Unchanged
  BY <1>1, <1>2, ProductionStatus DEF Targets, Status
<1> QED
  BY <1>1, <1>2 DEF RunInv, AskedCall, Quiet, NoPlan, NoCall, NoPending

LEMMA RunScreens ==
    ASSUME TypeOK, NEW j \in AllJobs, CallInv(j), RunInv(j), NEW t \in Tenants, ScreenTenant(j, t)
    PROVE  RunInv(j)'
<1>1. /\ phase[j] = "deploying" /\ phase' = phase /\ pending' = pending
      /\ UNCHANGED <<work, stateBase, want, remote>>
      /\ todo'[j] = todo[j] \ (todo[j] \cap BindingsOf(t))
      /\ plan[j] = NoPlan /\ pending[j] = NoPending /\ Active(j)
  BY DEF ScreenTenant, TypeOK, DeployTypes, CallInv, Active, Deploying
<1> SUFFICES ASSUME NEW b \in Bindings
    PROVE  /\ AskedCall(j, b)'
           /\ (want[j][b[1]] = Unchanged => Quiet(j, b) /\ work[j][b] = stateBase[j][b])'
           /\ (~failed[j] /\ want[j][b[1]] # Unchanged /\ Quiet(j, b) => Settles(j, b, work[j][b]))'
  BY DEF RunInv
<1>2. plan'[j][b] = IF b \in todo[j] \cap BindingsOf(t) /\ IsCall(Decision(j, b))
                    THEN Decision(j, b) ELSE NoCall
  BY DEF ScreenTenant, TypeOK, DeployTypes
<1>3. /\ want[j][b[1]] = Unchanged => Quiet(j, b) /\ work[j][b] = stateBase[j][b]
      /\ ~failed[j] /\ want[j][b[1]] # Unchanged /\ Quiet(j, b) => Settles(j, b, work[j][b])
  BY <1>1 DEF RunInv
<1>4. AskedCall(j, b)'
  BY <1>1, <1>2, DecisionAsks DEF AskedCall, NoCall, Status
<1>5. (want[j][b[1]] = Unchanged => Quiet(j, b) /\ work[j][b] = stateBase[j][b])'
  BY <1>1, <1>2, <1>3 DEF Quiet, NoCall
<1>6. ASSUME ~failed'[j], want'[j][b[1]] # Unchanged, Quiet(j, b)'
      PROVE  Settles(j, b, work[j][b])'
  <2>1. CASE b \in todo[j] \cap BindingsOf(t)
    <3>1. ~IsCall(Decision(j, b))
      BY <1>2, <1>6, <2>1 DEF Quiet, IsCall, Calls
    <3>2. ~FailsRun(Decision(j, b)) /\ ~failed[j]
      BY <1>6, <2>1 DEF ScreenTenant, TypeOK, JobTypes
    <3>3. work[j][b] = NoId /\ Status(j, b) \in Retiring
      BY <3>1, <3>2, DecisionAsks
    <3> QED
      BY <1>1, <3>3 DEF Settles, Asks, Status, Retiring
  <2>2. CASE b \notin todo[j] \cap BindingsOf(t)
    <3>1. Quiet(j, b) /\ ~failed[j]
      BY <1>1, <1>6, <2>2 DEF Quiet, NoPlan, NoCall, ScreenTenant, TypeOK, JobTypes
    <3> QED
      BY <1>1, <1>3, <1>6, <3>1 DEF Settles, Asks
  <2> QED
    BY <2>1, <2>2
<1> QED
  BY <1>4, <1>5, <1>6

\* The call planned for one binding is answered: the others' states stay.
LEMMA RunAnswered ==
    ASSUME NEW j \in AllJobs, RunInv(j), CallInv(j), phase[j] = "deploying", NEW b \in Bindings,
           UNCHANGED <<want, work, stateBase, todo>>, failed'[j] = failed[j],
           plan[j][b].kind # "none", plan'[j][b] = NoCall,
           \A c \in Bindings : c # b =>
               plan'[j][c] = plan[j][c] /\ remote'[c] = remote[c] /\ c \notin pending'[j].at,
           AskedCall(j, b)',
           ~failed[j] /\ Quiet(j, b)' => Settles(j, b, work[j][b])'
    PROVE  RunInv(j)'
<1>0. Active(j) /\ pending[j] = NoPending
  BY DEF Active, Deploying, CallInv
<1> SUFFICES ASSUME NEW c \in Bindings
    PROVE  /\ AskedCall(j, c)'
           /\ (want[j][c[1]] = Unchanged => Quiet(j, c) /\ work[j][c] = stateBase[j][c])'
           /\ (~failed[j] /\ want[j][c[1]] # Unchanged /\ Quiet(j, c) => Settles(j, c, work[j][c]))'
  BY DEF RunInv
<1>1. /\ AskedCall(j, c)
      /\ want[j][c[1]] = Unchanged => Quiet(j, c) /\ work[j][c] = stateBase[j][c]
      /\ ~failed[j] /\ want[j][c[1]] # Unchanged /\ Quiet(j, c) => Settles(j, c, work[j][c])
  BY <1>0 DEF RunInv
<1>2. CASE c = b
  BY <1>1, <1>2 DEF Quiet
<1>3. CASE c # b
  <2>1. Quiet(j, c)' <=> Quiet(j, c)
    BY <1>0, <1>3 DEF Quiet, NoPending
  <2>2. AskedCall(j, c)'
    BY <1>1, <1>3 DEF AskedCall, Status
  <2>3. Settles(j, c, work[j][c])' <=> Settles(j, c, work[j][c])
    BY <1>3 DEF Settles, Asks
  <2> QED
    BY <1>1, <2>1, <2>2, <2>3
<1> QED
  BY <1>2, <1>3

LEMMA RunVendor ==
    ASSUME TypeOK, NEW j \in Jobs, CallInv(j), RunInv(j), NEW b \in Bindings, VendorAnswers(j, b)
    PROVE  RunInv(j)'
<1>0. j \in AllJobs /\ j \notin Staging
  BY ParametersAssumption DEF AllJobs
<1>1. CASE CreateUnanswered(j, b) \/ DeleteUnanswered(j, b) \/ VendorRefuses(j, b)
  <2>1. /\ Active(j) /\ failed'[j] /\ NoCalls(j)' /\ phase'[j] = "writeback"
        /\ UNCHANGED <<want, work, stateBase>>
    BY <1>0, <1>1
    DEF CreateUnanswered, DeleteUnanswered, VendorRefuses, Due, RunStops, AfterDeploy, NoCalls,
        Active, Deploying, TypeOK, JobTypes, DeployTypes
  <2> QED
    BY <1>0, <2>1, RunStopped
<1>2. CASE CreateAnswered(j, b) \/ UpdateAccepted(j, b) \/ DeleteAccepted(j, b)
  <2>1. /\ phase[j] = "deploying" /\ UNCHANGED <<want, work, stateBase, todo>>
        /\ failed'[j] = failed[j] /\ plan[j][b].kind # "none" /\ plan'[j][b] = NoCall
    BY <1>0, <1>2
    DEF CreateAnswered, UpdateAccepted, DeleteAccepted, Due, CallMade, TypeOK, DeployTypes, Plans
  <2>2. pending[j] = NoPending /\ AskedCall(j, b) /\ j \in AllJobs /\ CallOf(j, b)
    BY <1>0, <2>1 DEF CallInv, RunInv, Active, Deploying
  <2>3. \A c \in Bindings : c # b =>
            plan'[j][c] = plan[j][c] /\ remote'[c] = remote[c] /\ c \notin pending'[j].at
    BY <1>0, <1>2, <2>2
    DEF CreateAnswered, UpdateAccepted, DeleteAccepted, CallMade, NoPending, TypeOK, DeployTypes,
        Plans, VendorTypes
  <2>4. /\ AskedCall(j, b)'
        /\ ~failed[j] /\ Quiet(j, b)' => Settles(j, b, work[j][b])'
    <3>1. CASE CreateAnswered(j, b)
      <4>1. /\ phase'[j] = "recording" /\ pending'[j].at = {b} /\ pending'[j].id \in remote'[b]
            /\ plan[j][b].kind = "create"
        BY <1>0, <3>1
        DEF CreateAnswered, Due, CallMade, TypeOK, JobTypes, DeployTypes, VendorTypes
      <4> QED
        BY <2>1, <2>2, <4>1 DEF AskedCall, Status, Quiet, NoCall
    <3>2. CASE UpdateAccepted(j, b)
      <4>1. /\ phase'[j] = "deploying" /\ remote' = remote /\ plan[j][b].kind = "update"
            /\ plan[j][b].id \in remote[b]
        BY <1>0, <3>2 DEF UpdateAccepted, Due, CallMade, TypeOK, JobTypes
      <4>2. Status(j, b) # "DELETION" /\ work[j][b] \in remote[b]
        BY <2>2, <4>1 DEF AskedCall
      <4> QED
        BY <2>1, <4>1, <4>2 DEF AskedCall, Status, Settles, Asks, NoCall
    <3>3. CASE DeleteAccepted(j, b)
      <4>1. /\ phase'[j] = "forgetting" /\ pending'[j].at = {b} /\ plan[j][b].kind = "delete"
        BY <1>0, <3>3 DEF DeleteAccepted, Due, CallMade, TypeOK, JobTypes, DeployTypes
      <4> QED
        BY <2>1, <2>2, <4>1 DEF AskedCall, Status, Quiet, NoCall
    <3> QED
      BY <1>2, <3>1, <3>2, <3>3
  <2> QED
    BY <1>0, <2>1, <2>3, <2>4, RunAnswered
<1> QED
  BY <1>1, <1>2 DEF VendorAnswers

-----------------------------------------------------------------------------
\* The vendor's answer for one binding is recorded, or could not be.
LEMMA RunSettled ==
    ASSUME NEW j \in AllJobs, RunInv(j), CallInv(j), NEW b \in Bindings,
           phase[j] \in {"recording", "forgetting"}, b \in pending[j].at,
           phase'[j] = "deploying", pending'[j] = NoPending,
           UNCHANGED <<want, remote, stateBase, todo, plan>>, failed[j] => failed'[j],
           \A c \in Bindings : c # b => work'[j][c] = work[j][c] /\ c \notin pending[j].at,
           failed'[j] \/ Settles(j, b, work[j][b])'
    PROVE  RunInv(j)'
<1>0. Active(j)
  BY DEF Active, Deploying
<1> SUFFICES ASSUME NEW c \in Bindings
    PROVE  /\ AskedCall(j, c)'
           /\ (want[j][c[1]] = Unchanged => Quiet(j, c) /\ work[j][c] = stateBase[j][c])'
           /\ (~failed[j] /\ want[j][c[1]] # Unchanged /\ Quiet(j, c) => Settles(j, c, work[j][c]))'
  BY DEF RunInv
<1>1. /\ AskedCall(j, c) /\ CallOf(j, c)
      /\ want[j][c[1]] = Unchanged => Quiet(j, c) /\ work[j][c] = stateBase[j][c]
      /\ ~failed[j] /\ want[j][c[1]] # Unchanged /\ Quiet(j, c) => Settles(j, c, work[j][c])
  BY <1>0 DEF RunInv, CallInv
<1>2. CASE c = b
  BY <1>1, <1>2 DEF Quiet, CallOf, AskedCall, NoPending
<1>3. CASE c # b
  <2>1. Quiet(j, c)' <=> Quiet(j, c)
    BY <1>3 DEF Quiet, NoPending
  <2>2. AskedCall(j, c)'
    BY <1>1, <1>3 DEF AskedCall, Status, NoPending
  <2>3. Settles(j, c, work[j][c])' <=> Settles(j, c, work[j][c])
    BY <1>3 DEF Settles, Asks
  <2> QED
    BY <1>1, <1>3, <2>1, <2>2, <2>3
<1> QED
  BY <1>2, <1>3

LEMMA RunDeploys ==
    ASSUME TypeOK, NEW j \in Jobs, CallInv(j), RunInv(j), Deploy(j)
    PROVE  RunInv(j)'
<1>0. j \in AllJobs /\ j \notin Staging
  BY ParametersAssumption DEF AllJobs
<1>1. ASSUME NEW b \in Bindings, RecordCreated(j, b) PROVE RunInv(j)'
  <2>1. /\ phase[j] = "recording" /\ pending[j].at = {b} /\ failed' = failed
        /\ phase'[j] = "deploying" /\ pending'[j] = NoPending
        /\ UNCHANGED <<want, remote, stateBase, todo, plan>>
    BY <1>0, <1>1 DEF RecordCreated, Settle, TypeOK, JobTypes, DeployTypes
  <2>2. work'[j][b] = pending[j].id /\ \A c \in Bindings : c # b => work'[j][c] = work[j][c]
    BY <1>0, <1>1 DEF RecordCreated, Bind, TypeOK, RunnerTypes, ShardMaps
  <2>3. Status(j, b) \notin Retiring /\ pending[j].id \in remote[b]
    BY <1>0, <2>1 DEF RunInv, AskedCall, Active, Deploying
  <2>4. Settles(j, b, work[j][b])'
    BY <2>1, <2>2, <2>3 DEF Settles, Asks, Status, Retiring
  <2> QED
    BY <1>0, <2>1, <2>2, <2>4, RunSettled
<1>2. ASSUME NEW b \in Bindings, RecordDeleted(j, b) PROVE RunInv(j)'
  <2>1. /\ phase[j] = "forgetting" /\ pending[j].at = {b} /\ failed' = failed
        /\ phase'[j] = "deploying" /\ pending'[j] = NoPending
        /\ UNCHANGED <<want, remote, stateBase, todo, plan>>
    BY <1>0, <1>2 DEF RecordDeleted, Settle, TypeOK, JobTypes, DeployTypes
  <2>2. work'[j][b] = NoId /\ \A c \in Bindings : c # b => work'[j][c] = work[j][c]
    BY <1>0, <1>2 DEF RecordDeleted, Unbind, TypeOK, RunnerTypes, ShardMaps
  <2>3. Status(j, b) = "DELETION"
    BY <1>0, <2>1 DEF RunInv, AskedCall, Active, Deploying
  <2>4. Settles(j, b, work[j][b])'
    BY <2>1, <2>2, <2>3 DEF Settles, Asks, Status
  <2> QED
    BY <1>0, <2>1, <2>2, <2>4, RunSettled
<1>3. CASE RecordFails(j) \/ ForgetFails(j)
  <2>1. /\ phase[j] \in {"recording", "forgetting"} /\ failed'[j]
        /\ phase'[j] = "deploying" /\ pending'[j] = NoPending
        /\ UNCHANGED <<want, remote, work, stateBase, todo, plan>>
    BY <1>0, <1>3 DEF RecordFails, ForgetFails, Settle, TypeOK, JobTypes, DeployTypes
  <2>2. RunInv(j) /\ Active(j) /\ \A b \in Bindings : CallOf(j, b)
    BY <2>1 DEF Active, Deploying, CallInv
  <2> QED
    BY <2>1, <2>2 DEF RunInv, AskedCall, Status, Quiet, CallOf, NoPending
<1>4. CASE DeployEnds(j)
  <2>1. /\ Active(j) /\ phase'[j] = "writeback" /\ failed' = failed
        /\ UNCHANGED <<want, remote, work, stateBase, todo, plan, pending>>
    BY <1>0, <1>4 DEF DeployEnds, AfterDeploy, Active, Deploying, TypeOK, JobTypes
  <2> QED
    BY <1>0, <2>1, RunSteady
<1> QED
  BY <1>0, <1>1, <1>2, <1>3, <1>4, RunScreens, RunVendor DEF Deploy

LEMMA RunRunner ==
    ASSUME TypeOK, NEW j \in Jobs, CallInv(j), RunInv(j), Runner(j)
    PROVE  RunInv(j)'
<1>0. j \in AllJobs /\ j \notin Staging
  BY ParametersAssumption DEF AllJobs
<1>1. CASE StartFails(j) \/ Rerun(j) \/ Kill(j)
  <2>1. ~Active(j)'
    BY <1>0, <1>1
    DEF StartFails, Rerun, Kill, Active, Deploying, WritingBack, TypeOK, JobTypes
  <2> QED
    BY <1>0, <2>1, RunIdle
<1>2. CASE Interrupt(j)
  <2>1. /\ Active(j) /\ failed'[j] /\ NoCalls(j)' /\ phase'[j] = "writeback"
        /\ UNCHANGED <<want, work, stateBase>>
    BY <1>0, <1>2
    DEF Interrupt, RunStops, AfterDeploy, NoCalls, Active, TypeOK, JobTypes, DeployTypes
  <2> QED
    BY <1>0, <2>1, RunStopped
<1>3. CASE CancelWriteback(j)
  <2>1. /\ Active(j) /\ phase'[j] = "pushing" /\ failed'[j]
        /\ UNCHANGED <<want, remote, work, stateBase, todo, plan, pending>>
    BY <1>0, <1>3 DEF CancelWriteback, Active, WritingBack, TypeOK, JobTypes
  <2> QED
    BY <1>0, <2>1, RunSteady
<1> QED
  BY <1>0, <1>1, <1>2, <1>3, RunStarts DEF Runner

LEMMA RunWriteback ==
    ASSUME TypeOK, NEW j \in AllJobs, RunInv(j), Writeback(j)
    PROVE  RunInv(j)'
<1>1. /\ phase[j] \in WritingBack /\ phase'[j] \in {"pushing", "rebasing", "done"}
      /\ UNCHANGED <<todo, plan, pending>>
  BY WritebackPhases
<1>2. CASE phase'[j] = "done"
  BY <1>2, RunIdle DEF Active, Deploying, WritingBack
<1>3. CASE phase'[j] # "done"
  <2>1. /\ UNCHANGED <<want, remote>> /\ (failed[j] => failed'[j])
        /\ work'[j] = work[j] /\ stateBase'[j] = stateBase[j]
    BY <1>3
    DEF Writeback, CommitWriteback, NothingToCommit, PushAccepted, PushUnacknowledged,
        PushRejected, GivesUp, Rebase, RebaseOntoSame, ReplayState, NothingToReplay, RetryFails,
        ExitsUnpublished, Exits, TypeOK, JobTypes
  <2> QED
    BY <1>1, <1>3, <2>1, RunSteady DEF Active
<1> QED
  BY <1>2, <1>3

-----------------------------------------------------------------------------
\* A step of job i leaves other jobs' outcomes, and the vendors' rules but for what
\* it has planned to create or delete.
LEMMA OutcomeLocal ==
    ASSUME TypeOK, NEW i \in AllJobs, NEW j \in AllJobs, i # j,
           Runner(i) \/ Deploy(i) \/ Writeback(i)
    PROVE  failed'[j] = failed[j] /\ runs'[j] = runs[j]
<1>1. CASE Runner(i)
  BY <1>1
  DEF Runner, Start, StartFails, Rerun, StartStaging, BeginDeploy, Interrupt, CancelWriteback,
     Kill, RunStops, TypeOK, JobTypes
<1>2. CASE Deploy(i)
  BY <1>2
  DEF Deploy, VendorAnswers, ScreenTenant, CreateAnswered, CreateUnanswered, UpdateAccepted,
     DeleteAccepted, DeleteUnanswered, VendorRefuses, RecordCreated, RecordDeleted, RecordFails,
     ForgetFails, DeployEnds, RunStops, TypeOK, JobTypes
<1>3. CASE Writeback(i)
  BY <1>3
  DEF Writeback, CommitWriteback, NothingToCommit, PushAccepted, PushUnacknowledged,
      PushRejected, GivesUp, Rebase, RebaseOntoSame, ReplayState, NothingToReplay, RetryFails,
      ExitsUnpublished, Exits, TypeOK, JobTypes
<1> QED
  BY <1>1, <1>2, <1>3

LEMMA RemoteLocal ==
    ASSUME TypeOK, NEW i \in AllJobs, Runner(i) \/ Deploy(i) \/ Writeback(i)
    PROVE  /\ remote' = remote \/ phase[i] = "deploying"
           /\ \A b \in Bindings : plan[i][b].kind \notin {"create", "delete"} =>
                  remote'[b] = remote[b]
           /\ (\A b \in Bindings : remote'[b] = remote[b]) => remote' = remote
<1>0. remote \in [Bindings -> SUBSET Ids]
  BY DEF TypeOK, VendorTypes
<1>1. CASE Runner(i) \/ Writeback(i)
  <2>1. remote' = remote
    BY <1>1
    DEF Runner, Start, StartFails, Rerun, StartStaging, BeginDeploy, Interrupt, CancelWriteback,
       Kill, Writeback, CommitWriteback, NothingToCommit, PushAccepted, PushUnacknowledged,
       PushRejected, GivesUp, Rebase, RebaseOntoSame, ReplayState, NothingToReplay, RetryFails,
       ExitsUnpublished
  <2> QED
    BY <2>1
<1>2. CASE Deploy(i)
  <2>1. \/ remote' = remote
        \/ \E b \in Bindings : \E s :
              /\ phase[i] = "deploying" /\ plan[i][b].kind \in {"create", "delete"}
              /\ remote' = [remote EXCEPT ![b] = s]
    BY <1>2
    DEF Deploy, VendorAnswers, ScreenTenant, CreateAnswered, CreateUnanswered, UpdateAccepted,
       DeleteAccepted, DeleteUnanswered, VendorRefuses, RecordCreated, RecordDeleted, RecordFails,
       ForgetFails, DeployEnds, Due
  <2> QED
    BY <1>0, <2>1
<1> QED
  BY <1>1, <1>2

-----------------------------------------------------------------------------
\* A job's outcome outlives the steps that leave its bindings.
LEMMA MergeSame ==
    ASSUME NEW j \in Jobs, MergeInv(j), phase'[j] = phase[j], failed'[j] = failed[j],
           want'[j] = want[j],
           Succeeded(j) => \A b \in Bindings : LastToDeploy(j, b[1])' =>
               /\ LastToDeploy(j, b[1])
               /\ remote'[b] = remote[b] /\ tip'.tree[b] = tip.tree[b]
    PROVE  MergeInv(j)'
<1> SUFFICES ASSUME Succeeded(j), NEW b \in Bindings, LastToDeploy(j, b[1])'
             PROVE  Settles(j, b, tip.tree[b])'
  BY DEF MergeInv, Succeeded
<1>1. Settles(j, b, tip.tree[b]) /\ remote'[b] = remote[b] /\ tip'.tree[b] = tip.tree[b]
  BY DEF MergeInv
<1> QED
  BY <1>1 DEF Settles, Asks, StatusIn

\* A merge starts a job after all the others.
LEMMA TenantOperator ==
    ASSUME HandEdits = 0, IInv, TenantInv, Operator
    PROVE  TenantInv'
<1>0. TypeOK /\ Jobs \subseteq AllJobs /\ MaxPushes \in Nat
  BY ParametersAssumption DEF IInv, AllJobs
<1>1. PICK w \in Wants : Push(w)
  BY <1>0 DEF TypeOK, BranchTypes, Operator, RecordByHand, RemoveByHand
<1>2. /\ pushed + 1 \in Jobs /\ pushed' = pushed + 1 /\ pushed \in Nat
      /\ phase[pushed + 1] = "new" /\ tip'.tree = tip.tree
      /\ UNCHANGED <<failed, runs, remote>>
  <2>1. pushed + 1 \in Jobs /\ pushed \in Nat
    BY <1>0, <1>1 DEF Push, TypeOK, BranchTypes, Jobs
  <2> QED
    BY <1>1, <2>1, CommitFields DEF Push, TipMoves, IInv, Counted
<1>3. /\ \A j \in Jobs : j # pushed + 1 => (phase'[j] = phase[j] /\ want'[j] = want[j] /\ Same(j))
      /\ phase'[pushed + 1] = "queued"
  BY <1>0, <1>1, <1>2 DEF Push, TypeOK, JobTypes, Same
<1> SUFFICES ASSUME NEW j \in Jobs PROVE RunInv(j)' /\ MergeInv(j)' /\ OrderInv(j)'
  BY DEF TenantInv
<1>4. RunInv(j) /\ MergeInv(j) /\ OrderInv(j) /\ j \in AllJobs /\ j \in Nat
  BY <1>0 DEF TenantInv, Jobs
<1>5. CASE j = pushed + 1
  BY <1>2, <1>3, <1>4, <1>5
  DEF RunInv, MergeInv, OrderInv, Succeeded, Active, Deploying, WritingBack
<1>6. CASE j # pushed + 1
  <2>1. RunInv(j)'
    BY <1>2, <1>3, <1>4, <1>6, RunSame
  <2>2. MergeInv(j)'
    <3>1. ASSUME Succeeded(j), NEW b \in Bindings, LastToDeploy(j, b[1])'
          PROVE  LastToDeploy(j, b[1])
      <4>1. ASSUME NEW i \in Jobs, i > j PROVE want[i][b[1]] = Unchanged
        <5>1. CASE i = pushed + 1
          BY <1>2, <5>1 DEF TenantInv, OrderInv, Nothing, Bindings
        <5>2. CASE i # pushed + 1
          BY <1>3, <3>1, <4>1, <5>2 DEF LastToDeploy
        <5> QED
          BY <5>1, <5>2
      <4> QED
        BY <1>3, <1>6, <3>1, <4>1 DEF LastToDeploy
    <3> QED
      BY <1>2, <1>3, <1>4, <1>6, <3>1, MergeSame
  <2>3. OrderInv(j)'
    <3>1. \A i \in Jobs : phase[i] \in {"done", "dead"} => phase'[i] = phase[i]
      BY <1>2, <1>3
    <3> QED
      BY <1>2, <1>3, <1>4, <1>6, <3>1 DEF OrderInv, Active, Succeeded
  <2> QED
    BY <2>1, <2>2, <2>3
<1> QED
  BY <1>5, <1>6

\* A change request's job leaves the tenants and the branch.
LEMMA TenantReview ==
    ASSUME IInv, TenantInv, NEW i \in Staging, ReviewInv(i), Runner(i) \/ Deploy(i) \/ Writeback(i)
    PROVE  TenantInv'
<1>0. TypeOK /\ i \in AllJobs /\ i \notin Jobs /\ Jobs \subseteq AllJobs
  BY ParametersAssumption DEF IInv, AllJobs
<1>1. ~Writeback(i)
  BY <1>0, WritebackPhases DEF ReviewInv, WritingBack
<1>2. remote' = remote
  BY <1>0, RemoteLocal DEF ReviewInv
<1>3. tip' = tip /\ pushed' = pushed
  BY <1>1
  DEF Runner, Start, StartFails, Rerun, StartStaging, BeginDeploy, Interrupt, CancelWriteback,
     Kill, Deploy, VendorAnswers, ScreenTenant, CreateAnswered, CreateUnanswered, UpdateAccepted,
     DeleteAccepted, DeleteUnanswered, VendorRefuses, RecordCreated, RecordDeleted, RecordFails,
     ForgetFails, DeployEnds
<1>4. \A j \in Jobs : Same(j) /\ failed'[j] = failed[j] /\ runs'[j] = runs[j]
  BY <1>0, RunnerLocal, DeployLocal, WritebackLocal, OutcomeLocal
<1> SUFFICES ASSUME NEW j \in Jobs PROVE RunInv(j)' /\ MergeInv(j)' /\ OrderInv(j)'
  BY DEF TenantInv
<1>5. RunInv(j) /\ MergeInv(j) /\ OrderInv(j) /\ j \in AllJobs
  BY <1>0 DEF TenantInv
<1>6. RunInv(j)'
  BY <1>2, <1>4, <1>5, RunSame
<1>7. \A r : LastToDeploy(j, r)' => LastToDeploy(j, r)
  BY <1>4 DEF LastToDeploy, Same
<1>8. MergeInv(j)'
  BY <1>2, <1>3, <1>4, <1>5, <1>7, MergeSame DEF Same
<1>9. OrderInv(j)'
  BY <1>3, <1>4, <1>5 DEF OrderInv, Same, Active, Succeeded
<1> QED
  BY <1>6, <1>8, <1>9

-----------------------------------------------------------------------------
\* What a push puts on the branch is what its job made.
LEMMA TipInLine ==
    ASSUME TypeOK, NEW i \in AllJobs, Line(i), Runner(i) \/ Deploy(i) \/ Writeback(i)
    PROVE  tip'.tree = tip.tree \/ (Active(i) /\ tip'.tree = work[i])
<1>1. CASE PushAccepted(i) \/ PushUnacknowledged(i)
  <2>1. Pushing(i) /\ (tip' = tip \/ tip' = head[i])
    BY <1>1 DEF PushAccepted, PushUnacknowledged, FastForward, TipIsHead, Pushing
  <2> QED
    BY <2>1 DEF Line, Pushing, Active, WritingBack
<1>2. CASE ~(PushAccepted(i) \/ PushUnacknowledged(i))
  <2>1. tip' = tip
    BY <1>2
    DEF Runner, Start, StartFails, Rerun, StartStaging, BeginDeploy, Interrupt, CancelWriteback,
       Kill, Deploy, VendorAnswers, ScreenTenant, CreateAnswered, CreateUnanswered,
       UpdateAccepted, DeleteAccepted, DeleteUnanswered, VendorRefuses, RecordCreated,
       RecordDeleted, RecordFails, ForgetFails, DeployEnds, Writeback, CommitWriteback,
       NothingToCommit, PushRejected, GivesUp, Rebase, RebaseOntoSame, ReplayState,
       NothingToReplay, RetryFails, ExitsUnpublished
  <2> QED
    BY <2>1
<1> QED
  BY <1>1, <1>2

\* A job's first run is its last.
LEMMA RunOnce ==
    ASSUME MaxRuns = 1, TypeOK, NEW j \in Jobs, OrderInv(j)
    PROVE  ~Rerun(j)
<1>1. j \in AllJobs /\ runs[j] \in 0 .. 1
  BY DEF TypeOK, JobTypes, AllJobs
<1> QED
  BY <1>1 DEF Rerun, OrderInv

\* A job that succeeds has nothing left to do, and the branch has all it made.
LEMMA SuccessLands ==
    ASSUME MaxRuns = 1, TypeOK, NEW j \in Jobs, Line(j), CallInv(j), OrderInv(j),
           Runner(j) \/ Deploy(j) \/ Writeback(j), Succeeded(j)'
    PROVE  /\ Active(j) /\ ~failed[j] /\ NoCalls(j) /\ tip'.tree = work[j]
           /\ UNCHANGED <<remote, want>>
<1>0. j \in AllJobs /\ j \notin Staging
  BY ParametersAssumption DEF AllJobs
<1>1. ~Runner(j)
  BY <1>0, RunOnce
  DEF Runner, Start, StartFails, BeginDeploy, Interrupt, RunStops, AfterDeploy, CancelWriteback,
      Kill, Succeeded, TypeOK, JobTypes
<1>2. ~Deploy(j)
  BY <1>0
  DEF Deploy, VendorAnswers, ScreenTenant, CreateAnswered, CreateUnanswered, UpdateAccepted,
     DeleteAccepted, DeleteUnanswered, VendorRefuses, RecordCreated, RecordDeleted, RecordFails,
     ForgetFails, DeployEnds, Due, CallMade, RunStops, Settle, AfterDeploy, Succeeded,
     TypeOK, JobTypes
<1>3. Writeback(j)
  BY <1>1, <1>2
<1>4. (\E valid \in BOOLEAN : NothingToCommit(j, valid)) \/ PushAccepted(j)
  BY <1>0, <1>3
  DEF Writeback, CommitWriteback, PushUnacknowledged, PushRejected, Retries, GivesUp, Rebase,
      RebaseOntoSame, ReplayState, NothingToReplay, RetryFails, ExitsUnpublished, Exits,
      Succeeded, TypeOK, JobTypes
<1>5. /\ phase[j] \in WritingBack /\ ~failed[j] /\ UNCHANGED <<remote, want>>
  BY <1>0, <1>4
  DEF NothingToCommit, PushAccepted, FastForward, Exits, Succeeded, WritingBack, TypeOK, JobTypes
<1>6. NoCalls(j) /\ Active(j)
  BY <1>5 DEF CallInv, NoCalls, Active, Deploying, WritingBack
<1>7. tip'.tree = work[j]
  <2>1. CASE \E valid \in BOOLEAN : NothingToCommit(j, valid)
    BY <2>1, <1>6 DEF NothingToCommit, Line, Pushing
  <2>2. CASE PushAccepted(j)
    <3>1. /\ Pushing(j) /\ (carries[j] = "nothing" => tip' = tip)
          /\ (carries[j] # "nothing" => tip' = head[j])
      BY <2>2 DEF PushAccepted, FastForward, TipIsHead, Pushing
    <3> QED
      BY <3>1 DEF Line
  <2> QED
    BY <1>4, <2>1, <2>2
<1> QED
  BY <1>5, <1>6, <1>7

LEMMA OwnOrder ==
    ASSUME Queued, OldestFirst, MaxRuns = 1, IInv, TenantInv, NEW i \in Jobs,
           Runner(i) \/ Deploy(i) \/ Writeback(i)
    PROVE  OrderInv(i)' /\ (phase[i] \in {"done", "dead"} => FALSE)
<1>0. TypeOK /\ i \in AllJobs /\ i \notin Staging /\ Jobs \subseteq AllJobs /\ Jobs \subseteq Nat
  BY ParametersAssumption DEF IInv, AllJobs, Jobs
<1>1. OrderInv(i) /\ ~Rerun(i)
  BY <1>0, RunOnce DEF TenantInv
<1>2. ASSUME NEW k \in Jobs, k # i PROVE phase'[k] = phase[k]
  BY <1>0, <1>2, RunnerLocal, DeployLocal, WritebackLocal DEF Same
<1>3. CASE Start(i) \/ StartFails(i)
  <2>1. /\ phase[i] = "queued" /\ phase'[i] \in {"deploying", "done"} /\ runs'[i] = runs[i] + 1
        /\ runs[i] \in Nat /\ (phase'[i] = "done" => failed'[i]) /\ pushed' = pushed
        /\ (phase'[i] = "deploying" => Turn(i))
    BY <1>0, <1>3 DEF Start, StartFails, BeginDeploy, TypeOK, JobTypes
  <2>2. pushed \in Nat /\ i <= pushed
    BY <1>0, <2>1 DEF IInv, Counted, TypeOK, BranchTypes
  <2>3. ASSUME Turn(i), NEW k \in Jobs, k < i PROVE phase[k] \in {"done", "dead"}
    <3>1. phase[k] # "queued" /\ ~Active(k)
      BY <2>3 DEF Turn
    <3>2. phase[k] # "new"
      BY <1>0, <2>2, <2>3 DEF TenantInv, OrderInv
    <3> QED
      BY <1>0, <3>1, <3>2 DEF Active, TypeOK, JobTypes, Phases
  <2>4. ASSUME Active(i)' \/ Succeeded(i)', NEW k \in Jobs, k < i
        PROVE  phase'[k] \in {"done", "dead"}
    <3>1. Turn(i)
      BY <2>1, <2>4 DEF Active, Succeeded, Deploying, WritingBack
    <3> QED
      BY <1>0, <1>2, <2>3, <2>4, <3>1
  <2> QED
    BY <2>1, <2>2, <2>4 DEF OrderInv
<1>4. CASE ~(Start(i) \/ StartFails(i))
  <2>1. /\ Active(i) /\ phase'[i] \notin {"new", "queued"} /\ runs' = runs /\ pushed' = pushed
    BY <1>0, <1>1, <1>4
    DEF Runner, Interrupt, CancelWriteback, Kill, Deploy, VendorAnswers, ScreenTenant,
        CreateAnswered, CreateUnanswered, UpdateAccepted, DeleteAccepted, DeleteUnanswered,
        VendorRefuses, RecordCreated, RecordDeleted, RecordFails, ForgetFails, DeployEnds, Due,
        CallMade, RunStops, Settle, AfterDeploy, Writeback, CommitWriteback, NothingToCommit,
        PushAccepted, FastForward, PushUnacknowledged, PushRejected, Retries, GivesUp, Rebase,
        RebaseOntoSame, ReplayState, NothingToReplay, RetryFails, ExitsUnpublished, Exits,
        TipIsHead, Active, Deploying, WritingBack, TypeOK, JobTypes
  <2>2. ASSUME NEW k \in Jobs, k < i PROVE phase'[k] \in {"done", "dead"}
    <3>1. k # i
      BY <1>0, <2>2
    <3> QED
      BY <1>1, <1>2, <2>1, <2>2, <3>1 DEF OrderInv
  <2> QED
    BY <1>1, <2>1, <2>2 DEF OrderInv, Active, Deploying, WritingBack
<1> QED
  BY <1>3, <1>4

LEMMA TenantOwn ==
    ASSUME Queued, OldestFirst, MaxRuns = 1, IdInv, QueueInv, TenantInv, NEW i \in Jobs,
           Runner(i) \/ Deploy(i) \/ Writeback(i)
    PROVE  TenantInv'
<1>0. TypeOK /\ i \in AllJobs /\ IInv /\ CallInv(i) /\ Line(i) /\ Jobs \subseteq AllJobs
      /\ Jobs \subseteq Nat
  BY DEF IdInv, IInv, QueueInv, AllJobs, Jobs
<1>1. RunInv(i) /\ MergeInv(i) /\ OrderInv(i)
  BY DEF TenantInv
<1>2. RunInv(i)'
  BY <1>0, <1>1, RunRunner, RunDeploys, RunWriteback
<1>3. OrderInv(i)' /\ phase[i] \notin {"done", "dead"}
  BY <1>0, OwnOrder
<1>4. MergeInv(i)'
  <2> SUFFICES ASSUME Succeeded(i)', NEW b \in Bindings, LastToDeploy(i, b[1])'
               PROVE  Settles(i, b, tip.tree[b])'
    BY DEF MergeInv
  <2>1. /\ Active(i) /\ ~failed[i] /\ NoCalls(i) /\ tip'.tree = work[i]
        /\ UNCHANGED <<remote, want>>
    BY <1>0, <1>1, SuccessLands
  <2>2. want[i][b[1]] # Unchanged
    BY <2>1 DEF LastToDeploy
  <2>3. Settles(i, b, work[i][b])
    BY <1>1, <2>1, <2>2 DEF RunInv, Quiet, NoCalls, NoPlan, NoCall, NoPending
  <2> QED
    BY <2>1, <2>3 DEF Settles, Asks
<1>5. ASSUME NEW j \in Jobs, j # i PROVE RunInv(j)' /\ MergeInv(j)' /\ OrderInv(j)'
  <2>1. /\ Same(j) /\ failed'[j] = failed[j] /\ runs'[j] = runs[j]
        /\ RunInv(j) /\ MergeInv(j) /\ OrderInv(j)
    BY <1>0, <1>5, RunnerLocal, DeployLocal, WritebackLocal, OutcomeLocal DEF TenantInv
  <2>2. ASSUME NEW k \in Jobs PROVE want'[k] = want[k]
    <3>1. k # i => want'[k] = want[k]
      BY <1>0, RunnerLocal, DeployLocal, WritebackLocal DEF Same
    <3>2. want'[i] = want[i]
      <4>1. i \notin Staging
        BY ParametersAssumption
      <4> QED
        BY <4>1
        DEF Runner, Start, StartFails, Rerun, BeginDeploy, Interrupt, CancelWriteback, Kill,
            Deploy, VendorAnswers, ScreenTenant, CreateAnswered, CreateUnanswered,
            UpdateAccepted, DeleteAccepted, DeleteUnanswered, VendorRefuses, RecordCreated,
            RecordDeleted, RecordFails, ForgetFails, DeployEnds, Writeback, CommitWriteback,
            NothingToCommit, PushAccepted, PushUnacknowledged, PushRejected, GivesUp, Rebase,
            RebaseOntoSame, ReplayState, NothingToReplay, RetryFails, ExitsUnpublished
    <3> QED
      BY <3>1, <3>2
  <2>3. RunInv(j)'
    <3>1. Active(j) => remote' = remote
      BY <1>0, <1>5, RemoteLocal DEF QueueInv, Alone, Active, Deploying
    <3> QED
      BY <1>0, <2>1, <3>1, RunSame
  <2>4. MergeInv(j)'
    <3>1. ASSUME Succeeded(j), NEW b \in Bindings, LastToDeploy(j, b[1])'
          PROVE  /\ LastToDeploy(j, b[1])
                 /\ remote'[b] = remote[b] /\ tip'.tree[b] = tip.tree[b]
      <4>1. LastToDeploy(j, b[1])
        BY <2>2, <3>1 DEF LastToDeploy
      <4>2. i > j
        BY <1>0, <1>3, <1>5, <2>1, <3>1 DEF OrderInv
      <4>3. want[i][b[1]] = Unchanged
        BY <4>1, <4>2 DEF LastToDeploy
      <4>4. CASE Active(i)
        <5>1. Quiet(i, b) /\ work[i][b] = stateBase[i][b]
          BY <1>1, <4>3, <4>4 DEF RunInv
        <5>2. remote'[b] = remote[b]
          BY <1>0, <5>1, RemoteLocal DEF Quiet
        <5>3. tip.tree[b] = work[i][b]
          BY <1>0, <4>4, <5>1 DEF Line
        <5>4. tip'.tree[b] = tip.tree[b]
          BY <1>0, <5>3, TipInLine
        <5> QED
          BY <4>1, <5>2, <5>4
      <4>5. CASE ~Active(i)
        BY <1>0, <4>1, <4>5, TipInLine, RemoteLocal DEF Active, Deploying
      <4> QED
        BY <4>4, <4>5
    <3> QED
      BY <2>1, <3>1, MergeSame DEF Same
  <2>5. OrderInv(j)'
    <3>1. ASSUME NEW k \in Jobs, phase[k] \in {"done", "dead"} PROVE phase'[k] = phase[k]
      <4>1. k # i
        BY <1>3, <3>1
      <4> QED
        BY <1>0, <4>1, RunnerLocal, DeployLocal, WritebackLocal DEF Same
    <3>2. pushed' = pushed
      BY DEF Runner, Start, StartFails, Rerun, StartStaging, BeginDeploy, Interrupt,
         CancelWriteback, Kill, Deploy, VendorAnswers, ScreenTenant, CreateAnswered,
         CreateUnanswered, UpdateAccepted, DeleteAccepted, DeleteUnanswered, VendorRefuses,
         RecordCreated, RecordDeleted, RecordFails, ForgetFails, DeployEnds, Writeback,
         CommitWriteback, NothingToCommit, PushAccepted, PushUnacknowledged, PushRejected,
         GivesUp, Rebase, RebaseOntoSame, ReplayState, NothingToReplay, RetryFails,
         ExitsUnpublished
    <3> QED
      BY <2>1, <3>1, <3>2 DEF OrderInv, Same, Active, Succeeded
  <2> QED
    BY <2>3, <2>4, <2>5
<1> QED
  BY <1>1, <1>2, <1>3, <1>4, <1>5 DEF TenantInv

-----------------------------------------------------------------------------
LEMMA TenantNext ==
    ASSUME Queued, OldestFirst, MaxRuns = 1, HandEdits = 0, IdInv, QueueInv, TenantInv,
           [Next]_vars
    PROVE  TenantInv'
<1>1. CASE Operator
  BY <1>1, TenantOperator DEF IdInv
<1>2. ASSUME NEW i \in AllJobs, Runner(i) \/ Deploy(i) \/ Writeback(i) PROVE TenantInv'
  <2>1. CASE i \in Staging
    BY <1>2, <2>1, TenantReview DEF IdInv
  <2>2. CASE i \in Jobs
    BY <1>2, <2>2, TenantOwn
  <2> QED
    BY <2>1, <2>2 DEF AllJobs
<1>3. CASE UNCHANGED vars
  BY <1>3
  DEF vars, TenantInv, RunInv, MergeInv, OrderInv, Succeeded, LastToDeploy, Active, AskedCall,
      Status, Quiet, Settles, Asks
<1> QED
  BY <1>1, <1>2, <1>3 DEF Next, Settled

(***************************************************************************)
(* One production job at a time, oldest first, each run once, and no hand     *)
(* edits: once the queue is empty, every tenant is as the newest merge of     *)
(* each rule asked, if that merge's job succeeded, whatever became of the     *)
(* jobs before and after it.                                                *)
(***************************************************************************)
THEOREM NewestMergeStands ==
    ASSUME Queued, OldestFirst, MaxRuns = 1, HandEdits = 0
    PROVE  Spec => []TenantsMatchNewestMerge
<1> DEFINE Inv == DropInv /\ QueueInv /\ TenantInv
<1>1. Init => Inv
  BY DropInit, QueueInit, TenantInit
<1>2. Inv /\ [Next]_vars => Inv'
  BY DropNext, QueueNext, TenantNext DEF DropInv, IdInv
<1>3. Inv => TenantsMatchNewestMerge
  <2> SUFFICES ASSUME Inv, \A j \in AllJobs : ~Active(j) /\ phase[j] # "queued",
                      NEW j \in Jobs, NEW b \in Bindings,
                      phase[j] = "done", ~failed[j], LastToDeploy(j, b[1])
               PROVE  KnownLive(b) = CASE Asks(j, b[1], "RELEASE") -> {tip.tree[b]}
                                       [] Asks(j, b[1], "DELETION") -> {}
                                       [] Asks(j, b[1], "DISABLEMENT") -> {tip.tree[b]} \ {NoId}
    BY DEF TenantsMatchNewestMerge
  <2>0. Jobs \subseteq AllJobs /\ remote[b] \subseteq Ids /\ NoId \notin Ids
        /\ tip.tree \in PublicMaps
    BY DEF DropInv, IdInv, IInv, TypeOK, VendorTypes, TipPublic, AllJobs, Ids, NoId
  <2>1. ASSUME NEW x \in KnownLive(b) PROVE x = tip.tree[b]
    <3>1. fate[x] # "recorded"
      BY <2>0, RecordedKnown DEF KnownLive
    <3> QED
      BY <3>1, PublishedKnown DEF KnownLive, QueueInv
  <2>2. tip.tree[b] \in remote[b] => tip.tree[b] \in KnownLive(b)
    BY <2>0 DEF PublicMaps, KnownLive
  <2>3. Settles(j, b, tip.tree[b])
    BY DEF TenantInv, MergeInv, Succeeded
  <2>4. NoId \notin KnownLive(b)
    BY <2>0 DEF KnownLive
  <2>5. StatusIn(j, want[j], b[1]) \in {"RELEASE", "DELETION", "DISABLEMENT"}
    BY ProductionStatus DEF LastToDeploy, Status, DropInv, IdInv, IInv
  <2>6. CASE StatusIn(j, want[j], b[1]) = "RELEASE"
    <3>1. KnownLive(b) = {tip.tree[b]}
      BY <2>1, <2>2, <2>3, <2>6 DEF Settles, Asks
    <3> QED
      BY <2>6, <3>1 DEF Asks
  <2>7. CASE StatusIn(j, want[j], b[1]) = "DELETION"
    <3>1. KnownLive(b) = {}
      BY <2>1, <2>3, <2>4, <2>7 DEF Settles, Asks
    <3> QED
      BY <2>7, <3>1 DEF Asks
  <2>8. CASE StatusIn(j, want[j], b[1]) = "DISABLEMENT"
    <3>1. KnownLive(b) = {tip.tree[b]} \ {NoId}
      BY <2>1, <2>2, <2>3, <2>4, <2>8 DEF Settles, Asks
    <3> QED
      BY <2>8, <3>1 DEF Asks
  <2> QED
    BY <2>5, <2>6, <2>7, <2>8
<1> QED
  BY <1>1, <1>2, <1>3, PTL DEF Spec

-----------------------------------------------------------------------------
(***************************************************************************)
(* One production job at a time and no hand edits: a push leaves on the       *)
(* branch all its run made, and lands whole even when git dropped its commit. *)
(***************************************************************************)
THEOREM QueuedRunsLandWhole ==
    ASSUME Queued, HandEdits = 0 PROVE Spec => LandsWhole
<1> DEFINE Inv == IInv /\ (\A j \in Staging : ReviewInv(j)) /\ QueueInv
<1>1. Init => Inv
  BY InitIInv, ReviewInit, QueueInit
<1>2. Inv /\ [Next]_vars => Inv'
  BY NextIInv, ReviewNext, QueueNext DEF IInv
<1> DEFINE Step(j) ==
      phase[j] = "pushing" /\ phase'[j] = "done" /\ tip'.tree # tip.tree =>
          \A b \in Bindings : stateBase[j][b] # work[j][b] => tip'.tree[b] = work[j][b]
<1>3. Inv /\ [Next]_vars => [\A j \in Jobs : Step(j)]_vars
  <2> SUFFICES ASSUME Inv, [Next]_vars, NEW j \in Jobs, phase[j] = "pushing",
                      phase'[j] = "done", tip'.tree # tip.tree
               PROVE  tip'.tree = work[j]
    OBVIOUS
  <2>0. TypeOK /\ j \in AllJobs /\ j \notin Staging /\ Active(j)
    BY ParametersAssumption DEF IInv, AllJobs, Active, WritingBack
  <2>1. PICK i \in AllJobs : Runner(i) \/ Deploy(i) \/ Writeback(i)
    BY <2>0, MergesOnly DEF Next, Settled, vars
  <2>2. i = j
    BY <2>0, <2>1, RunnerLocal, DeployLocal, WritebackLocal DEF Same
  <2> QED
    BY <2>0, <2>1, <2>2, TipInLine DEF QueueInv
<1> QED
  BY <1>1, <1>2, <1>3, PTL DEF Spec, LandsWhole

-----------------------------------------------------------------------------
(***************************************************************************)
(* One production job at a time and no hand edits: the branch changes by the *)
(* push of a job that changed the binding itself, to what the job made it.    *)
(***************************************************************************)
THEOREM QueuedRunsKeepOthers ==
    ASSUME Queued, HandEdits = 0 PROVE Spec => OthersBindingsKept
<1> DEFINE Inv == IInv /\ (\A j \in Staging : ReviewInv(j)) /\ QueueInv
<1>1. Init => Inv
  BY InitIInv, ReviewInit, QueueInit
<1>2. Inv /\ [Next]_vars => Inv'
  BY NextIInv, ReviewNext, QueueNext DEF IInv
<1> DEFINE Step(b) ==
      tip'.tree[b] # tip.tree[b] =>
          handEdits' # handEdits \/ \E j \in Jobs : Owns(j, b, tip'.tree[b])
<1>3. Inv /\ [Next]_vars => [\A b \in Bindings : Step(b)]_vars
  <2> SUFFICES ASSUME Inv, [Next]_vars, NEW b \in Bindings, tip'.tree[b] # tip.tree[b],
                      handEdits' = handEdits
               PROVE  \E j \in Jobs : Owns(j, b, tip'.tree[b])
    OBVIOUS
  <2>1. PICK j \in AllJobs : /\ phase[j] = "pushing" /\ ~behind[j]
                             /\ carries[j] # "nothing" /\ tip' = head[j]
    BY TipChanges DEF IInv
  <2>2. j \in Jobs /\ Pushing(j) /\ Active(j)
    BY <2>1 DEF AllJobs, ReviewInv, Pushing, Active, WritingBack
  <2>3. tip'.tree = work[j] /\ tip.tree = stateBase[j]
    BY <2>1, <2>2 DEF QueueInv, Line
  <2> QED
    BY <2>1, <2>2, <2>3 DEF Owns
<1> QED
  BY <1>1, <1>2, <1>3, PTL DEF Spec, OthersBindingsKept

-----------------------------------------------------------------------------
\* The refinement speaks of the same bindings, ids and shards.
LEMMA DeltasNames ==
    /\ Deltas!Bindings = Bindings /\ Deltas!MaybeId = MaybeId /\ Deltas!NoId = NoId
    /\ Deltas!NoShards = NoShards
    /\ \A s, b, id : Deltas!Bind(s, b, id) = Bind(s, b, id)
BY DEF Deltas!Bindings, Bindings, Deltas!MaybeId, MaybeId, Deltas!Ids, Ids, Deltas!NoId, NoId,
       Deltas!NoShards, NoShards, Deltas!Bind, Bind

\* Initial states, and the steps that are not a stutter.
LEMMA DeltasInit == Init => Deltas!Init
BY CommitFields, DeltasNames DEF Init, Deltas!Init

\* What a step leaves of the refinement's state.
SameDeltas == UNCHANGED <<tip.tree, stateBase, work>>

LEMMA LeavesDeltas ==
    ASSUME NEW j \in AllJobs, RunnerGone(j), tip'.tree = tip.tree
    PROVE  Deltas!Next
<1>1. Deltas!Leave(j)
  BY DeltasNames DEF RunnerGone, Deltas!Leave, Deltas!Leaves
<1> QED
  BY <1>1 DEF Deltas!Next

LEMMA LandsDeltas ==
    ASSUME TypeOK, NEW j \in AllJobs, Line(j), PushAccepted(j) \/ PushUnacknowledged(j)
    PROVE  Deltas!Next
<1>1. tip'.tree = work[j] /\ Pushing(j) /\ Active(j)
  <2>1. /\ Pushing(j) /\ (carries[j] = "nothing" => tip' = tip)
        /\ (carries[j] # "nothing" => tip' = head[j])
    BY DEF PushAccepted, PushUnacknowledged, FastForward, TipIsHead, Pushing
  <2> QED
    BY <2>1 DEF Line, Pushing, Active, WritingBack
<1>2. work[j] \in ShardMaps
  BY DEF TypeOK, RunnerTypes
<1>3. Deltas!Lands(j, Deltas!Own(j))
  <2>1. \A b \in Bindings : b \notin Deltas!Own(j) => work[j][b] = tip.tree[b]
    BY <1>1, DeltasNames DEF Line, Deltas!Own
  <2>2. work[j] = [b \in Bindings |-> IF b \in Deltas!Own(j) THEN work[j][b] ELSE tip.tree[b]]
    BY <1>2, <2>1 DEF ShardMaps
  <2> QED
    BY <1>1, <2>2, DeltasNames DEF Deltas!Lands
<1>4. Deltas!Leaves(j) \/ UNCHANGED <<stateBase, work>>
  BY DeltasNames DEF PushAccepted, PushUnacknowledged, Exits, RunnerGone, Deltas!Leaves
<1>5. Deltas!Land(j)
  BY <1>3, <1>4 DEF Deltas!Land
<1> QED
  BY <1>5 DEF Deltas!Next

LEMMA DeltasRunner ==
    ASSUME TypeOK, NEW j \in AllJobs, Runner(j)
    PROVE  Deltas!Next \/ SameDeltas
<1>1. CASE Start(j) \/ (\E w \in Wants : StartStaging(j, w))
  <2>1. Deltas!Take(j)
    BY <1>1 DEF Start, StartStaging, BeginDeploy, Overlay, Deltas!Take
  <2> QED
    BY <2>1 DEF Deltas!Next
<1>2. CASE Kill(j)
  BY <1>2, LeavesDeltas DEF Kill
<1>3. CASE StartFails(j) \/ Rerun(j) \/ Interrupt(j) \/ CancelWriteback(j)
  BY <1>3 DEF StartFails, Rerun, Interrupt, CancelWriteback, SameDeltas
<1> QED
  BY <1>1, <1>2, <1>3 DEF Runner

LEMMA DeltasDeploy ==
    ASSUME TypeOK, NEW j \in AllJobs, CallInv(j), Deploy(j)
    PROVE  Deltas!Next \/ SameDeltas
<1>1. ASSUME NEW b \in Bindings, RecordCreated(j, b) PROVE Deltas!Next
  <2>1. /\ phase[j] = "recording" /\ pending[j].at = {b} /\ UNCHANGED <<tip, stateBase>>
        /\ work' = [work EXCEPT ![j] = Bind(@, b, pending[j].id)]
    BY <1>1 DEF RecordCreated
  <2>2. stateBase[j][b] = NoId /\ pending[j].id \in MaybeId
    BY <2>1 DEF CallInv, CallOf, MaybeId
  <2>3. Deltas!Change(j, b, pending[j].id)
    BY <2>1, <2>2, DeltasNames DEF Deltas!Change
  <2> QED
    BY <2>2, <2>3, DeltasNames DEF Deltas!Next
<1>2. ASSUME NEW b \in Bindings, RecordDeleted(j, b) PROVE Deltas!Next
  <2>1. Deltas!Change(j, b, NoId)
    BY <1>2, DeltasNames DEF RecordDeleted, Unbind, Bind, Deltas!Change
  <2> QED
    BY <2>1, DeltasNames DEF Deltas!Next, MaybeId
<1>3. CASE ~\E b \in Bindings : RecordCreated(j, b) \/ RecordDeleted(j, b)
  BY <1>3
  DEF Deploy, VendorAnswers, ScreenTenant, CreateAnswered, CreateUnanswered, UpdateAccepted,
     DeleteAccepted, DeleteUnanswered, VendorRefuses, RecordFails, ForgetFails, DeployEnds,
     SameDeltas
<1> QED
  BY <1>1, <1>2, <1>3

LEMMA DeltasWriteback ==
    ASSUME TypeOK, NEW j \in AllJobs, Line(j), Writeback(j)
    PROVE  Deltas!Next \/ SameDeltas
<1>1. CASE PushAccepted(j) \/ PushUnacknowledged(j)
  BY <1>1, LandsDeltas
<1>2. CASE \/ \E valid \in BOOLEAN : NothingToCommit(j, valid)
           \/ GivesUp(j) \/ RetryFails(j) \/ NothingToReplay(j)
  <2>1. RunnerGone(j) /\ tip' = tip
    BY <1>2 DEF NothingToCommit, GivesUp, RetryFails, NothingToReplay, ExitsUnpublished, Exits
  <2> QED
    BY <2>1, LeavesDeltas
<1>3. CASE \/ \E edits, valid \in BOOLEAN : CommitWriteback(j, edits, valid)
           \/ PushRejected(j) \/ Rebase(j) \/ RebaseOntoSame(j) \/ ReplayState(j)
  BY <1>3 DEF CommitWriteback, PushRejected, Rebase, RebaseOntoSame, ReplayState, SameDeltas
<1> QED
  BY <1>1, <1>2, <1>3 DEF Writeback

(***************************************************************************)
(* One production job at a time and no hand edits: the jobs implement         *)
(* RunDeltas. A checkout is a Take, a recorded answer a Change, a push that   *)
(* lands a Land, any other end a Leave; retries, rebases, replays and merges  *)
(* of rules change nothing that the branch's readers can see.                *)
(***************************************************************************)
THEOREM QueuedRunsAreDeltas ==
    ASSUME Queued, HandEdits = 0 PROVE Spec => ImplementsRunDeltas
<1> DEFINE Inv == /\ IInv
                  /\ \A j \in Staging : ReviewInv(j)
                  /\ \A j \in AllJobs : CallInv(j)
                  /\ QueueInv
<1>1. Init => Inv
  BY InitIInv, ReviewInit, CallInit, QueueInit
<1>2. Inv /\ [Next]_vars => Inv'
  BY NextIInv, ReviewNext, CallNext, QueueNext DEF IInv
<1>3. Inv /\ [Next]_vars => [Deltas!Next]_(Deltas!vars)
  <2> SUFFICES ASSUME Inv, [Next]_vars PROVE Deltas!Next \/ SameDeltas
    BY DEF SameDeltas, Deltas!vars
  <2>1. CASE Operator
    <3>1. UNCHANGED <<stateBase, work>>
      BY <2>1 DEF Operator, Push, RecordByHand, RemoveByHand
    <3> QED
      BY <2>1, <3>1, MergesOnly DEF IInv, SameDeltas
  <2>2. ASSUME NEW j \in AllJobs, Runner(j) \/ Deploy(j) PROVE Deltas!Next \/ SameDeltas
    BY <2>2, DeltasRunner, DeltasDeploy DEF IInv
  <2>3. ASSUME NEW j \in AllJobs, Writeback(j) PROVE Deltas!Next \/ SameDeltas
    <3>1. j \in Jobs
      BY <2>3, WritebackPhases DEF IInv, AllJobs, ReviewInv, WritingBack
    <3> QED
      BY <2>3, <3>1, DeltasWriteback DEF IInv, QueueInv
  <2>4. CASE UNCHANGED vars
    BY <2>4 DEF vars, SameDeltas
  <2> QED
    BY <2>1, <2>2, <2>3, <2>4 DEF Next, Settled
<1> QED
  BY <1>1, <1>2, <1>3, DeltasInit, PTL DEF Spec, ImplementsRunDeltas, Deltas!Spec
=============================================================================
