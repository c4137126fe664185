----------------------- MODULE ProductionDeployProofs -----------------------
(***************************************************************************)
(* Theorems of ProductionDeploy about the jobs, for every value of its        *)
(* constants:                                                               *)
(*   TypeCorrect              types                                         *)
(*   ChangeRequestsKeepState  what a change request's job never touches     *)
(*   OwnCommitsOnly           whose changes a push can land                 *)
(*   RecordedIdsHeld          a recorded id is held by its job's checkout   *)
(*                                                                         *)
(* TypeOK is not inductive by itself: that a started job has a run left, and *)
(* that the next merge's job is new, both need Counted. There is one lemma   *)
(* per action, with one step per part of TypeOK the action can disturb;      *)
(* Frame gives the parts it leaves alone. After that each invariant is a     *)
(* conjunct per job: the job's own steps keep it, and other actors' steps    *)
(* leave what it is about (Same, Kept, Overtaken).                           *)
(***************************************************************************)
EXTENDS ProductionDeploy, TLAPS

\* Merges start jobs in order, and a job waits only while a run is left to it.
Counted ==
    /\ \A j \in Jobs : j > pushed => phase[j] = "new"
    /\ \A j \in AllJobs : phase[j] \in {"new", "queued"} => runs[j] < MaxRuns

IInv == TypeOK /\ Counted

USE DEF branchVars, vendorVars, deployVars, commitVars, runnerVars

\* What the operators on shards, commits and plans return.
LEMMA ShardTypes ==
    /\ NoShards \in ShardMaps
    /\ \A s \in ShardMaps, b \in Bindings : Unbind(s, b) \in ShardMaps
    /\ \A s \in ShardMaps, b \in Bindings, id \in MaybeId : Bind(s, b, id) \in ShardMaps
BY DEF NoShards, ShardMaps, MaybeId, Bind, Unbind

LEMMA CommitType == \A p, t \in ShardMaps : Commit(p, t) \in Commits
BY DEF Commit, Commits

LEMMA CommitParts == \A c \in Commits : c.parent \in ShardMaps /\ c.tree \in ShardMaps
BY DEF Commits

LEMMA ReplayType == \A s, t, u \in ShardMaps : Replay(s, t, u) \in ShardMaps
BY DEF ShardMaps, Replay

LEMMA PlanTypes == NoPlan \in Plans /\ NoPending \in Pendings
BY DEF NoCall, NoPlan, Plans, NoPending, Pendings, MaybeId

\* The initial state.
LEMMA InitIInv == Init => IInv
<1> SUFFICES ASSUME Init PROVE IInv
  OBVIOUS
<1> USE ParametersAssumption, MaxIdsAssumption, ShardTypes, CommitType, PlanTypes
<1>1. BranchTypes
  BY DEF Init, BranchTypes
<1>2. VendorTypes
  BY DEF Init, VendorTypes
<1>3. JobTypes
  BY DEF Init, JobTypes, Wants, Nothing, Phases
<1>4. DeployTypes
  BY DEF Init, DeployTypes
<1>5. RunnerTypes
  BY DEF Init, RunnerTypes, Cargo
<1>6. HistoryTypes
  BY DEF Init, HistoryTypes, Fates
<1>7. Counted
  BY DEF Init, Counted, Jobs, AllJobs
<1> QED
  BY <1>1, <1>2, <1>3, <1>4, <1>5, <1>6, <1>7 DEF IInv, TypeOK

\* plan_external_id always decides.
LEMMA DecisionTypes ==
    ASSUME NEW j \in AllJobs, NEW b \in Bindings, RunnerTypes
    PROVE  Decision(j, b) \in Decisions
BY DEF Decision, Decisions, PlanExternalId, Act, Refuse, MaybeId, RunnerTypes, ShardMaps,
       Calls, Codes

\* A checkout that is gone is an empty one.
LEMMA RunnerGoneTypes ==
    ASSUME NEW j \in AllJobs, RunnerTypes, RunnerGone(j)
    PROVE  RunnerTypes'
<1>1. work' \in [AllJobs -> ShardMaps] /\ stateBase' \in [AllJobs -> ShardMaps]
  BY ShardTypes DEF RunnerTypes, RunnerGone
<1>2. head' \in [AllJobs -> Commits] /\ stateCommit' \in [AllJobs -> Commits]
  BY ShardTypes, CommitType DEF RunnerTypes, RunnerGone
<1>3. carries' \in [AllJobs -> Cargo] /\ cancelled' \in [AllJobs -> BOOLEAN]
  BY DEF RunnerTypes, RunnerGone, Cargo
<1>4. attempt' \in [AllJobs -> 0 .. PushAttempts]
  BY ParametersAssumption DEF RunnerTypes, RunnerGone
<1> QED
  BY <1>1, <1>2, <1>3, <1>4 DEF RunnerTypes

\* A step that leaves a group of variables alone keeps that group's types.
LEMMA Frame ==
    /\ BranchTypes /\ UNCHANGED branchVars => BranchTypes'
    /\ VendorTypes /\ UNCHANGED vendorVars => VendorTypes'
    /\ DeployTypes /\ UNCHANGED deployVars => DeployTypes'
    /\ RunnerTypes /\ UNCHANGED runnerVars => RunnerTypes'
    /\ HistoryTypes /\ UNCHANGED <<fate, conflicts>> => HistoryTypes'
BY DEF BranchTypes, VendorTypes, DeployTypes, RunnerTypes, HistoryTypes

-----------------------------------------------------------------------------
\* The actions.
LEMMA PushIInv ==
    ASSUME IInv, NEW w \in Wants, Push(w)
    PROVE  IInv'
<1>1. BranchTypes'
  BY ParametersAssumption, CommitType, CommitParts
  DEF IInv, TypeOK, BranchTypes, AllJobs, Jobs, Push, TipMoves
<1>2. JobTypes'
  BY ParametersAssumption
  DEF IInv, TypeOK, BranchTypes, JobTypes, Phases, AllJobs, Jobs, Push, TipMoves, Pushing
<1>3. Counted'
  BY ParametersAssumption
  DEF IInv, TypeOK, JobTypes, Counted, Jobs, AllJobs, BranchTypes, Push, TipMoves, Pushing
<1> QED
  BY <1>1, <1>2, <1>3, Frame DEF IInv, TypeOK, Push

LEMMA RecordByHandIInv ==
    ASSUME IInv, NEW b \in Bindings, NEW id \in Ids, RecordByHand(b, id)
    PROVE  IInv'
<1>1. BranchTypes'
  <2>1. tip' \in Commits
    BY ShardTypes, CommitType, CommitParts
    DEF IInv, TypeOK, BranchTypes, MaybeId, RecordByHand, TipMoves
  <2>2. moved' \in [AllJobs -> BOOLEAN]
    BY DEF IInv, TypeOK, BranchTypes, RecordByHand, TipMoves
  <2>3. /\ pushed' \in 0 .. MaxPushes
        /\ handEdits' \in 0 .. HandEdits
        /\ acksLost' \in 0 .. LostAcks
    BY ParametersAssumption DEF IInv, TypeOK, BranchTypes, RecordByHand, TipMoves
  <2> QED
    BY <2>1, <2>2, <2>3 DEF BranchTypes
<1>2. JobTypes'
  BY DEF IInv, TypeOK, JobTypes, Phases, Deploying, WritingBack, RecordByHand, TipMoves, Pushing
<1>3. HistoryTypes'
  BY DEF IInv, TypeOK, HistoryTypes, Fates, RecordByHand
<1>4. Counted'
  BY DEF IInv, TypeOK, JobTypes, Counted, Jobs, AllJobs, RecordByHand, TipMoves, Pushing
<1> QED
  BY <1>1, <1>2, <1>3, <1>4, Frame DEF IInv, TypeOK, RecordByHand

LEMMA RemoveByHandIInv ==
    ASSUME IInv, NEW b \in Bindings, RemoveByHand(b)
    PROVE  IInv'
<1>1. BranchTypes'
  <2>1. tip' \in Commits
    BY ShardTypes, CommitType, CommitParts DEF IInv, TypeOK, BranchTypes, RemoveByHand, TipMoves
  <2>2. moved' \in [AllJobs -> BOOLEAN]
    BY DEF IInv, TypeOK, BranchTypes, RemoveByHand, TipMoves
  <2>3. /\ pushed' \in 0 .. MaxPushes
        /\ handEdits' \in 0 .. HandEdits
        /\ acksLost' \in 0 .. LostAcks
    BY ParametersAssumption DEF IInv, TypeOK, BranchTypes, RemoveByHand, TipMoves
  <2> QED
    BY <2>1, <2>2, <2>3 DEF BranchTypes
<1>2. VendorTypes'
  BY MaxIdsAssumption DEF IInv, TypeOK, VendorTypes, Ids, RemoveByHand
<1>3. JobTypes'
  BY DEF IInv, TypeOK, JobTypes, Phases, Deploying, WritingBack, RemoveByHand, TipMoves, Pushing
<1>4. Counted'
  BY DEF IInv, TypeOK, JobTypes, Counted, Jobs, AllJobs, RemoveByHand, TipMoves, Pushing
<1> QED
  BY <1>1, <1>2, <1>3, <1>4, Frame DEF IInv, TypeOK, RemoveByHand

LEMMA StartIInv ==
    ASSUME IInv, NEW j \in Jobs, Start(j)
    PROVE  IInv'
<1>1. JobTypes'
  BY ParametersAssumption
  DEF IInv, TypeOK, JobTypes, Phases, Deploying, Counted, AllJobs, Start, BeginDeploy
<1>2. DeployTypes'
  BY DEF IInv, TypeOK, DeployTypes, AllJobs, Targets, Start, BeginDeploy
<1>3. RunnerTypes'
  BY CommitParts DEF IInv, TypeOK, BranchTypes, RunnerTypes, Start, BeginDeploy, Overlay
<1>4. Counted'
  BY DEF IInv, TypeOK, JobTypes, Counted, Jobs, AllJobs, Start, BeginDeploy
<1> QED
  BY <1>1, <1>2, <1>3, <1>4, Frame DEF IInv, TypeOK, Start, BeginDeploy

LEMMA StartFailsIInv ==
    ASSUME IInv, NEW j \in Jobs, StartFails(j)
    PROVE  IInv'
<1>1. JobTypes'
  BY ParametersAssumption DEF IInv, TypeOK, JobTypes, Phases, Counted, AllJobs, StartFails
<1>2. Counted'
  BY DEF IInv, TypeOK, JobTypes, Counted, Jobs, AllJobs, StartFails
<1> QED
  BY <1>1, <1>2, Frame DEF IInv, TypeOK, StartFails

LEMMA RerunIInv ==
    ASSUME IInv, NEW j \in Jobs, Rerun(j)
    PROVE  IInv'
<1>1. JobTypes'
  BY DEF IInv, TypeOK, JobTypes, Phases, AllJobs, Rerun
<1>2. Counted'
  BY DEF IInv, TypeOK, JobTypes, Counted, Jobs, AllJobs, Rerun
<1> QED
  BY <1>1, <1>2, Frame DEF IInv, TypeOK, Rerun

LEMMA StartStagingIInv ==
    ASSUME IInv, NEW j \in Staging, NEW w \in Wants, StartStaging(j, w)
    PROVE  IInv'
<1>1. JobTypes'
  BY ParametersAssumption
  DEF IInv, TypeOK, JobTypes, Phases, Deploying, Counted, AllJobs, StartStaging, BeginDeploy
<1>2. DeployTypes'
  BY DEF IInv, TypeOK, DeployTypes, AllJobs, Targets, StartStaging, BeginDeploy
<1>3. RunnerTypes'
  BY CommitParts DEF IInv, TypeOK, BranchTypes, RunnerTypes, StartStaging, BeginDeploy, Overlay
<1>4. Counted'
  BY ParametersAssumption
  DEF IInv, TypeOK, JobTypes, Counted, Jobs, AllJobs, StartStaging, BeginDeploy
<1> QED
  BY <1>1, <1>2, <1>3, <1>4, Frame DEF IInv, TypeOK, StartStaging, BeginDeploy

LEMMA ScreenTenantIInv ==
    ASSUME IInv, NEW j \in AllJobs, NEW t \in Tenants, ScreenTenant(j, t)
    PROVE  IInv'
<1>1. JobTypes'
  BY DEF IInv, TypeOK, JobTypes, Phases, Deploying, WritingBack, ScreenTenant
<1>2. DeployTypes'
  BY DecisionTypes
  DEF IInv, TypeOK, DeployTypes, Plans, NoPlan, NoCall, Decisions, IsCall, MaybeId,
      ScreenTenant
<1>3. Counted'
  BY DEF IInv, TypeOK, JobTypes, Counted, Jobs, AllJobs, ScreenTenant
<1> QED
  BY <1>1, <1>2, <1>3, Frame DEF IInv, TypeOK, ScreenTenant

LEMMA CreateAnsweredIInv ==
    ASSUME IInv, NEW j \in AllJobs, NEW b \in Bindings, CreateAnswered(j, b)
    PROVE  IInv'
<1>1. VendorTypes'
  BY MaxIdsAssumption DEF IInv, TypeOK, VendorTypes, Ids, CreateAnswered
<1>2. JobTypes'
  BY DEF IInv, TypeOK, JobTypes, Phases, Deploying, WritingBack, CreateAnswered, CallMade
<1>3. DeployTypes'
  BY DEF IInv, TypeOK, DeployTypes, Plans, Pendings, MaybeId, NoCall, CreateAnswered, CallMade
<1>4. HistoryTypes'
  BY DEF IInv, TypeOK, HistoryTypes, Fates, CreateAnswered
<1>5. Counted'
  BY DEF IInv, TypeOK, JobTypes, Counted, Jobs, AllJobs, CreateAnswered, Due, CallMade
<1> QED
  BY <1>1, <1>2, <1>3, <1>4, <1>5, Frame DEF IInv, TypeOK, CreateAnswered

LEMMA CreateUnansweredIInv ==
    ASSUME IInv, NEW j \in AllJobs, NEW b \in Bindings, CreateUnanswered(j, b)
    PROVE  IInv'
<1>1. VendorTypes'
  BY MaxIdsAssumption DEF IInv, TypeOK, VendorTypes, Ids, CreateUnanswered
<1>2. JobTypes'
  BY DEF IInv, TypeOK, JobTypes, Phases, Deploying, WritingBack, CreateUnanswered, RunStops,
     AfterDeploy
<1>3. DeployTypes'
  BY PlanTypes DEF IInv, TypeOK, DeployTypes, CreateUnanswered, RunStops
<1>4. HistoryTypes'
  BY DEF IInv, TypeOK, HistoryTypes, Fates, CreateUnanswered
<1>5. Counted'
  BY DEF IInv, TypeOK, JobTypes, Counted, Jobs, AllJobs, CreateUnanswered, Due, RunStops,
     AfterDeploy
<1> QED
  BY <1>1, <1>2, <1>3, <1>4, <1>5, Frame DEF IInv, TypeOK, CreateUnanswered

LEMMA UpdateAcceptedIInv ==
    ASSUME IInv, NEW j \in AllJobs, NEW b \in Bindings, UpdateAccepted(j, b)
    PROVE  IInv'
<1>1. JobTypes'
  BY DEF IInv, TypeOK, JobTypes, Phases, Deploying, WritingBack, UpdateAccepted, CallMade
<1>2. DeployTypes'
  BY DEF IInv, TypeOK, DeployTypes, Plans, NoCall, MaybeId, UpdateAccepted, CallMade
<1>3. Counted'
  BY DEF IInv, TypeOK, JobTypes, Counted, Jobs, AllJobs, UpdateAccepted, Due, CallMade
<1> QED
  BY <1>1, <1>2, <1>3, Frame DEF IInv, TypeOK, UpdateAccepted

LEMMA DeleteAcceptedIInv ==
    ASSUME IInv, NEW j \in AllJobs, NEW b \in Bindings, DeleteAccepted(j, b)
    PROVE  IInv'
<1>1. VendorTypes'
  BY MaxIdsAssumption DEF IInv, TypeOK, VendorTypes, Ids, DeleteAccepted
<1>2. JobTypes'
  BY DEF IInv, TypeOK, JobTypes, Phases, Deploying, WritingBack, DeleteAccepted, CallMade
<1>3. DeployTypes'
  BY DEF IInv, TypeOK, DeployTypes, Plans, Pendings, MaybeId, NoCall, DeleteAccepted, CallMade
<1>4. Counted'
  BY DEF IInv, TypeOK, JobTypes, Counted, Jobs, AllJobs, DeleteAccepted, Due, CallMade
<1> QED
  BY <1>1, <1>2, <1>3, <1>4, Frame DEF IInv, TypeOK, DeleteAccepted

LEMMA DeleteUnansweredIInv ==
    ASSUME IInv, NEW j \in AllJobs, NEW b \in Bindings, DeleteUnanswered(j, b)
    PROVE  IInv'
<1>1. VendorTypes'
  BY MaxIdsAssumption DEF IInv, TypeOK, VendorTypes, Ids, DeleteUnanswered
<1>2. JobTypes'
  BY DEF IInv, TypeOK, JobTypes, Phases, Deploying, WritingBack, DeleteUnanswered, RunStops,
     AfterDeploy
<1>3. DeployTypes'
  BY PlanTypes DEF IInv, TypeOK, DeployTypes, DeleteUnanswered, RunStops
<1>4. Counted'
  BY DEF IInv, TypeOK, JobTypes, Counted, Jobs, AllJobs, DeleteUnanswered, Due, RunStops,
     AfterDeploy
<1> QED
  BY <1>1, <1>2, <1>3, <1>4, Frame DEF IInv, TypeOK, DeleteUnanswered

LEMMA VendorRefusesIInv ==
    ASSUME IInv, NEW j \in AllJobs, NEW b \in Bindings, VendorRefuses(j, b)
    PROVE  IInv'
<1>1. JobTypes'
  BY DEF IInv, TypeOK, JobTypes, Phases, Deploying, WritingBack, VendorRefuses, RunStops,
     AfterDeploy
<1>2. DeployTypes'
  BY PlanTypes DEF IInv, TypeOK, DeployTypes, VendorRefuses, RunStops
<1>3. Counted'
  BY DEF IInv, TypeOK, JobTypes, Counted, Jobs, AllJobs, VendorRefuses, Due, RunStops,
     AfterDeploy
<1> QED
  BY <1>1, <1>2, <1>3, Frame DEF IInv, TypeOK, VendorRefuses

LEMMA RecordCreatedIInv ==
    ASSUME IInv, NEW j \in AllJobs, NEW b \in Bindings, RecordCreated(j, b)
    PROVE  IInv'
<1>1. JobTypes'
  BY DEF IInv, TypeOK, JobTypes, Phases, Deploying, WritingBack, RecordCreated, Settle
<1>2. DeployTypes'
  BY PlanTypes DEF IInv, TypeOK, DeployTypes, RecordCreated, Settle
<1>3. RunnerTypes'
  BY ShardTypes DEF IInv, TypeOK, RunnerTypes, DeployTypes, Pendings, RecordCreated
<1>4. HistoryTypes'
  BY DEF IInv, TypeOK, HistoryTypes, Fates, RecordCreated
<1>5. Counted'
  BY DEF IInv, TypeOK, JobTypes, Counted, Jobs, AllJobs, RecordCreated, Settle
<1> QED
  BY <1>1, <1>2, <1>3, <1>4, <1>5, Frame DEF IInv, TypeOK, RecordCreated

LEMMA RecordFailsIInv ==
    ASSUME IInv, NEW j \in AllJobs, RecordFails(j)
    PROVE  IInv'
<1>1. JobTypes'
  BY DEF IInv, TypeOK, JobTypes, Phases, Deploying, WritingBack, RecordFails, Settle
<1>2. DeployTypes'
  BY PlanTypes DEF IInv, TypeOK, DeployTypes, RecordFails, Settle
<1>3. HistoryTypes'
  BY DEF IInv, TypeOK, HistoryTypes, Fates, DeployTypes, Pendings, MaybeId, RecordFails
<1>4. Counted'
  BY DEF IInv, TypeOK, JobTypes, Counted, Jobs, AllJobs, RecordFails, Settle
<1> QED
  BY <1>1, <1>2, <1>3, <1>4, Frame DEF IInv, TypeOK, RecordFails

LEMMA RecordDeletedIInv ==
    ASSUME IInv, NEW j \in AllJobs, NEW b \in Bindings, RecordDeleted(j, b)
    PROVE  IInv'
<1>1. JobTypes'
  BY DEF IInv, TypeOK, JobTypes, Phases, Deploying, WritingBack, RecordDeleted, Settle, Unbind
<1>2. DeployTypes'
  BY PlanTypes DEF IInv, TypeOK, DeployTypes, RecordDeleted, Settle, Unbind
<1>3. RunnerTypes'
  BY ShardTypes, CommitType
  DEF IInv, TypeOK, BranchTypes, RunnerTypes, Cargo, RecordDeleted, Unbind
<1>4. Counted'
  BY DEF IInv, TypeOK, JobTypes, Counted, Jobs, AllJobs, RecordDeleted, Settle, Unbind
<1> QED
  BY <1>1, <1>2, <1>3, <1>4, Frame DEF IInv, TypeOK, RecordDeleted, Unbind

LEMMA ForgetFailsIInv ==
    ASSUME IInv, NEW j \in AllJobs, ForgetFails(j)
    PROVE  IInv'
<1>1. JobTypes'
  BY DEF IInv, TypeOK, JobTypes, Phases, Deploying, WritingBack, ForgetFails, Settle
<1>2. DeployTypes'
  BY PlanTypes DEF IInv, TypeOK, DeployTypes, ForgetFails, Settle
<1>3. Counted'
  BY DEF IInv, TypeOK, JobTypes, Counted, Jobs, AllJobs, ForgetFails, Settle
<1> QED
  BY <1>1, <1>2, <1>3, Frame DEF IInv, TypeOK, ForgetFails

LEMMA DeployEndsIInv ==
    ASSUME IInv, NEW j \in AllJobs, DeployEnds(j)
    PROVE  IInv'
<1>1. JobTypes'
  BY DEF IInv, TypeOK, JobTypes, Phases, Deploying, WritingBack, DeployEnds, AfterDeploy
<1>2. Counted'
  BY DEF IInv, TypeOK, JobTypes, Counted, Jobs, AllJobs, DeployEnds, AfterDeploy
<1> QED
  BY <1>1, <1>2, Frame DEF IInv, TypeOK, DeployEnds

LEMMA InterruptIInv ==
    ASSUME IInv, NEW j \in AllJobs, Interrupt(j)
    PROVE  IInv'
<1>1. JobTypes'
  BY DEF IInv, TypeOK, JobTypes, Phases, Deploying, WritingBack, Interrupt, RunStops,
     AfterDeploy
<1>2. DeployTypes'
  BY PlanTypes DEF IInv, TypeOK, DeployTypes, Interrupt, RunStops
<1>3. HistoryTypes'
  BY DEF IInv, TypeOK, HistoryTypes, Fates, Interrupt, PendingLost
<1>4. Counted'
  BY DEF IInv, TypeOK, JobTypes, Counted, Jobs, AllJobs, Interrupt, Deploying, RunStops,
     AfterDeploy
<1> QED
  BY <1>1, <1>2, <1>3, <1>4, Frame DEF IInv, TypeOK, Interrupt

LEMMA KillIInv ==
    ASSUME IInv, NEW j \in AllJobs, Kill(j)
    PROVE  IInv'
<1>1. JobTypes'
  BY DEF IInv, TypeOK, JobTypes, Phases, Deploying, WritingBack, Kill
<1>2. DeployTypes'
  BY PlanTypes DEF IInv, TypeOK, DeployTypes, Kill
<1>3. RunnerTypes'
  BY RunnerGoneTypes DEF IInv, TypeOK, Kill
<1>4. HistoryTypes'
  BY DEF IInv, TypeOK, HistoryTypes, Fates, Kill, FreshBecome, PendingLost
<1>5. Counted'
  BY DEF IInv, TypeOK, JobTypes, Counted, Jobs, AllJobs, Kill, Active, Deploying, WritingBack
<1> QED
  BY <1>1, <1>2, <1>3, <1>4, <1>5, Frame DEF IInv, TypeOK, Kill

LEMMA CommitWritebackIInv ==
    ASSUME IInv, NEW j \in AllJobs, NEW edits \in BOOLEAN, NEW valid \in BOOLEAN,
           CommitWriteback(j, edits, valid)
    PROVE  IInv'
<1>1. JobTypes'
  BY DEF IInv, TypeOK, BranchTypes, JobTypes, Phases, WritingBack, CommitWriteback
<1>2. RunnerTypes'
  <2>1. head' \in [AllJobs -> Commits] /\ stateCommit' \in [AllJobs -> Commits]
    BY CommitType DEF IInv, TypeOK, RunnerTypes, CommitWriteback
  <2>2. carries' \in [AllJobs -> Cargo]
    BY DEF IInv, TypeOK, RunnerTypes, Cargo, CommitWriteback
  <2>3. attempt' = [attempt EXCEPT ![j] = 1] /\ attempt \in [AllJobs -> 0 .. PushAttempts]
    BY DEF IInv, TypeOK, RunnerTypes, CommitWriteback
  <2>4. attempt' \in [AllJobs -> 0 .. PushAttempts]
    BY ParametersAssumption, <2>3
  <2>5. /\ work' \in [AllJobs -> ShardMaps]
        /\ stateBase' \in [AllJobs -> ShardMaps]
        /\ cancelled' \in [AllJobs -> BOOLEAN]
    BY DEF IInv, TypeOK, RunnerTypes, CommitWriteback
  <2> QED
    BY <2>1, <2>2, <2>3, <2>4, <2>5 DEF RunnerTypes
<1>3. Counted'
  BY DEF IInv, TypeOK, JobTypes, Counted, Jobs, AllJobs, CommitWriteback
<1> QED
  BY <1>1, <1>2, <1>3, Frame DEF IInv, TypeOK, CommitWriteback

LEMMA NothingToCommitIInv ==
    ASSUME IInv, NEW j \in AllJobs, NEW valid \in BOOLEAN, NothingToCommit(j, valid)
    PROVE  IInv'
<1>1. JobTypes'
  BY DEF IInv, TypeOK, JobTypes, Phases, Deploying, WritingBack, NothingToCommit, Exits
<1>2. RunnerTypes'
  BY RunnerGoneTypes DEF IInv, TypeOK, NothingToCommit, Exits
<1>3. Counted'
  BY DEF IInv, TypeOK, JobTypes, Counted, Jobs, AllJobs, NothingToCommit, Exits
<1> QED
  BY <1>1, <1>2, <1>3, Frame DEF IInv, TypeOK, NothingToCommit

LEMMA PushAcceptedIInv ==
    ASSUME IInv, NEW j \in AllJobs, PushAccepted(j)
    PROVE  IInv'
<1>1. BranchTypes'
  <2>1. tip' \in Commits
    BY DEF IInv, TypeOK, BranchTypes, RunnerTypes, PushAccepted, TipIsHead
  <2>2. moved' \in [AllJobs -> BOOLEAN]
    BY DEF IInv, TypeOK, BranchTypes, PushAccepted, TipIsHead
  <2>3. /\ pushed' \in 0 .. MaxPushes
        /\ handEdits' \in 0 .. HandEdits
        /\ acksLost' \in 0 .. LostAcks
    BY DEF IInv, TypeOK, BranchTypes, PushAccepted, TipIsHead
  <2> QED
    BY <2>1, <2>2, <2>3 DEF BranchTypes
<1>2. JobTypes'
  BY DEF IInv, TypeOK, JobTypes, Phases, Deploying, WritingBack, PushAccepted, Exits, TipIsHead
<1>3. RunnerTypes'
  BY RunnerGoneTypes DEF IInv, TypeOK, PushAccepted, Exits
<1>4. HistoryTypes'
  BY DEF IInv, TypeOK, HistoryTypes, Fates, PushAccepted, OnTip
<1>5. Counted'
  BY DEF IInv, TypeOK, JobTypes, Counted, Jobs, AllJobs, PushAccepted, Exits, FastForward
<1> QED
  BY <1>1, <1>2, <1>3, <1>4, <1>5, Frame DEF IInv, TypeOK, PushAccepted

LEMMA PushUnacknowledgedIInv ==
    ASSUME IInv, NEW j \in AllJobs, PushUnacknowledged(j)
    PROVE  IInv'
<1>1. BranchTypes'
  <2>1. tip' \in Commits
    BY DEF IInv, TypeOK, BranchTypes, RunnerTypes, PushUnacknowledged, TipIsHead
  <2>2. moved' \in [AllJobs -> BOOLEAN]
    BY DEF IInv, TypeOK, BranchTypes, PushUnacknowledged, TipIsHead
  <2>3. acksLost \in 0 .. LostAcks /\ acksLost < LostAcks /\ acksLost' = acksLost + 1
    BY DEF IInv, TypeOK, BranchTypes, PushUnacknowledged, TipIsHead
  <2>4. acksLost' \in 0 .. LostAcks
    BY ParametersAssumption, <2>3
  <2>5. pushed' \in 0 .. MaxPushes /\ handEdits' \in 0 .. HandEdits
    BY DEF IInv, TypeOK, BranchTypes, PushUnacknowledged, TipIsHead
  <2> QED
    BY <2>1, <2>2, <2>3, <2>4, <2>5 DEF BranchTypes
<1>2. JobTypes'
  BY DEF IInv, TypeOK, JobTypes, Phases, Deploying, WritingBack, PushUnacknowledged,
     TipIsHead, Retries
<1>3. RunnerTypes'
  <2>1. carries' \in [AllJobs -> Cargo]
    BY DEF IInv, TypeOK, RunnerTypes, Cargo, PushUnacknowledged, Retries
  <2>2. /\ attempt \in [AllJobs -> 0 .. PushAttempts]
        /\ attempt[j] < PushAttempts
        /\ attempt' = [attempt EXCEPT ![j] = @ + 1]
    BY DEF IInv, TypeOK, RunnerTypes, PushUnacknowledged, Retries
  <2>3. attempt' \in [AllJobs -> 0 .. PushAttempts]
    BY ParametersAssumption, <2>2
  <2>4. /\ head' \in [AllJobs -> Commits]
        /\ stateCommit' \in [AllJobs -> Commits]
        /\ work' \in [AllJobs -> ShardMaps]
        /\ stateBase' \in [AllJobs -> ShardMaps]
        /\ cancelled' \in [AllJobs -> BOOLEAN]
    BY DEF IInv, TypeOK, RunnerTypes, PushUnacknowledged, Retries
  <2> QED
    BY <2>1, <2>2, <2>3, <2>4 DEF RunnerTypes
<1>4. HistoryTypes'
  BY DEF IInv, TypeOK, HistoryTypes, Fates, PushUnacknowledged, OnTip
<1>5. Counted'
  BY DEF IInv, TypeOK, JobTypes, Counted, Jobs, AllJobs, PushUnacknowledged, FastForward,
     Retries
<1> QED
  BY <1>1, <1>2, <1>3, <1>4, <1>5, Frame DEF IInv, TypeOK, PushUnacknowledged

LEMMA PushRejectedIInv ==
    ASSUME IInv, NEW j \in AllJobs, PushRejected(j)
    PROVE  IInv'
<1>1. JobTypes'
  BY DEF IInv, TypeOK, JobTypes, Phases, Deploying, WritingBack, PushRejected, Retries
<1>2. RunnerTypes'
  <2>1. attempt' \in [AllJobs -> 0 .. PushAttempts]
    BY ParametersAssumption DEF IInv, TypeOK, RunnerTypes, PushRejected, Retries
  <2>2. /\ head' \in [AllJobs -> Commits]
        /\ stateCommit' \in [AllJobs -> Commits]
        /\ carries' \in [AllJobs -> Cargo]
        /\ work' \in [AllJobs -> ShardMaps]
        /\ stateBase' \in [AllJobs -> ShardMaps]
        /\ cancelled' \in [AllJobs -> BOOLEAN]
    BY DEF IInv, TypeOK, RunnerTypes, PushRejected, Retries
  <2> QED
    BY <2>1, <2>2 DEF RunnerTypes
<1>3. Counted'
  BY DEF IInv, TypeOK, JobTypes, Counted, Jobs, AllJobs, PushRejected, Retries
<1> QED
  BY <1>1, <1>2, <1>3, Frame DEF IInv, TypeOK, PushRejected

LEMMA GivesUpIInv ==
    ASSUME IInv, NEW j \in AllJobs, GivesUp(j)
    PROVE  IInv'
<1>1. JobTypes'
  BY DEF IInv, TypeOK, JobTypes, Phases, Deploying, WritingBack, GivesUp, ExitsUnpublished,
     Exits
<1>2. RunnerTypes'
  BY RunnerGoneTypes DEF IInv, TypeOK, GivesUp, ExitsUnpublished, Exits
<1>3. HistoryTypes'
  BY DEF IInv, TypeOK, HistoryTypes, Fates, GivesUp, ExitsUnpublished, FreshBecome
<1>4. Counted'
  BY DEF IInv, TypeOK, JobTypes, Counted, Jobs, AllJobs, GivesUp, ExitsUnpublished, Exits
<1> QED
  BY <1>1, <1>2, <1>3, <1>4, Frame DEF IInv, TypeOK, GivesUp, ExitsUnpublished

LEMMA RebaseIInv ==
    ASSUME IInv, NEW j \in AllJobs, Rebase(j)
    PROVE  IInv'
<1>1. JobTypes'
  BY DEF IInv, TypeOK, JobTypes, Phases, Deploying, WritingBack, Rebase
<1>2. RunnerTypes'
  <2>1. tip \in Commits /\ head \in [AllJobs -> Commits]
    BY DEF IInv, TypeOK, RunnerTypes, BranchTypes, Rebase
  <2>2. Commit(tip.tree, Rebased(j)) \in Commits
    BY <2>1, CommitType, CommitParts, ReplayType DEF Rebased
  <2>3. head' \in [AllJobs -> Commits]
    BY <2>1, <2>2 DEF IInv, TypeOK, RunnerTypes, Rebase
  <2>4. carries' \in [AllJobs -> Cargo]
    BY DEF IInv, TypeOK, RunnerTypes, Cargo, Rebase
  <2>5. /\ stateCommit' \in [AllJobs -> Commits]
        /\ attempt' \in [AllJobs -> 0 .. PushAttempts]
        /\ work' \in [AllJobs -> ShardMaps]
        /\ stateBase' \in [AllJobs -> ShardMaps]
        /\ cancelled' \in [AllJobs -> BOOLEAN]
    BY DEF IInv, TypeOK, RunnerTypes, Rebase
  <2> QED
    BY <2>1, <2>2, <2>3, <2>4, <2>5 DEF RunnerTypes
<1>3. Counted'
  BY DEF IInv, TypeOK, JobTypes, Counted, Jobs, AllJobs, Rebase
<1> QED
  BY <1>1, <1>2, <1>3, Frame DEF IInv, TypeOK, Rebase

LEMMA RebaseOntoSameIInv ==
    ASSUME IInv, NEW j \in AllJobs, RebaseOntoSame(j)
    PROVE  IInv'
<1>1. JobTypes'
  BY DEF IInv, TypeOK, JobTypes, Phases, Deploying, WritingBack, RebaseOntoSame
<1>2. Counted'
  BY DEF IInv, TypeOK, JobTypes, Counted, Jobs, AllJobs, RebaseOntoSame
<1> QED
  BY <1>1, <1>2, Frame DEF IInv, TypeOK, RebaseOntoSame

LEMMA ReplayStateIInv ==
    ASSUME IInv, NEW j \in AllJobs, ReplayState(j)
    PROVE  IInv'
<1>1. JobTypes'
  BY DEF IInv, TypeOK, JobTypes, Phases, Deploying, WritingBack, ReplayState
<1>2. RunnerTypes'
  BY CommitType, CommitParts, ReplayType
  DEF IInv, TypeOK, BranchTypes, RunnerTypes, Cargo, Replayed, ReplayState
<1>3. HistoryTypes'
  BY CommitParts
  DEF IInv, TypeOK, HistoryTypes, RunnerTypes, BranchTypes, ShardMaps, Delta, ReplayConflicts,
      ReplayState, ReportConflicts
<1>4. Counted'
  BY DEF IInv, TypeOK, JobTypes, Counted, Jobs, AllJobs, ReplayState
<1> QED
  BY <1>1, <1>2, <1>3, <1>4, Frame DEF IInv, TypeOK, ReplayState

LEMMA NothingToReplayIInv ==
    ASSUME IInv, NEW j \in AllJobs, NothingToReplay(j)
    PROVE  IInv'
<1>1. JobTypes'
  BY DEF IInv, TypeOK, JobTypes, Phases, Deploying, WritingBack, NothingToReplay, Exits
<1>2. RunnerTypes'
  BY RunnerGoneTypes DEF IInv, TypeOK, NothingToReplay, Exits
<1>3. Counted'
  BY DEF IInv, TypeOK, JobTypes, Counted, Jobs, AllJobs, NothingToReplay, Exits
<1> QED
  BY <1>1, <1>2, <1>3, Frame DEF IInv, TypeOK, NothingToReplay

LEMMA RetryFailsIInv ==
    ASSUME IInv, NEW j \in AllJobs, RetryFails(j)
    PROVE  IInv'
<1>1. JobTypes'
  BY DEF IInv, TypeOK, JobTypes, Phases, Deploying, WritingBack, RetryFails, ExitsUnpublished,
     Exits
<1>2. RunnerTypes'
  BY RunnerGoneTypes DEF IInv, TypeOK, RetryFails, ExitsUnpublished, Exits
<1>3. HistoryTypes'
  BY DEF IInv, TypeOK, HistoryTypes, Fates, RetryFails, ExitsUnpublished, FreshBecome
<1>4. Counted'
  BY DEF IInv, TypeOK, JobTypes, Counted, Jobs, AllJobs, RetryFails, ExitsUnpublished, Exits
<1> QED
  BY <1>1, <1>2, <1>3, <1>4, Frame DEF IInv, TypeOK, RetryFails, ExitsUnpublished

LEMMA CancelWritebackIInv ==
    ASSUME IInv, NEW j \in AllJobs, CancelWriteback(j)
    PROVE  IInv'
<1>1. JobTypes'
  BY DEF IInv, TypeOK, BranchTypes, JobTypes, Phases, WritingBack, CancelWriteback
<1>2. RunnerTypes'
  <2>1. head' \in [AllJobs -> Commits] /\ stateCommit' \in [AllJobs -> Commits]
    BY CommitType, CommitParts DEF IInv, TypeOK, RunnerTypes, CancelWriteback
  <2>2. carries' \in [AllJobs -> Cargo]
    BY DEF IInv, TypeOK, RunnerTypes, Cargo, CancelWriteback
  <2>3. attempt' \in [AllJobs -> 0 .. PushAttempts]
    BY ParametersAssumption DEF IInv, TypeOK, RunnerTypes, CancelWriteback
  <2>4. /\ work' \in [AllJobs -> ShardMaps]
        /\ stateBase' \in [AllJobs -> ShardMaps]
        /\ cancelled' \in [AllJobs -> BOOLEAN]
    BY DEF IInv, TypeOK, RunnerTypes, CancelWriteback
  <2> QED
    BY <2>1, <2>2, <2>3, <2>4 DEF RunnerTypes
<1>3. Counted'
  BY DEF IInv, TypeOK, JobTypes, Counted, Jobs, AllJobs, CancelWriteback
<1> QED
  BY <1>1, <1>2, <1>3, Frame DEF IInv, TypeOK, CancelWriteback

-----------------------------------------------------------------------------
LEMMA NextIInv ==
    ASSUME IInv, [Next]_vars
    PROVE  IInv'
<1>1. ASSUME NEW w \in Wants, Push(w) PROVE IInv'
  BY <1>1, PushIInv
<1>2. ASSUME NEW b \in Bindings, NEW id \in Ids, RecordByHand(b, id) PROVE IInv'
  BY <1>2, RecordByHandIInv
<1>3. ASSUME NEW b \in Bindings, RemoveByHand(b) PROVE IInv'
  BY <1>3, RemoveByHandIInv
<1>4. ASSUME NEW j \in Jobs, Start(j) PROVE IInv'
  BY <1>4, StartIInv
<1>5. ASSUME NEW j \in Jobs, StartFails(j) PROVE IInv'
  BY <1>5, StartFailsIInv
<1>6. ASSUME NEW j \in Jobs, Rerun(j) PROVE IInv'
  BY <1>6, RerunIInv
<1>7. ASSUME NEW j \in Staging, NEW w \in Wants, StartStaging(j, w) PROVE IInv'
  BY <1>7, StartStagingIInv
<1>8. ASSUME NEW j \in AllJobs, NEW t \in Tenants, ScreenTenant(j, t) PROVE IInv'
  BY <1>8, ScreenTenantIInv
<1>9. ASSUME NEW j \in AllJobs, NEW b \in Bindings, CreateAnswered(j, b) PROVE IInv'
  BY <1>9, CreateAnsweredIInv
<1>10. ASSUME NEW j \in AllJobs, NEW b \in Bindings, CreateUnanswered(j, b) PROVE IInv'
  BY <1>10, CreateUnansweredIInv
<1>11. ASSUME NEW j \in AllJobs, NEW b \in Bindings, UpdateAccepted(j, b) PROVE IInv'
  BY <1>11, UpdateAcceptedIInv
<1>12. ASSUME NEW j \in AllJobs, NEW b \in Bindings, DeleteAccepted(j, b) PROVE IInv'
  BY <1>12, DeleteAcceptedIInv
<1>13. ASSUME NEW j \in AllJobs, NEW b \in Bindings, DeleteUnanswered(j, b) PROVE IInv'
  BY <1>13, DeleteUnansweredIInv
<1>14. ASSUME NEW j \in AllJobs, NEW b \in Bindings, VendorRefuses(j, b) PROVE IInv'
  BY <1>14, VendorRefusesIInv
<1>15. ASSUME NEW j \in AllJobs, NEW b \in Bindings, RecordCreated(j, b) PROVE IInv'
  BY <1>15, RecordCreatedIInv
<1>16. ASSUME NEW j \in AllJobs, RecordFails(j) PROVE IInv'
  BY <1>16, RecordFailsIInv
<1>17. ASSUME NEW j \in AllJobs, NEW b \in Bindings, RecordDeleted(j, b) PROVE IInv'
  BY <1>17, RecordDeletedIInv
<1>18. ASSUME NEW j \in AllJobs, ForgetFails(j) PROVE IInv'
  BY <1>18, ForgetFailsIInv
<1>19. ASSUME NEW j \in AllJobs, DeployEnds(j) PROVE IInv'
  BY <1>19, DeployEndsIInv
<1>20. ASSUME NEW j \in AllJobs, Interrupt(j) PROVE IInv'
  BY <1>20, InterruptIInv
<1>21. ASSUME NEW j \in AllJobs, Kill(j) PROVE IInv'
  BY <1>21, KillIInv
<1>22. ASSUME NEW j \in AllJobs, NEW edits \in BOOLEAN, NEW valid \in BOOLEAN,
              CommitWriteback(j, edits, valid)
       PROVE IInv'
  BY <1>22, CommitWritebackIInv
<1>23. ASSUME NEW j \in AllJobs, NEW valid \in BOOLEAN, NothingToCommit(j, valid) PROVE IInv'
  BY <1>23, NothingToCommitIInv
<1>24. ASSUME NEW j \in AllJobs, PushAccepted(j) PROVE IInv'
  BY <1>24, PushAcceptedIInv
<1>25. ASSUME NEW j \in AllJobs, PushUnacknowledged(j) PROVE IInv'
  BY <1>25, PushUnacknowledgedIInv
<1>26. ASSUME NEW j \in AllJobs, PushRejected(j) PROVE IInv'
  BY <1>26, PushRejectedIInv
<1>27. ASSUME NEW j \in AllJobs, GivesUp(j) PROVE IInv'
  BY <1>27, GivesUpIInv
<1>28. ASSUME NEW j \in AllJobs, Rebase(j) PROVE IInv'
  BY <1>28, RebaseIInv
<1>29. ASSUME NEW j \in AllJobs, RebaseOntoSame(j) PROVE IInv'
  BY <1>29, RebaseOntoSameIInv
<1>30. ASSUME NEW j \in AllJobs, ReplayState(j) PROVE IInv'
  BY <1>30, ReplayStateIInv
<1>31. ASSUME NEW j \in AllJobs, NothingToReplay(j) PROVE IInv'
  BY <1>31, NothingToReplayIInv
<1>32. ASSUME NEW j \in AllJobs, RetryFails(j) PROVE IInv'
  BY <1>32, RetryFailsIInv
<1>33. ASSUME NEW j \in AllJobs, CancelWriteback(j) PROVE IInv'
  BY <1>33, CancelWritebackIInv
<1>34. CASE UNCHANGED vars
  BY <1>34, Frame DEF vars, IInv, TypeOK, JobTypes, Counted, Jobs, AllJobs
<1>35. CASE Operator
  BY <1>35, <1>1, <1>2, <1>3 DEF Operator
<1>36. ASSUME NEW j \in AllJobs, Runner(j) PROVE IInv'
  BY <1>36, <1>4, <1>5, <1>6, <1>7, <1>20, <1>33, <1>21 DEF Runner
<1>37. ASSUME NEW j \in AllJobs, Deploy(j) PROVE IInv'
  BY <1>37, <1>8, <1>9, <1>10, <1>11, <1>12, <1>13, <1>14, <1>15, <1>17, <1>16, <1>18, <1>19
  DEF Deploy, VendorAnswers
<1>38. ASSUME NEW j \in AllJobs, Writeback(j) PROVE IInv'
  BY <1>38, <1>22, <1>23, <1>24, <1>25, <1>26, <1>27, <1>28, <1>29, <1>30, <1>31, <1>32
  DEF Writeback
<1> QED
  BY <1>34, <1>35, <1>36, <1>37, <1>38 DEF Next, Settled

\* Every reachable state has the types TypeOK gives it: no id, phase, fate, retry or
\* re-run counter of the jobs, their runners and the branch ever leaves its range,
\* however pushes, vendor answers, cancellations and hand edits interleave.
THEOREM TypeCorrect == Spec => []TypeOK
<1>1. Init => IInv
  BY InitIInv
<1>2. IInv /\ [Next]_vars => IInv'
  BY NextIInv
<1>3. IInv => TypeOK
  BY DEF IInv
<1> QED
  BY <1>1, <1>2, <1>3, PTL DEF Spec

-----------------------------------------------------------------------------
\* What a step of another job, or of an operator, leaves of job j.
Same(j) ==
    /\ phase'[j] = phase[j] /\ want'[j] = want[j]
    /\ todo'[j] = todo[j] /\ plan'[j] = plan[j] /\ pending'[j] = pending[j]
    /\ work'[j] = work[j] /\ stateBase'[j] = stateBase[j]
    /\ head'[j] = head[j] /\ stateCommit'[j] = stateCommit[j] /\ carries'[j] = carries[j]

LEMMA RunnerLocal ==
    ASSUME TypeOK, NEW i \in AllJobs, NEW j \in AllJobs, i # j, Runner(i)
    PROVE  Same(j)
<1> USE DEF Same
<1>1. CASE i \in Jobs /\ Start(i)
  BY <1>1 DEF TypeOK, JobTypes, DeployTypes, RunnerTypes, Start, BeginDeploy
<1>2. CASE StartFails(i) \/ Rerun(i)
  BY <1>2 DEF TypeOK, JobTypes, StartFails, Rerun
<1>3. ASSUME NEW w \in Wants, StartStaging(i, w) PROVE Same(j)
  BY <1>3 DEF TypeOK, JobTypes, DeployTypes, RunnerTypes, StartStaging, BeginDeploy
<1>4. CASE Interrupt(i)
  BY <1>4 DEF TypeOK, JobTypes, DeployTypes, Interrupt, RunStops
<1>5. CASE CancelWriteback(i)
  BY <1>5 DEF TypeOK, JobTypes, RunnerTypes, CancelWriteback
<1>6. CASE Kill(i)
  BY <1>6 DEF TypeOK, JobTypes, DeployTypes, RunnerTypes, Kill, RunnerGone
<1> QED
  BY <1>1, <1>2, <1>3, <1>4, <1>5, <1>6 DEF Runner

LEMMA DeployLocal ==
    ASSUME TypeOK, NEW i \in AllJobs, NEW j \in AllJobs, i # j, Deploy(i)
    PROVE  Same(j)
<1> USE DEF Same
<1>1. ASSUME NEW t \in Tenants, ScreenTenant(i, t) PROVE Same(j)
  BY <1>1 DEF TypeOK, DeployTypes, ScreenTenant
<1>2. ASSUME NEW b \in Bindings, VendorAnswers(i, b) PROVE Same(j)
  BY <1>2 DEF TypeOK, JobTypes, DeployTypes, VendorAnswers, CreateAnswered, CreateUnanswered,
     UpdateAccepted, DeleteAccepted, DeleteUnanswered, VendorRefuses, CallMade, RunStops
<1>3. ASSUME NEW b \in Bindings, RecordCreated(i, b) \/ RecordDeleted(i, b) PROVE Same(j)
  BY <1>3 DEF TypeOK, JobTypes, DeployTypes, RunnerTypes, RecordCreated, RecordDeleted, Settle
<1>4. CASE RecordFails(i) \/ ForgetFails(i) \/ DeployEnds(i)
  BY <1>4 DEF TypeOK, JobTypes, DeployTypes, RecordFails, ForgetFails, DeployEnds, Settle
<1> QED
  BY <1>1, <1>2, <1>3, <1>4 DEF Deploy

LEMMA WritebackLocal ==
    ASSUME TypeOK, NEW i \in AllJobs, NEW j \in AllJobs, i # j, Writeback(i)
    PROVE  Same(j)
<1> USE DEF Same
<1>1. ASSUME NEW edits \in BOOLEAN, NEW valid \in BOOLEAN, CommitWriteback(i, edits, valid)
      PROVE  Same(j)
  BY <1>1 DEF TypeOK, JobTypes, RunnerTypes, CommitWriteback
<1>2. ASSUME NEW valid \in BOOLEAN, NothingToCommit(i, valid) PROVE Same(j)
  BY <1>2 DEF TypeOK, JobTypes, RunnerTypes, NothingToCommit, Exits, RunnerGone
<1>3. CASE PushAccepted(i)
  BY <1>3 DEF TypeOK, JobTypes, RunnerTypes, PushAccepted, Exits, RunnerGone
<1>4. CASE PushUnacknowledged(i) \/ PushRejected(i)
  BY <1>4 DEF TypeOK, JobTypes, RunnerTypes, PushUnacknowledged, PushRejected, Retries
<1>5. CASE GivesUp(i) \/ RetryFails(i)
  BY <1>5
  DEF TypeOK, JobTypes, RunnerTypes, GivesUp, RetryFails, ExitsUnpublished, Exits, RunnerGone
<1>6. CASE Rebase(i)
  BY <1>6 DEF TypeOK, JobTypes, RunnerTypes, Rebase
<1>7. CASE RebaseOntoSame(i)
  BY <1>7 DEF TypeOK, JobTypes, RebaseOntoSame
<1>8. CASE ReplayState(i)
  BY <1>8 DEF TypeOK, JobTypes, RunnerTypes, ReplayState
<1>9. CASE NothingToReplay(i)
  BY <1>9 DEF TypeOK, JobTypes, RunnerTypes, NothingToReplay, Exits, RunnerGone
<1> QED
  BY <1>1, <1>2, <1>3, <1>4, <1>5, <1>6, <1>7, <1>8, <1>9 DEF Writeback

\* A change request's job is none of the jobs that merges start.
LEMMA OperatorLocal ==
    ASSUME TypeOK, Operator, NEW j \in Staging
    PROVE  Same(j)
<1> USE ParametersAssumption DEF Same, AllJobs
<1>1. ASSUME NEW w \in Wants, Push(w) PROVE Same(j)
  <2>1. pushed + 1 \in Jobs
    BY <1>1 DEF Push, TypeOK, BranchTypes, Jobs
  <2> QED
    BY <1>1, <2>1 DEF Push, TypeOK, JobTypes
<1>2. ASSUME NEW b \in Bindings, NEW id \in Ids, RecordByHand(b, id) PROVE Same(j)
  BY <1>2 DEF RecordByHand
<1>3. ASSUME NEW b \in Bindings, RemoveByHand(b) PROVE Same(j)
  BY <1>3 DEF RemoveByHand
<1> QED
  BY <1>1, <1>2, <1>3 DEF Operator

-----------------------------------------------------------------------------
\* What makes ChangeRequestKeepsState inductive: the rules a change request
\* deploys release nothing and retire nothing, so no call it makes needs a shard.
ReviewInv(j) ==
    /\ phase[j] \in {"new", "deploying", "done", "dead"}
    /\ work[j] = stateBase[j]
    /\ \A b \in Bindings : plan[j][b].kind \in {"none", "update"}
    /\ \A b \in todo[j] : StatusIn(j, want[j], b[1]) \in {"PREVIEW", "UNIVERSAL"}

LEMMA ReviewInit == ASSUME Init, NEW j \in Staging PROVE ReviewInv(j)
BY DEF Init, AllJobs, ReviewInv, NoPlan, NoCall

LEMMA ReviewSame == ASSUME NEW j \in Staging, ReviewInv(j), Same(j) PROVE ReviewInv(j)'
BY DEF ReviewInv, Same, StatusIn

\* A change request accepts previews only.
LEMMA ReviewTargets ==
    ASSUME NEW j \in Staging, NEW w, NEW b \in Targets(j, w)
    PROVE  StatusIn(j, w, b[1]) \in {"PREVIEW", "UNIVERSAL"}
BY DEF Targets, Accepts, Deploys, RunOf, Retiring

\* It is never told to create a rule, and never to delete one it may deploy.
LEMMA ReviewDecision ==
    ASSUME NEW j \in Staging, NEW b \in Bindings, RunnerTypes,
           StatusIn(j, want[j], b[1]) \in {"PREVIEW", "UNIVERSAL"}, IsCall(Decision(j, b))
    PROVE  Decision(j, b).kind = "update"
<1>1. Unpersisted(RunOf(j))
  BY DEF Unpersisted, RunOf
<1>2. work[j][b] \in MaybeId
  BY DEF RunnerTypes, ShardMaps, AllJobs
<1> QED
  BY <1>1, <1>2 DEF Decision, PlanExternalId, IsCall, Act, Refuse, Calls, Retiring, MaybeId

LEMMA ReviewStep ==
    ASSUME TypeOK, NEW j \in Staging, ReviewInv(j), Runner(j) \/ Deploy(j) \/ Writeback(j)
    PROVE  ReviewInv(j)'
<1>0. j \in AllJobs /\ j \notin Jobs
  BY ParametersAssumption DEF AllJobs
<1>1. ASSUME NEW w \in Wants, StartStaging(j, w) PROVE ReviewInv(j)'
  <2>1. /\ phase'[j] = "deploying" /\ work'[j] = stateBase'[j]
        /\ plan' = plan /\ todo'[j] = Targets(j, w) /\ want'[j] = w
    BY <1>0, <1>1 DEF StartStaging, BeginDeploy, TypeOK, JobTypes, DeployTypes, RunnerTypes
  <2> QED
    BY <2>1, ReviewTargets DEF ReviewInv, StatusIn
<1>2. ASSUME NEW t \in Tenants, ScreenTenant(j, t) PROVE ReviewInv(j)'
  <2>1. \A b \in Bindings : plan'[j][b].kind \in {"none", "update"}
    <3> SUFFICES ASSUME NEW b \in Bindings PROVE plan'[j][b].kind \in {"none", "update"}
      OBVIOUS
    <3>1. plan'[j][b] = IF b \in todo[j] \cap BindingsOf(t) /\ IsCall(Decision(j, b))
                        THEN Decision(j, b) ELSE NoCall
      BY <1>0, <1>2 DEF ScreenTenant, TypeOK, DeployTypes
    <3> QED
      BY <3>1, ReviewDecision DEF ReviewInv, TypeOK, NoCall
  <2>2. todo'[j] \subseteq todo[j]
    BY <1>0, <1>2 DEF ScreenTenant, TypeOK, DeployTypes
  <2> QED
    BY <1>2, <2>1, <2>2 DEF ScreenTenant, ReviewInv, StatusIn
<1>3. ASSUME NEW b \in Bindings, VendorAnswers(j, b) PROVE ReviewInv(j)'
  <2>1. CASE UpdateAccepted(j, b)
    <3>1. /\ phase'[j] = "deploying" /\ plan'[j] = [plan[j] EXCEPT ![b] = NoCall]
          /\ UNCHANGED <<work, stateBase, todo, want>>
      BY <1>0, <2>1 DEF UpdateAccepted, CallMade, TypeOK, JobTypes, DeployTypes
    <3>2. \A c \in Bindings : plan'[j][c] = IF c = b THEN NoCall ELSE plan[j][c]
      BY <1>0, <3>1 DEF TypeOK, DeployTypes, Plans
    <3> QED
      BY <3>1, <3>2 DEF ReviewInv, StatusIn, NoCall
  <2>2. CASE VendorRefuses(j, b)
    BY <1>0, <2>2, ParametersAssumption
    DEF VendorRefuses, RunStops, AfterDeploy, TypeOK, JobTypes, DeployTypes, ReviewInv,
        NoPlan, NoCall
  <2> QED
    BY <1>3, <2>1, <2>2 DEF VendorAnswers, CreateAnswered, CreateUnanswered, DeleteAccepted,
                            DeleteUnanswered, Due, ReviewInv
<1>4. CASE DeployEnds(j)
  BY <1>0, <1>4 DEF DeployEnds, AfterDeploy, TypeOK, JobTypes, ReviewInv, StatusIn
<1>5. CASE Interrupt(j)
  BY <1>0, <1>5
  DEF Interrupt, RunStops, AfterDeploy, TypeOK, JobTypes, DeployTypes, ReviewInv, NoPlan,
      NoCall
<1>6. CASE Kill(j)
  BY <1>0, <1>6
  DEF Kill, RunnerGone, TypeOK, JobTypes, DeployTypes, RunnerTypes, ReviewInv, NoPlan, NoCall
<1> QED
  <2>1. ~Writeback(j) /\ ~CancelWriteback(j)
    BY DEF ReviewInv, Writeback, CommitWriteback, NothingToCommit, PushAccepted, FastForward,
           PushUnacknowledged, PushRejected, GivesUp, Rebase, RebaseOntoSame, ReplayState,
           NothingToReplay, RetryFails, CancelWriteback
  <2>2. /\ ~RecordFails(j) /\ ~ForgetFails(j)
        /\ \A b \in Bindings : ~RecordCreated(j, b) /\ ~RecordDeleted(j, b)
    BY DEF ReviewInv, RecordFails, ForgetFails, RecordCreated, RecordDeleted
  <2> QED
    BY <1>0, <1>1, <1>2, <1>3, <1>4, <1>5, <1>6, <2>1, <2>2 DEF Runner, Deploy

LEMMA ReviewNext ==
    ASSUME TypeOK, NEW j \in Staging, ReviewInv(j), [Next]_vars
    PROVE  ReviewInv(j)'
<1>0. j \in AllJobs
  BY DEF AllJobs
<1>1. CASE Operator
  BY <1>1, OperatorLocal, ReviewSame
<1>2. ASSUME NEW i \in AllJobs, Runner(i) \/ Deploy(i) \/ Writeback(i) PROVE ReviewInv(j)'
  <2>1. CASE i = j
    BY <1>2, <2>1, ReviewStep
  <2>2. CASE i # j
    BY <1>0, <1>2, <2>2, RunnerLocal, DeployLocal, WritebackLocal, ReviewSame
  <2> QED
    BY <2>1, <2>2
<1>3. CASE UNCHANGED vars
  BY <1>3, ReviewSame DEF vars, Same
<1> QED
  BY <1>1, <1>2, <1>3 DEF Next, Settled

(***************************************************************************)
(* For every number of merges and change requests, every mix of migrated     *)
(* and legacy rules: a change request's job never writes back and its        *)
(* checkout's shards stay those it laid down, because screen_tenant refuses  *)
(* every create whose id only its runner would hold.                         *)
(***************************************************************************)
THEOREM ChangeRequestsKeepState == Spec => []ChangeRequestKeepsState
<1> DEFINE Inv == IInv /\ \A j \in Staging : ReviewInv(j)
<1>1. Init => Inv
  BY InitIInv, ReviewInit
<1>2. Inv /\ [Next]_vars => Inv'
  BY NextIInv, ReviewNext DEF IInv
<1>3. Inv => ChangeRequestKeepsState
  BY DEF ReviewInv, ChangeRequestKeepsState, WritingBack
<1> QED
  BY <1>1, <1>2, <1>3, PTL DEF Spec

-----------------------------------------------------------------------------
LEMMA CommitFields == \A p, t : Commit(p, t).parent = p /\ Commit(p, t).tree = t
BY DEF Commit

\* HEAD is a commit of the run's own.
Carries(j) == carries[j] \in {"shards", "shards and rules"}

\* A commit changes nothing but what job j changed, and to what it made it.
ChangesOwn(j, commit) ==
    \A b \in Bindings : commit.tree[b] # commit.parent[b] =>
        stateBase[j][b] # work[j][b] /\ commit.tree[b] = work[j][b]

HeadOwn(j) == Pushing(j) /\ Carries(j) => ChangesOwn(j, head[j])
StateOwn(j) == Pushing(j) => ChangesOwn(j, stateCommit[j])

\* HEAD sits on the tip, or is it, until the branch moves.
Placed(j) ==
    Pushing(j) /\ ~behind[j] /\ carries[j] # "nothing" =>
        head[j].parent = tip.tree \/ head[j].tree = tip.tree

\* A job that started on the tip works on it until the branch moves.
AtTip(j) == Active(j) /\ ~moved[j] => stateBase[j] = tip.tree

OwnInv(j) == HeadOwn(j) /\ StateOwn(j) /\ Placed(j) /\ AtTip(j)

LEMMA OwnInit == ASSUME Init, NEW j \in AllJobs PROVE OwnInv(j)
BY DEF Init, OwnInv, HeadOwn, StateOwn, Placed, AtTip, Pushing, Active, Deploying, WritingBack

\* What another actor's step means for job j: the branch stays, or moves past it.
Kept(j) == tip' = tip /\ moved'[j] = moved[j] /\ behind'[j] = behind[j]
Overtaken(j) == moved'[j] /\ (Pushing(j) => behind'[j])

LEMMA OwnSame ==
    ASSUME NEW j \in AllJobs, OwnInv(j), Same(j), Kept(j) \/ Overtaken(j)
    PROVE  OwnInv(j)'
<1>1. HeadOwn(j)' /\ StateOwn(j)'
  BY DEF OwnInv, HeadOwn, StateOwn, ChangesOwn, Carries, Pushing, Same
<1>2. Placed(j)'
  BY DEF OwnInv, Placed, Pushing, Same, Kept, Overtaken
<1>3. AtTip(j)'
  BY DEF OwnInv, AtTip, Active, Same, Kept, Overtaken
<1> QED
  BY <1>1, <1>2, <1>3 DEF OwnInv

LEMMA BranchLocal ==
    ASSUME TypeOK, NEW i \in AllJobs, NEW j \in AllJobs, i # j,
           Runner(i) \/ Deploy(i) \/ Writeback(i)
    PROVE  Kept(j) \/ Overtaken(j)
<1>1. CASE Runner(i)
  BY <1>1
  DEF Runner, Start, StartFails, Rerun, StartStaging, BeginDeploy, Interrupt, CancelWriteback,
     Kill, Kept, TypeOK, JobTypes
<1>2. CASE Deploy(i)
  BY <1>2
  DEF Deploy, VendorAnswers, ScreenTenant, CreateAnswered, CreateUnanswered, UpdateAccepted,
     DeleteAccepted, DeleteUnanswered, VendorRefuses, RecordCreated, RecordDeleted, RecordFails,
     ForgetFails, DeployEnds, Kept
<1>3. CASE Writeback(i)
  <2>1. CASE PushAccepted(i) \/ PushUnacknowledged(i)
    BY <2>1 DEF PushAccepted, PushUnacknowledged, TipIsHead, Kept, Overtaken
  <2>2. CASE ~(PushAccepted(i) \/ PushUnacknowledged(i))
    BY <1>3, <2>2
    DEF Writeback, CommitWriteback, NothingToCommit, PushRejected, GivesUp, RetryFails,
       ExitsUnpublished, Rebase, RebaseOntoSame, ReplayState, NothingToReplay,
       Kept, TypeOK, JobTypes
  <2> QED
    BY <2>1, <2>2
<1> QED
  BY <1>1, <1>2, <1>3

\* A merge or a hand edit moves the branch past every job that is pushing.
LEMMA OwnOperator ==
    ASSUME IInv, Operator, NEW j \in AllJobs, OwnInv(j)
    PROVE  OwnInv(j)'
<1>1. ASSUME NEW w \in Wants, Push(w) PROVE OwnInv(j)'
  <2>1. CASE j = pushed + 1
    <3>1. phase'[j] = "queued"
      BY <1>1, <2>1 DEF IInv, TypeOK, JobTypes, Push
    <3> QED
      BY <3>1
      DEF OwnInv, HeadOwn, StateOwn, Placed, AtTip, Pushing, Active, Deploying,
          WritingBack
  <2>2. CASE j # pushed + 1
    <3>1. Same(j) /\ Overtaken(j)
      BY <1>1, <2>2 DEF IInv, TypeOK, JobTypes, BranchTypes, Push, TipMoves, Same, Overtaken
    <3> QED
      BY <3>1, OwnSame
  <2> QED
    BY <2>1, <2>2
<1>2. ASSUME NEW b \in Bindings, NEW id \in Ids, RecordByHand(b, id) PROVE OwnInv(j)'
  <2>1. Same(j) /\ Overtaken(j)
    BY <1>2 DEF RecordByHand, TipMoves, Same, Overtaken
  <2> QED
    BY <2>1, OwnSame
<1>3. ASSUME NEW b \in Bindings, RemoveByHand(b) PROVE OwnInv(j)'
  <2>1. Same(j) /\ Overtaken(j)
    BY <1>3 DEF RemoveByHand, TipMoves, Same, Overtaken
  <2> QED
    BY <2>1, OwnSame
<1> QED
  BY <1>1, <1>2, <1>3 DEF Operator

\* A job that pushes nothing has nothing to place.
LEMMA OwnIdle ==
    ASSUME NEW j \in AllJobs, OwnInv(j), ~Pushing(j)',
           \/ ~Active(j)'
           \/ Active(j) /\ Kept(j) /\ stateBase'[j] = stateBase[j]
           \/ stateBase'[j] = tip'.tree
    PROVE  OwnInv(j)'
BY DEF OwnInv, HeadOwn, StateOwn, Placed, AtTip, Kept, Pushing, Active

\* The job's own steps.
LEMMA OwnRunner ==
    ASSUME TypeOK, ~CancelInWriteback, NEW j \in AllJobs, OwnInv(j), Runner(j)
    PROVE  OwnInv(j)'
<1>1. CASE (j \in Jobs /\ Start(j)) \/ (\E w \in Wants : StartStaging(j, w))
  <2>1. phase'[j] = "deploying" /\ stateBase'[j] = tip'.tree
    BY <1>1 DEF Start, StartStaging, BeginDeploy, Overlay, TypeOK, JobTypes, RunnerTypes
  <2> QED
    BY <2>1, OwnIdle DEF Pushing
<1>2. CASE StartFails(j) \/ Rerun(j) \/ Kill(j)
  <2>1. phase'[j] \in {"queued", "done", "dead"}
    BY <1>2 DEF StartFails, Rerun, Kill, TypeOK, JobTypes
  <2> QED
    BY <2>1, OwnIdle DEF Pushing, Active, Deploying, WritingBack
<1>3. CASE Interrupt(j)
  <2>1. /\ phase'[j] \in {"done", "writeback"}
        /\ Active(j)
        /\ Kept(j)
        /\ stateBase'[j] = stateBase[j]
    BY <1>3 DEF Interrupt, RunStops, AfterDeploy, Active, Kept, TypeOK, JobTypes
  <2> QED
    BY <2>1, OwnIdle DEF Pushing
<1> QED
  BY <1>1, <1>2, <1>3 DEF Runner, CancelWriteback

LEMMA OwnDeploy ==
    ASSUME TypeOK, NEW j \in AllJobs, OwnInv(j), Deploy(j)
    PROVE  OwnInv(j)'
<1>1. /\ Active(j) /\ Kept(j) /\ stateBase'[j] = stateBase[j]
      /\ phase'[j] \in {"deploying", "recording", "forgetting", "writeback", "done"}
  BY DEF Deploy, VendorAnswers, ScreenTenant, CreateAnswered, CreateUnanswered, UpdateAccepted,
     DeleteAccepted, DeleteUnanswered, VendorRefuses, RecordCreated, RecordDeleted, RecordFails,
     ForgetFails, DeployEnds, Due, CallMade, RunStops, Settle, AfterDeploy, Active, Deploying,
     Kept, TypeOK, JobTypes
<1> QED
  BY <1>1, OwnIdle DEF Pushing

LEMMA OwnCommit ==
    ASSUME TypeOK, NEW j \in AllJobs, OwnInv(j),
           NEW edits \in BOOLEAN, NEW valid \in BOOLEAN, CommitWriteback(j, edits, valid)
    PROVE  OwnInv(j)'
<1>1. /\ phase[j] = "writeback" /\ phase'[j] = "pushing" /\ tip' = tip /\ moved' = moved
      /\ work' = work /\ stateBase' = stateBase /\ behind'[j] = moved[j]
      /\ head'[j] = Commit(stateBase[j], work[j])
      /\ stateCommit'[j] = Commit(stateBase[j], work[j])
  BY DEF CommitWriteback, TypeOK, JobTypes, RunnerTypes
<1>2. HeadOwn(j)' /\ StateOwn(j)'
  BY <1>1, CommitFields DEF HeadOwn, StateOwn, ChangesOwn
<1>3. AtTip(j)' /\ Placed(j)'
  BY <1>1, CommitFields DEF OwnInv, AtTip, Placed, Active, WritingBack
<1> QED
  BY <1>2, <1>3 DEF OwnInv

\* Replay adds nothing to a commit's own changes.
LEMMA ReplayOwn ==
    ASSUME NEW j \in AllJobs, NEW commit, ChangesOwn(j, commit), NEW shards \in ShardMaps
    PROVE  ChangesOwn(j, Commit(shards, Replay(commit.parent, commit.tree, shards)))
BY CommitFields DEF ChangesOwn, Replay, Delta

LEMMA OwnRebase ==
    ASSUME TypeOK, NEW j \in AllJobs, OwnInv(j), Rebase(j)
    PROVE  OwnInv(j)'
<1>1. /\ phase[j] = "rebasing" /\ phase'[j] = "pushing" /\ tip' = tip /\ moved' = moved
      /\ work' = work /\ stateBase' = stateBase /\ stateCommit' = stateCommit
      /\ tip.tree \in ShardMaps
  BY DEF Rebase, TypeOK, JobTypes, BranchTypes, Commits
<1>2. \/ head'[j] = tip /\ carries'[j] = "nothing"
      \/ /\ head'[j] = Commit(tip.tree, Rebased(j))
         /\ carries'[j] = IF carries[j] = "nothing" THEN "another's" ELSE carries[j]
  BY DEF Rebase, TypeOK, RunnerTypes
<1>3. HeadOwn(j)'
  <2>1. CASE /\ carries[j] \in {"shards", "shards and rules"}
             /\ head'[j] = Commit(tip.tree, Rebased(j))
    <3>1. ChangesOwn(j, head[j])
      BY <1>1, <2>1 DEF OwnInv, HeadOwn, Carries, Pushing
    <3>2. ChangesOwn(j, head'[j])
      BY <1>1, <2>1, <3>1, ReplayOwn DEF Rebased
    <3> QED
      BY <1>1, <3>2 DEF HeadOwn, ChangesOwn
  <2>2. CASE ~Carries(j)'
    BY <2>2 DEF HeadOwn
  <2> QED
    BY <1>2, <2>1, <2>2 DEF Carries
<1>4. StateOwn(j)' /\ AtTip(j)'
  BY <1>1 DEF OwnInv, StateOwn, ChangesOwn, AtTip, Active, WritingBack, Pushing
<1>5. Placed(j)'
  BY <1>1, <1>2, CommitFields DEF Placed
<1> QED
  BY <1>3, <1>4, <1>5 DEF OwnInv

LEMMA OwnReplay ==
    ASSUME TypeOK, NEW j \in AllJobs, OwnInv(j), ReplayState(j)
    PROVE  OwnInv(j)'
<1>1. /\ phase[j] = "rebasing" /\ phase'[j] = "pushing" /\ tip' = tip /\ moved' = moved
      /\ work' = work /\ stateBase' = stateBase /\ tip.tree \in ShardMaps
      /\ head'[j] = Commit(tip.tree, Replayed(j))
      /\ stateCommit'[j] = Commit(tip.tree, Replayed(j))
  BY DEF ReplayState, TypeOK, JobTypes, BranchTypes, RunnerTypes, Commits
<1>2. HeadOwn(j)' /\ StateOwn(j)'
  BY <1>1, ReplayOwn DEF OwnInv, HeadOwn, StateOwn, ChangesOwn, Pushing, Replayed
<1>3. AtTip(j)' /\ Placed(j)'
  BY <1>1, CommitFields DEF OwnInv, AtTip, Placed, Active, WritingBack
<1> QED
  BY <1>2, <1>3 DEF OwnInv

LEMMA OwnUnacknowledged ==
    ASSUME TypeOK, NEW j \in AllJobs, OwnInv(j), PushUnacknowledged(j)
    PROVE  OwnInv(j)'
<1>1. /\ phase[j] = "pushing" /\ phase'[j] = "rebasing" /\ work' = work /\ stateBase' = stateBase
      /\ stateCommit' = stateCommit /\ head' = head
      /\ carries'[j] = IF carries[j] = "shards and rules" THEN "shards" ELSE carries[j]
  BY DEF PushUnacknowledged, FastForward, Retries, TypeOK, JobTypes, RunnerTypes
<1>2. \/ carries[j] = "nothing" /\ tip' = tip /\ moved' = moved
      \/ moved'[j] /\ tip' = head[j]
  BY DEF PushUnacknowledged, TipIsHead
<1>3. HeadOwn(j)' /\ StateOwn(j)'
  BY <1>1 DEF OwnInv, HeadOwn, StateOwn, ChangesOwn, Carries, Pushing
<1>4. AtTip(j)' /\ Placed(j)'
  BY <1>1, <1>2 DEF OwnInv, AtTip, Placed, Active, WritingBack
<1> QED
  BY <1>3, <1>4 DEF OwnInv

LEMMA OwnWriteback ==
    ASSUME TypeOK, NEW j \in AllJobs, OwnInv(j), Writeback(j)
    PROVE  OwnInv(j)'
<1>1. ASSUME NEW edits \in BOOLEAN, NEW valid \in BOOLEAN, CommitWriteback(j, edits, valid)
      PROVE  OwnInv(j)'
  BY <1>1, OwnCommit
<1>2. CASE \/ \E valid \in BOOLEAN : NothingToCommit(j, valid)
           \/ PushAccepted(j) \/ GivesUp(j) \/ NothingToReplay(j) \/ RetryFails(j)
  <2>1. phase'[j] = "done"
    BY <1>2 DEF NothingToCommit, PushAccepted, GivesUp, NothingToReplay, RetryFails,
       ExitsUnpublished, Exits, TypeOK, JobTypes
  <2> QED
    BY <2>1, OwnIdle DEF Pushing, Active, Deploying, WritingBack
<1>3. CASE PushUnacknowledged(j)
  BY <1>3, OwnUnacknowledged
<1>4. CASE PushRejected(j) \/ RebaseOntoSame(j)
  <2>1. /\ Pushing(j) /\ phase'[j] \in {"pushing", "rebasing"}
        /\ UNCHANGED <<tip, moved, behind, work, stateBase, head, stateCommit, carries>>
    BY <1>4 DEF PushRejected, RebaseOntoSame, Retries, Pushing, TypeOK, JobTypes
  <2> QED
    BY <2>1
    DEF OwnInv, HeadOwn, StateOwn, ChangesOwn, Carries, Placed, AtTip, Active, Pushing,
        WritingBack
<1>5. CASE Rebase(j)
  BY <1>5, OwnRebase
<1>6. CASE ReplayState(j)
  BY <1>6, OwnReplay
<1> QED
  BY <1>1, <1>2, <1>3, <1>4, <1>5, <1>6 DEF Writeback

LEMMA OwnNext ==
    ASSUME IInv, ~CancelInWriteback, NEW j \in AllJobs, OwnInv(j), [Next]_vars
    PROVE  OwnInv(j)'
<1>1. CASE Operator
  BY <1>1, OwnOperator
<1>2. ASSUME NEW i \in AllJobs, Runner(i) \/ Deploy(i) \/ Writeback(i) PROVE OwnInv(j)'
  <2>1. CASE i = j
    BY <1>2, <2>1, OwnRunner, OwnDeploy, OwnWriteback DEF IInv
  <2>2. CASE i # j
    BY <1>2, <2>2, RunnerLocal, DeployLocal, WritebackLocal, BranchLocal, OwnSame DEF IInv
  <2> QED
    BY <2>1, <2>2
<1>3. CASE UNCHANGED vars
  BY <1>3, OwnSame DEF vars, Same, Kept
<1> QED
  BY <1>1, <1>2, <1>3 DEF Next, Settled

\* Only a push puts a job's commit on the branch.
LEMMA TipChanges ==
    ASSUME TypeOK, [Next]_vars, tip'.tree # tip.tree
    PROVE  \/ handEdits' # handEdits
           \/ \E j \in AllJobs : /\ phase[j] = "pushing" /\ ~behind[j]
                                 /\ carries[j] # "nothing" /\ tip' = head[j]
<1>1. CASE Operator
  <2>1. ASSUME NEW w \in Wants, Push(w) PROVE FALSE
    BY <2>1, CommitFields DEF Push, TipMoves
  <2> QED
    BY <1>1, <2>1 DEF Operator, RecordByHand, RemoveByHand, TypeOK, BranchTypes
<1>2. ASSUME NEW j \in AllJobs, Runner(j) PROVE FALSE
  BY <1>2
  DEF Runner, Start, StartFails, Rerun, StartStaging, BeginDeploy, Interrupt, CancelWriteback,
      Kill
<1>3. ASSUME NEW j \in AllJobs, Deploy(j) PROVE FALSE
  BY <1>3
  DEF Deploy, VendorAnswers, ScreenTenant, CreateAnswered, CreateUnanswered, UpdateAccepted,
     DeleteAccepted, DeleteUnanswered, VendorRefuses, RecordCreated, RecordDeleted, RecordFails,
     ForgetFails, DeployEnds
<1>4. ASSUME NEW j \in AllJobs, Writeback(j), ~(PushAccepted(j) \/ PushUnacknowledged(j))
      PROVE  FALSE
  BY <1>4 DEF Writeback, CommitWriteback, NothingToCommit, PushRejected, GivesUp, RetryFails,
     ExitsUnpublished, Rebase, RebaseOntoSame, ReplayState, NothingToReplay
<1>5. ASSUME NEW j \in AllJobs, PushAccepted(j) \/ PushUnacknowledged(j)
      PROVE  phase[j] = "pushing" /\ ~behind[j] /\ carries[j] # "nothing" /\ tip' = head[j]
  BY <1>5 DEF PushAccepted, PushUnacknowledged, FastForward, TipIsHead
<1> QED
  BY <1>1, <1>2, <1>3, <1>4, <1>5 DEF Next, Settled, vars

(***************************************************************************)
(* Where a cancelled write-back is not started over, each binding a push     *)
(* changes on the default branch is one its job changed itself, to the value *)
(* the job gave it, or the job was pushing the commit it had found on the    *)
(* branch after git dropped its own. For any number of jobs, rebases,        *)
(* replays, rejected and unacknowledged pushes and hand edits.               *)
(***************************************************************************)
THEOREM OwnCommitsOnly ==
    ASSUME ~CancelInWriteback PROVE Spec => OwnCommitOnly
<1> DEFINE Inv == /\ IInv
                  /\ \A j \in Staging : ReviewInv(j)
                  /\ \A j \in AllJobs : OwnInv(j)
<1>1. Init => Inv
  BY InitIInv, ReviewInit, OwnInit
<1>2. Inv /\ [Next]_vars => Inv'
  BY NextIInv, ReviewNext, OwnNext DEF IInv
<1> DEFINE Step(b) ==
      tip'.tree[b] # tip.tree[b] =>
          \/ handEdits' # handEdits
          \/ \E j \in Jobs : Owns(j, b, tip'.tree[b]) \/ carries[j] = "another's"
<1>3. Inv /\ [Next]_vars => [\A b \in Bindings : Step(b)]_vars
  <2> SUFFICES ASSUME Inv, [Next]_vars, NEW b \in Bindings, tip'.tree[b] # tip.tree[b],
                      handEdits' = handEdits
               PROVE  \E j \in Jobs : Owns(j, b, tip'.tree[b]) \/ carries[j] = "another's"
    OBVIOUS
  <2>1. PICK j \in AllJobs : /\ phase[j] = "pushing" /\ ~behind[j]
                             /\ carries[j] # "nothing" /\ tip' = head[j]
    BY TipChanges DEF IInv
  <2>2. j \in Jobs
    BY <2>1 DEF AllJobs, ReviewInv
  <2>3. carries[j] # "another's" => Carries(j)
    BY <2>1 DEF IInv, TypeOK, RunnerTypes, Cargo, Carries
  <2>4. head[j].parent = tip.tree
    BY <2>1 DEF OwnInv, Placed, Pushing
  <2> QED
    BY <2>1, <2>2, <2>3, <2>4 DEF OwnInv, HeadOwn, ChangesOwn, Pushing, Owns
<1> QED
  BY <1>1, <1>2, <1>3, PTL DEF Spec, OwnCommitOnly

-----------------------------------------------------------------------------
\* A merge's job is new until the merge; an operator's step touches no other.
Triggered(j) ==
    /\ phase[j] = "new" /\ phase'[j] = "queued"
    /\ UNCHANGED <<todo, plan, pending, work, stateBase, head, stateCommit, carries>>

LEMMA OperatorSteps ==
    ASSUME IInv, Operator, NEW j \in AllJobs
    PROVE  (Same(j) /\ Overtaken(j)) \/ Triggered(j)
<1>1. ASSUME NEW w \in Wants, Push(w) PROVE (Same(j) /\ Overtaken(j)) \/ Triggered(j)
  <2>1. pushed + 1 \in Jobs
    BY <1>1, ParametersAssumption DEF Push, IInv, TypeOK, BranchTypes, Jobs
  <2>2. CASE j # pushed + 1
    <3>1. Same(j)
      BY <1>1, <2>2 DEF Push, IInv, TypeOK, JobTypes, Same
    <3>2. Overtaken(j)
      BY <1>1, <2>2 DEF Push, TipMoves, Overtaken, Pushing, IInv, TypeOK, JobTypes
    <3> QED
      BY <3>1, <3>2
  <2>3. CASE j = pushed + 1
    <3>2. phase[j] = "new"
      BY <2>1, <2>3 DEF IInv, Counted, TypeOK, BranchTypes, Jobs
    <3> QED
      BY <1>1, <2>3, <3>2 DEF Push, IInv, TypeOK, JobTypes, Triggered
  <2> QED
    BY <2>2, <2>3
<1>2. ASSUME NEW b \in Bindings, NEW id \in Ids, RecordByHand(b, id)
      PROVE  Same(j) /\ Overtaken(j)
  BY <1>2 DEF RecordByHand, TipMoves, Same, Overtaken
<1>3. ASSUME NEW b \in Bindings, RemoveByHand(b) PROVE Same(j) /\ Overtaken(j)
  BY <1>3 DEF RemoveByHand, TipMoves, Same, Overtaken
<1> QED
  BY <1>1, <1>2, <1>3 DEF Operator

(***************************************************************************)
(* What a deploy has still to do it has not done: until the call planned for *)
(* a binding is answered and recorded, the checkout holds what the overlay   *)
(* held; a rule is created only where the checkout holds no id, and deleted  *)
(* only under the id it holds.                                               *)
(***************************************************************************)
CallOf(j, b) ==
    /\ b \in todo[j] => plan[j][b].kind = "none"
    /\ b \in pending[j].at => b \notin todo[j] /\ plan[j][b].kind = "none"
    /\ b \in todo[j] \/ plan[j][b].kind # "none" \/ b \in pending[j].at =>
           work[j][b] = stateBase[j][b]
    /\ plan[j][b].kind = "create" => work[j][b] = NoId
    /\ plan[j][b].kind = "delete" => plan[j][b].id = work[j][b] /\ work[j][b] # NoId

CallInv(j) ==
    /\ phase[j] \notin Deploying => plan[j] = NoPlan /\ todo[j] = {}
    /\ phase[j] \notin {"recording", "forgetting"} => pending[j] = NoPending
    /\ phase[j] = "recording" =>
           pending[j].id \in Ids /\ \E b \in Bindings : pending[j].at = {b} /\ work[j][b] = NoId
    /\ phase[j] = "forgetting" => pending[j].id = NoId
    /\ \A b \in Bindings : CallOf(j, b)

LEMMA CallInit == ASSUME Init, NEW j \in AllJobs PROVE CallInv(j)
BY DEF Init, CallInv, CallOf, NoPlan, NoCall, NoPending, Deploying

LEMMA CallSame == ASSUME NEW j \in AllJobs, CallInv(j), Same(j) PROVE CallInv(j)'
BY DEF CallInv, CallOf, Same

\* A job with no call under way: everything was screened, answered and recorded.
NoCalls(j) == plan[j] = NoPlan /\ todo[j] = {} /\ pending[j] = NoPending

LEMMA CallIdle ==
    ASSUME NEW j \in AllJobs, NoCalls(j)', phase'[j] \notin {"recording", "forgetting"}
    PROVE  CallInv(j)'
BY DEF NoCalls, CallInv, CallOf, NoPlan, NoCall, NoPending, Deploying

LEMMA CallRunner ==
    ASSUME TypeOK, NEW j \in AllJobs, CallInv(j), Runner(j)
    PROVE  CallInv(j)'
<1>1. CASE (j \in Jobs /\ Start(j)) \/ (\E w \in Wants : StartStaging(j, w))
  <2>1. /\ phase'[j] = "deploying" /\ plan'[j] = NoPlan /\ pending'[j] = NoPending
        /\ work'[j] = stateBase'[j]
    BY <1>1
    DEF Start, StartStaging, BeginDeploy, TypeOK, JobTypes, RunnerTypes, CallInv, Deploying
  <2> QED
    BY <2>1 DEF CallInv, CallOf, NoPlan, NoCall, NoPending, Deploying
<1>2. CASE StartFails(j) \/ (j \in Jobs /\ Rerun(j)) \/ CancelWriteback(j)
  <2>1. NoCalls(j)
    BY <1>2 DEF StartFails, Rerun, CancelWriteback, CallInv, Deploying, NoCalls
  <2>2. NoCalls(j)' /\ phase'[j] \in {"done", "queued", "pushing"}
    BY <1>2, <2>1 DEF StartFails, Rerun, CancelWriteback, NoCalls, TypeOK, JobTypes
  <2> QED
    BY <2>2, CallIdle
<1>3. CASE Interrupt(j) \/ Kill(j)
  <2>1. NoCalls(j)' /\ phase'[j] \in {"done", "dead", "writeback"}
    BY <1>3
    DEF Interrupt, Kill, RunStops, AfterDeploy, NoCalls, TypeOK, JobTypes, DeployTypes
  <2> QED
    BY <2>1, CallIdle
<1> QED
  BY <1>1, <1>2, <1>3 DEF Runner

\* plan_external_id plans a create for no id, and a delete for the shard's.
LEMMA DecisionOf ==
    ASSUME NEW j \in AllJobs, NEW b \in Bindings, RunnerTypes
    PROVE  /\ Decision(j, b).kind = "create" => work[j][b] = NoId
           /\ Decision(j, b).kind = "delete" =>
                  Decision(j, b).id = work[j][b] /\ work[j][b] # NoId
           /\ Decision(j, b).kind # "none"
BY DEF Decision, PlanExternalId, Act, Refuse, RunnerTypes, ShardMaps, MaybeId

LEMMA CallScreen ==
    ASSUME TypeOK, NEW j \in AllJobs, CallInv(j), NEW t \in Tenants, ScreenTenant(j, t)
    PROVE  CallInv(j)'
<1>1. /\ phase[j] = "deploying" /\ phase' = phase /\ pending' = pending
      /\ UNCHANGED <<work, stateBase>>
      /\ todo'[j] = todo[j] \ (todo[j] \cap BindingsOf(t))
      /\ plan[j] = NoPlan
  BY DEF ScreenTenant, TypeOK, DeployTypes
<1>2. \A b \in Bindings : CallOf(j, b)'
  <2> SUFFICES ASSUME NEW b \in Bindings PROVE CallOf(j, b)'
    OBVIOUS
  <2>1. plan'[j][b] = IF b \in todo[j] \cap BindingsOf(t) /\ IsCall(Decision(j, b))
                      THEN Decision(j, b) ELSE NoCall
    BY DEF ScreenTenant, TypeOK, DeployTypes
  <2>2. CallOf(j, b) /\ pending[j] = NoPending
    BY <1>1 DEF CallInv
  <2>3. CASE b \in todo[j] \cap BindingsOf(t) /\ IsCall(Decision(j, b))
    BY <1>1, <2>1, <2>2, <2>3, DecisionOf DEF CallOf, TypeOK, NoPending
  <2>4. CASE ~(b \in todo[j] \cap BindingsOf(t) /\ IsCall(Decision(j, b)))
    BY <1>1, <2>1, <2>2, <2>4 DEF CallOf, NoCall, NoPending
  <2> QED
    BY <2>3, <2>4
<1> QED
  BY <1>1, <1>2 DEF CallInv, Deploying

LEMMA CallAnswers ==
    ASSUME TypeOK, NEW j \in AllJobs, CallInv(j), NEW b \in Bindings, VendorAnswers(j, b)
    PROVE  CallInv(j)'
<1>1. CASE CreateUnanswered(j, b) \/ DeleteUnanswered(j, b) \/ VendorRefuses(j, b)
  <2>1. NoCalls(j)' /\ phase'[j] \in {"done", "writeback"}
    BY <1>1
    DEF CreateUnanswered, DeleteUnanswered, VendorRefuses, RunStops, AfterDeploy, NoCalls,
        TypeOK, JobTypes, DeployTypes
  <2> QED
    BY <2>1, CallIdle
<1>2. CASE CreateAnswered(j, b) \/ UpdateAccepted(j, b) \/ DeleteAccepted(j, b)
  <2>1. /\ phase[j] = "deploying" /\ plan[j][b].kind \in Calls
        /\ UNCHANGED <<todo, work, stateBase>>
        /\ plan'[j] = [plan[j] EXCEPT ![b] = NoCall]
    BY <1>2
    DEF CreateAnswered, UpdateAccepted, DeleteAccepted, Due, CallMade, Calls, TypeOK, DeployTypes
  <2>2. \A c \in Bindings : plan'[j][c] = IF c = b THEN NoCall ELSE plan[j][c]
    BY <2>1 DEF TypeOK, DeployTypes, Plans
  <2>3. pending'[j].at \subseteq {b}
    BY <1>2, <2>1
    DEF CreateAnswered, UpdateAccepted, DeleteAccepted, TypeOK, DeployTypes, CallInv, NoPending
  <2>4. pending[j] = NoPending /\ CallOf(j, b)
    BY <2>1 DEF CallInv
  <2>5. b \notin todo[j] /\ work[j][b] = stateBase[j][b]
    BY <2>1, <2>4 DEF CallOf, Calls
  <2>6. \A c \in Bindings : CallOf(j, c)'
    <3> SUFFICES ASSUME NEW c \in Bindings PROVE CallOf(j, c)'
      OBVIOUS
    <3>1. CallOf(j, c)
      BY DEF CallInv
    <3> QED
      BY <2>1, <2>2, <2>3, <2>5, <3>1 DEF CallOf, NoCall
  <2>7. CASE CreateAnswered(j, b)
    <3>1. /\ phase'[j] = "recording" /\ pending'[j] = [at |-> {b}, id |-> nextId]
          /\ nextId \in Ids /\ plan[j][b].kind = "create"
      BY <2>7 DEF CreateAnswered, CallMade, Due, TypeOK, JobTypes, DeployTypes
    <3>2. pending'[j].id \in Ids /\ pending'[j].at = {b} /\ work'[j][b] = NoId
      BY <2>1, <2>4, <3>1 DEF CallOf
    <3> QED
      BY <2>6, <3>1, <3>2 DEF CallInv, Deploying
  <2>8. CASE UpdateAccepted(j, b)
    <3>1. phase'[j] = "deploying" /\ pending'[j] = NoPending
      BY <2>4, <2>8 DEF UpdateAccepted, CallMade, TypeOK, JobTypes
    <3> QED
      BY <2>6, <3>1 DEF CallInv, Deploying
  <2>9. CASE DeleteAccepted(j, b)
    <3>1. phase'[j] = "forgetting" /\ pending'[j].id = NoId
      BY <2>9 DEF DeleteAccepted, CallMade, TypeOK, JobTypes, DeployTypes
    <3> QED
      BY <2>6, <3>1 DEF CallInv, Deploying
  <2> QED
    BY <1>2, <2>7, <2>8, <2>9
<1> QED
  BY <1>1, <1>2 DEF VendorAnswers

\* The call of the job at hand was answered: its binding is settled.
LEMMA CallSettled ==
    ASSUME TypeOK, NEW j \in AllJobs, CallInv(j), phase[j] \in {"recording", "forgetting"},
           phase'[j] = "deploying", pending'[j] = NoPending, stateBase'[j] = stateBase[j],
           todo'[j] = todo[j], plan'[j] = plan[j],
           \A b \in Bindings : work'[j][b] = work[j][b] \/ b \in pending[j].at
    PROVE  CallInv(j)'
<1>1. \A b \in Bindings : CallOf(j, b)'
  <2> SUFFICES ASSUME NEW b \in Bindings PROVE CallOf(j, b)'
    OBVIOUS
  <2>1. CallOf(j, b)
    BY DEF CallInv
  <2> QED
    BY <2>1 DEF CallOf, NoPending
<1> QED
  BY <1>1 DEF CallInv, Deploying

LEMMA CallDeploy ==
    ASSUME TypeOK, NEW j \in AllJobs, CallInv(j), Deploy(j)
    PROVE  CallInv(j)'
<1>1. ASSUME NEW b \in Bindings, RecordCreated(j, b) \/ RecordDeleted(j, b) PROVE CallInv(j)'
  <2>1. /\ phase[j] \in {"recording", "forgetting"} /\ pending[j].at = {b}
        /\ phase'[j] = "deploying" /\ pending'[j] = NoPending
        /\ UNCHANGED <<stateBase, todo, plan>>
    BY <1>1 DEF RecordCreated, RecordDeleted, Settle, TypeOK, JobTypes, DeployTypes
  <2>2. \A c \in Bindings : c # b => work'[j][c] = work[j][c]
    BY <1>1 DEF RecordCreated, RecordDeleted, Bind, Unbind, TypeOK, RunnerTypes, ShardMaps
  <2> QED
    BY <2>1, <2>2, CallSettled
<1>2. CASE RecordFails(j) \/ ForgetFails(j)
  <2>1. /\ phase[j] \in {"recording", "forgetting"}
        /\ phase'[j] = "deploying" /\ pending'[j] = NoPending
        /\ UNCHANGED <<stateBase, todo, plan, work>>
    BY <1>2 DEF RecordFails, ForgetFails, Settle, TypeOK, JobTypes, DeployTypes
  <2> QED
    BY <2>1, CallSettled
<1>3. CASE DeployEnds(j)
  <2>1. NoCalls(j)' /\ phase'[j] \in {"done", "writeback"}
    BY <1>3 DEF DeployEnds, AfterDeploy, CallInv, NoCalls, TypeOK, JobTypes
  <2> QED
    BY <2>1, CallIdle
<1> QED
  BY <1>1, <1>2, <1>3, CallScreen, CallAnswers DEF Deploy

\* What a step of the write-back does to the phase of its job.
LEMMA WritebackPhases ==
    ASSUME TypeOK, NEW j \in AllJobs, Writeback(j)
    PROVE  /\ phase[j] \in WritingBack /\ phase'[j] \in {"pushing", "rebasing", "done"}
           /\ UNCHANGED <<todo, plan, pending>>
BY DEF Writeback, CommitWriteback, NothingToCommit, PushAccepted, FastForward,
       PushUnacknowledged, PushRejected, Retries, GivesUp, Rebase, RebaseOntoSame, ReplayState,
       NothingToReplay, RetryFails, ExitsUnpublished, Exits, TypeOK, JobTypes, WritingBack

LEMMA CallNext ==
    ASSUME IInv, NEW j \in AllJobs, CallInv(j), [Next]_vars
    PROVE  CallInv(j)'
<1>1. CASE Operator
  <2>1. CASE Triggered(j)
    BY <2>1, CallIdle DEF Triggered, CallInv, NoCalls, Deploying
  <2> QED
    BY <1>1, <2>1, OperatorSteps, CallSame
<1>2. ASSUME NEW i \in AllJobs, Runner(i) \/ Deploy(i) \/ Writeback(i) PROVE CallInv(j)'
  <2>1. CASE i = j /\ Writeback(j)
    <3>1. NoCalls(j)' /\ phase'[j] \in {"pushing", "rebasing", "done"}
      BY <2>1, WritebackPhases DEF IInv, CallInv, NoCalls, Deploying, WritingBack
    <3> QED
      BY <3>1, CallIdle
  <2>2. CASE i = j /\ ~Writeback(j)
    BY <1>2, <2>2, CallRunner, CallDeploy DEF IInv
  <2>3. CASE i # j
    BY <1>2, <2>3, RunnerLocal, DeployLocal, WritebackLocal, CallSame DEF IInv
  <2> QED
    BY <2>1, <2>2, <2>3
<1>3. CASE UNCHANGED vars
  BY <1>3, CallSame DEF vars, Same
<1> QED
  BY <1>1, <1>2, <1>3 DEF Next, Settled

-----------------------------------------------------------------------------
(***************************************************************************)
(* Where ids are. PublicMaps: shards that hold published ids only. OwnMaps:  *)
(* shards that hold published ids and, each at the binding job j recorded it *)
(* for, ids that are j's.                                                   *)
(***************************************************************************)
PublicMaps == {m \in ShardMaps : \A b \in Bindings : m[b] = NoId \/ fate[m[b]] = "published"}
OwnMaps(j) ==
    {m \in ShardMaps : \A b \in Bindings :
        \/ m[b] = NoId \/ fate[m[b]] = "published"
        \/ fate[m[b]] = "recorded" /\ work[j][b] = m[b]}

IsRecorded(id) == id # NoId /\ fate[id] = "recorded"

\* Branch and overlays hold published ids; a job's commits hold its own too, and
\* lose none of them while it pushes.
TipPublic == tip.parent \in PublicMaps /\ tip.tree \in PublicMaps
MapInv(j) ==
    /\ stateBase[j] \in PublicMaps
    /\ head[j].parent \in PublicMaps /\ stateCommit[j].parent \in PublicMaps
    /\ work[j] \in OwnMaps(j)
    /\ head[j].tree \in OwnMaps(j) /\ stateCommit[j].tree \in OwnMaps(j)
    /\ \A b \in Bindings : IsRecorded(work[j][b]) =>
           /\ Active(j)
           /\ Pushing(j) => head[j].tree[b] = work[j][b] /\ stateCommit[j].tree[b] = work[j][b]

\* A recorded id is in one checkout, at one binding.
SoleInv ==
    \A i, j \in AllJobs : \A b, c \in Bindings :
        work[i][b] = work[j][c] /\ IsRecorded(work[i][b]) => i = j /\ b = c
SomewhereInv ==
    \A id \in Ids : fate[id] = "recorded" => \E j \in Jobs, b \in Bindings : work[j][b] = id

\* A pending id waits for one job, and ids are given out in order.
PendingInv ==
    /\ \A j \in AllJobs : pending[j].id # NoId => fate[pending[j].id] = "pending"
    /\ \A i, j \in AllJobs : pending[i].id = pending[j].id /\ pending[i].id # NoId => i = j
FreeInv == \A id \in Ids : id >= nextId => fate[id] = "free"

IdInv ==
    /\ IInv
    /\ \A j \in Staging : ReviewInv(j)
    /\ \A j \in AllJobs : CallInv(j) /\ MapInv(j)
    /\ TipPublic /\ SoleInv /\ SomewhereInv /\ PendingInv /\ FreeInv

LEMMA IdInit == Init => IdInv
<1> SUFFICES ASSUME Init PROVE IdInv
  OBVIOUS
<1>1. NoShards \in PublicMaps /\ \A j \in AllJobs : NoShards \in OwnMaps(j)
  BY ShardTypes DEF PublicMaps, OwnMaps, NoShards
<1>2. \A j \in AllJobs : MapInv(j)
  BY <1>1, CommitFields DEF Init, MapInv, IsRecorded, NoShards
<1>3. TipPublic
  BY <1>1, CommitFields DEF Init, TipPublic
<1>4. SoleInv /\ SomewhereInv /\ PendingInv /\ FreeInv
  BY DEF Init, SoleInv, SomewhereInv, PendingInv, FreeInv, IsRecorded, NoShards, NoPending
<1> QED
  BY <1>2, <1>3, <1>4, InitIInv, ReviewInit, CallInit DEF IdInv, AllJobs

(***************************************************************************)
(* What any step of job i may do to fates: published ids stay published;    *)
(* recorded ones are published, or go with i's own checkout; i records only  *)
(* the id it waits for, and settles no other job's.                          *)
(***************************************************************************)
Lawful(i) ==
    \A id \in Ids :
        /\ fate[id] = "published" => fate'[id] = "published"
        /\ fate[id] = "recorded" =>
               fate'[id] \in {"recorded", "published"} \/ \E b \in Bindings : work[i][b] = id
        /\ fate'[id] = "recorded" => fate[id] = "recorded" \/ id = pending[i].id
        /\ fate[id] = "pending" => fate'[id] = "pending" \/ id = pending[i].id
        /\ id >= nextId' => fate'[id] = "free"

\* Its checkout only loses ids that are no longer recorded, and gains only the id
\* it waited for or published ones.

Checkout(i) ==
    \A b \in Bindings :
        /\ work'[i][b] # work[i][b] => work[i][b] = NoId \/ fate'[work[i][b]] # "recorded"
        /\ \/ work'[i][b] \in {work[i][b], NoId}
           \/ fate'[work'[i][b]] = "published"
           \/ work'[i][b] = pending[i].id /\ pending[i].at = {b}

\* The id it waits for now, if any, is pending: the same as before or the next.
Waits(i) ==
    pending'[i].id # NoId =>
        /\ fate'[pending'[i].id] = "pending"
        /\ pending'[i].id \in {pending[i].id, nextId}

\* An id it records is in its checkout.
Records(i) ==
    \A id \in Ids : fate'[id] = "recorded" /\ fate[id] # "recorded" =>
        i \in Jobs /\ \E b \in Bindings : work'[i][b] = id

OwnStep(i) == /\ Lawful(i) /\ Checkout(i) /\ Waits(i) /\ Records(i)
              /\ MapInv(i)' /\ TipPublic' /\ nextId' >= nextId

LEMMA MapsGrow ==
    ASSUME IInv, IInv', \A id \in Ids : fate[id] = "published" => fate'[id] = "published"
    PROVE  \A m \in PublicMaps : m \in PublicMaps'
BY DEF PublicMaps, ShardMaps, MaybeId

\* A job whose checkout and commits a step leaves alone.
LEMMA MapSteady ==
    ASSUME IInv, IInv', NEW j \in AllJobs, MapInv(j),
           UNCHANGED <<work[j], stateBase[j], head[j], stateCommit[j]>>,
           \A id \in Ids : fate[id] = "published" => fate'[id] = "published",
           \A b \in Bindings : IsRecorded(work[j][b]) /\ Active(j) =>
               fate'[work[j][b]] = "published" \/ (fate'[work[j][b]] = "recorded" /\ Active(j)'),
           \A b \in Bindings : work[j][b] # NoId /\ fate'[work[j][b]] = "recorded" =>
               fate[work[j][b]] = "recorded",
           Pushing(j)' => Pushing(j)
    PROVE  MapInv(j)'
<1>1. \A m \in PublicMaps : m \in PublicMaps'
  BY MapsGrow
<1>2. \A m \in OwnMaps(j) : m \in OwnMaps(j)'
  <2> SUFFICES ASSUME NEW m \in OwnMaps(j) PROVE m \in OwnMaps(j)'
    OBVIOUS
  <2>1. m \in ShardMaps
    BY DEF OwnMaps
  <2>2. ASSUME NEW b \in Bindings
        PROVE  \/ m[b] = NoId \/ fate'[m[b]] = "published"
               \/ fate'[m[b]] = "recorded" /\ work'[j][b] = m[b]
    <3>1. m[b] \in MaybeId
      BY <2>1 DEF ShardMaps
    <3>2. CASE m[b] # NoId /\ fate[m[b]] = "recorded" /\ work[j][b] = m[b]
      BY <3>2 DEF MapInv, IsRecorded
    <3>3. CASE m[b] # NoId /\ fate[m[b]] = "published"
      BY <3>1, <3>3 DEF MaybeId
    <3> QED
      BY <3>2, <3>3 DEF OwnMaps
  <2> QED
    BY <2>1, <2>2 DEF OwnMaps
<1>3. ASSUME NEW b \in Bindings, IsRecorded(work[j][b])'
      PROVE  (/\ Active(j)
              /\ Pushing(j) => head[j].tree[b] = work[j][b] /\ stateCommit[j].tree[b] = work[j][b])'
  <2>1. IsRecorded(work[j][b])
    BY <1>3 DEF IsRecorded
  <2>2. Active(j) /\ Active(j)'
    BY <1>3, <2>1 DEF MapInv, IsRecorded
  <2> QED
    BY <2>1, <2>2 DEF MapInv
<1> QED
  BY <1>1, <1>2, <1>3 DEF MapInv

\* The other jobs, when job i steps.
LEMMA MapOthers ==
    ASSUME IdInv, IInv', NEW i \in AllJobs, NEW j \in AllJobs, i # j, Same(j), Lawful(i)
    PROVE  MapInv(j)'
<1>1. UNCHANGED <<work[j], stateBase[j], head[j], stateCommit[j], phase[j]>>
  BY DEF Same
<1>2. \A b \in Bindings : work[j][b] \in MaybeId
  BY DEF IdInv, IInv, TypeOK, RunnerTypes, ShardMaps
<1>3. \A b \in Bindings : IsRecorded(work[j][b]) => fate'[work[j][b]] \in {"recorded", "published"}
  BY <1>2 DEF IdInv, SoleInv, IsRecorded, Lawful, MaybeId
<1>4. ASSUME NEW b \in Bindings, work[j][b] # NoId, fate'[work[j][b]] = "recorded"
      PROVE  fate[work[j][b]] = "recorded"
  <2>1. work[j][b] \in Ids /\ fate[work[j][b]] \in {"recorded", "published"}
    BY <1>2, <1>4 DEF IdInv, MapInv, OwnMaps, MaybeId
  <2> QED
    BY <1>4, <2>1 DEF Lawful
<1>5. \A id \in Ids : fate[id] = "published" => fate'[id] = "published"
  BY DEF Lawful
<1>6. MapInv(j)
  BY DEF IdInv
<1>7. /\ \A b \in Bindings : IsRecorded(work[j][b]) /\ Active(j) =>
             fate'[work[j][b]] = "published" \/ (fate'[work[j][b]] = "recorded" /\ Active(j)')
      /\ Pushing(j)' => Pushing(j)
  BY <1>1, <1>3 DEF Active, Pushing
<1> QED
  BY <1>1, <1>4, <1>5, <1>6, <1>7, MapSteady DEF IdInv

\* The parts about all jobs at once.
LEMMA GlobalStep ==
    ASSUME IdInv, IInv', NEW i \in AllJobs, OwnStep(i),
           \A j \in AllJobs : j # i => Same(j)
    PROVE  SoleInv' /\ SomewhereInv' /\ PendingInv' /\ FreeInv'
<1>1. \A j \in AllJobs : /\ \A b \in Bindings : work[j][b] \in MaybeId /\ work'[j][b] \in MaybeId
                         /\ pending[j].id \in MaybeId /\ pending'[j].id \in MaybeId
  BY DEF IdInv, IInv, TypeOK, RunnerTypes, ShardMaps, DeployTypes, Pendings
<1>2. nextId \in Nat /\ nextId' \in Nat /\ nextId' >= nextId
  BY DEF IdInv, IInv, TypeOK, VendorTypes, OwnStep
<1>3. \A j \in AllJobs, b \in Bindings :
          work[j][b] # NoId => fate[work[j][b]] \in {"published", "recorded"}
  BY DEF IdInv, MapInv, OwnMaps
<1>4. ASSUME NEW j \in AllJobs, NEW b \in Bindings, IsRecorded(work[j][b])'
      PROVE  \/ work'[j][b] = work[j][b] /\ IsRecorded(work[j][b])
             \/ /\ j = i /\ work'[j][b] = pending[i].id /\ pending[i].at = {b}
                /\ pending[i].id # NoId
  <2>1. work'[j][b] \in Ids /\ work'[j][b] # NoId
    BY <1>1, <1>4 DEF IsRecorded, MaybeId
  <2>2. CASE work'[j][b] = work[j][b]
    <3>1. fate[work[j][b]] # "published"
      BY <1>4, <2>1, <2>2 DEF OwnStep, Lawful, IsRecorded
    <3> QED
      BY <1>3, <2>1, <2>2, <3>1 DEF IsRecorded
  <2>3. CASE j = i /\ work'[j][b] # work[j][b]
    BY <1>4, <2>1, <2>3 DEF OwnStep, Checkout, IsRecorded
  <2> QED
    BY <2>2, <2>3 DEF Same
<1>5. SoleInv'
  <2> SUFFICES ASSUME NEW j \in AllJobs, NEW k \in AllJobs, NEW b \in Bindings,
                      NEW c \in Bindings, work'[j][b] = work'[k][c], IsRecorded(work[j][b])'
               PROVE  j = k /\ b = c
    BY DEF SoleInv
  <2>1. IsRecorded(work[k][c])'
    BY DEF IsRecorded
  <2>2. pending[i].id # NoId => fate[pending[i].id] = "pending"
    BY DEF IdInv, PendingInv
  <2>3. CASE work'[j][b] = work[j][b] /\ IsRecorded(work[j][b])
    <3>1. work'[k][c] # pending[i].id \/ pending[i].id = NoId
      BY <2>2, <2>3 DEF IsRecorded
    <3>2. work'[k][c] = work[k][c]
      BY <1>4, <2>1, <3>1
    <3>3. work[j][b] = work[k][c]
      BY <2>3, <3>2
    <3> QED
      BY <2>3, <3>3 DEF IdInv, SoleInv
  <2>4. CASE j = i /\ work'[j][b] = pending[i].id /\ pending[i].at = {b} /\ pending[i].id # NoId
    <3>1. ~(work'[k][c] = work[k][c] /\ IsRecorded(work[k][c]))
      BY <2>2, <2>4 DEF IsRecorded
    <3> QED
      BY <1>4, <2>1, <2>4, <3>1
  <2> QED
    BY <1>4, <2>3, <2>4
<1>6. SomewhereInv'
  <2> SUFFICES ASSUME NEW id \in Ids, fate'[id] = "recorded"
               PROVE  \E j \in Jobs, b \in Bindings : work'[j][b] = id
    BY DEF SomewhereInv
  <2>1. CASE fate[id] = "recorded"
    <3>1. PICK j \in Jobs, b \in Bindings : work[j][b] = id
      BY <2>1 DEF IdInv, SomewhereInv
    <3>2. work'[j][b] = work[j][b]
      BY <3>1 DEF OwnStep, Checkout, Same, AllJobs, Ids, NoId
    <3> QED
      BY <3>1, <3>2
  <2>2. CASE fate[id] # "recorded"
    BY <2>2 DEF OwnStep, Records
  <2> QED
    BY <2>1, <2>2
<1>7. PendingInv'
  <2>1. ASSUME NEW j \in AllJobs, j # i, pending'[j].id # NoId
        PROVE  /\ pending'[j].id = pending[j].id
               /\ fate[pending[j].id] = "pending" /\ fate'[pending'[j].id] = "pending"
               /\ pending[j].id # pending[i].id /\ pending[j].id # nextId
    <3>1. pending'[j].id = pending[j].id
      BY <2>1 DEF Same
    <3>2. fate[pending[j].id] = "pending" /\ pending[j].id # pending[i].id
      BY <2>1, <3>1 DEF IdInv, PendingInv
    <3>3. pending[j].id \in Ids
      BY <1>1, <2>1, <3>1 DEF MaybeId
    <3>4. pending[j].id # nextId
      BY <1>2, <3>2, <3>3 DEF IdInv, FreeInv
    <3> QED
      BY <3>1, <3>2, <3>3, <3>4 DEF OwnStep, Lawful
  <2>2. pending'[i].id # NoId =>
            fate'[pending'[i].id] = "pending" /\ pending'[i].id \in {pending[i].id, nextId}
    BY DEF OwnStep, Waits
  <2>3. \A j \in AllJobs : pending'[j].id # NoId => fate'[pending'[j].id] = "pending"
    BY <2>1, <2>2
  <2>4. \A j \in AllJobs, k \in AllJobs :
            pending'[j].id = pending'[k].id /\ pending'[j].id # NoId => j = k
    <3> SUFFICES ASSUME NEW j \in AllJobs, NEW k \in AllJobs,
                        pending'[j].id = pending'[k].id, pending'[j].id # NoId, j # k
                 PROVE  FALSE
      OBVIOUS
    <3>1. CASE j # i /\ k # i
      BY <2>1, <3>1 DEF IdInv, PendingInv
    <3>2. CASE j = i \/ k = i
      BY <2>1, <2>2, <3>2
    <3> QED
      BY <3>1, <3>2
  <2> QED
    BY <2>3, <2>4 DEF PendingInv
<1>8. FreeInv'
  BY DEF FreeInv, OwnStep, Lawful
<1> QED
  BY <1>5, <1>6, <1>7, <1>8

-----------------------------------------------------------------------------
\* A recorded id is with a running production job.
LEMMA RecordedRuns ==
    ASSUME IdInv, NEW i \in AllJobs, NEW b \in Bindings, IsRecorded(work[i][b])
    PROVE  Active(i) /\ i \in Jobs /\ stateBase[i][b] # work[i][b]
<1>1. stateBase[i][b] # work[i][b]
  BY DEF IdInv, MapInv, PublicMaps, IsRecorded
<1>2. i \notin Staging
  BY <1>1 DEF IdInv, ReviewInv
<1> QED
  BY <1>1, <1>2 DEF IdInv, MapInv, AllJobs

\* A step of job i that leaves its checkout, its commits and the branch alone.
LEMMA QuietStep ==
    ASSUME IdInv, IInv', NEW i \in AllJobs, Lawful(i), Waits(i), nextId' >= nextId, tip' = tip,
           UNCHANGED <<work[i], stateBase[i], head[i], stateCommit[i]>>,
           \A id \in Ids : fate'[id] = "recorded" <=> fate[id] = "recorded",
           i \in Jobs /\ Active(i) => Active(i)',
           Pushing(i)' => Pushing(i)
    PROVE  OwnStep(i)
<1>1. \A id \in Ids : fate[id] = "published" => fate'[id] = "published"
  BY DEF Lawful
<1>2. \A b \in Bindings : work[i][b] \in MaybeId
  BY DEF IdInv, IInv, TypeOK, RunnerTypes, ShardMaps
<1>3. \A b \in Bindings : work[i][b] # NoId =>
          (fate'[work[i][b]] = "recorded" <=> fate[work[i][b]] = "recorded")
  BY <1>2 DEF MaybeId
<1>4. \A b \in Bindings : IsRecorded(work[i][b]) /\ Active(i) =>
          fate'[work[i][b]] = "published" \/ (fate'[work[i][b]] = "recorded" /\ Active(i)')
  BY <1>3, RecordedRuns DEF IsRecorded
<1>5. MapInv(i)'
  <2>1. MapInv(i) /\ IInv
    BY DEF IdInv
  <2> QED
    BY <2>1, <1>1, <1>3, <1>4, MapSteady
<1>6. TipPublic'
  BY <1>1, MapsGrow DEF IdInv, TipPublic
<1> QED
  BY <1>5, <1>6 DEF OwnStep, Checkout, Records

\* The same, when no fate changes and no id is given out.
LEMMA StillStep ==
    ASSUME IdInv, IInv', NEW i \in AllJobs, fate' = fate, nextId' = nextId, tip' = tip,
           UNCHANGED <<work[i], stateBase[i], head[i], stateCommit[i]>>,
           pending'[i] = pending[i] \/ pending'[i].id = NoId,
           i \in Jobs /\ Active(i) => Active(i)',
           Pushing(i)' => Pushing(i)
    PROVE  OwnStep(i)
<1>1. Lawful(i)
  BY DEF Lawful, IdInv, FreeInv
<1>2. Waits(i)
  BY DEF Waits, IdInv, PendingInv
<1>3. nextId' >= nextId
  BY DEF IdInv, IInv, TypeOK, VendorTypes
<1> QED
  BY <1>1, <1>2, <1>3, QuietStep

LEMMA StillDeploy ==
    ASSUME IdInv, IInv', NEW i \in AllJobs,
           \/ \E t \in Tenants : ScreenTenant(i, t)
           \/ \E b \in Bindings : UpdateAccepted(i, b) \/ DeleteAccepted(i, b)
                                  \/ DeleteUnanswered(i, b) \/ VendorRefuses(i, b)
           \/ ForgetFails(i) \/ DeployEnds(i)
    PROVE  OwnStep(i)
<1>0. TypeOK /\ (i \in Jobs => i \notin Staging)
  BY ParametersAssumption DEF IdInv, IInv
<1>1. /\ UNCHANGED <<fate, nextId, tip, work, stateBase, head, stateCommit>>
      /\ pending'[i] = pending[i] \/ pending'[i].id = NoId
      /\ ~Pushing(i)'
  BY <1>0 DEF ScreenTenant, UpdateAccepted, DeleteAccepted, DeleteUnanswered, VendorRefuses,
     ForgetFails, DeployEnds, Due, CallMade, RunStops, AfterDeploy, Settle, Pushing, NoPending,
     TypeOK, JobTypes, DeployTypes
<1>2. i \in Jobs => Active(i)'
  BY <1>0 DEF ScreenTenant, UpdateAccepted, DeleteAccepted, DeleteUnanswered, VendorRefuses,
     ForgetFails, DeployEnds, Due, CallMade, RunStops, AfterDeploy, Settle, Active, Deploying,
     WritingBack, TypeOK, JobTypes
<1> QED
  BY <1>1, <1>2, StillStep

LEMMA StillOther ==
    ASSUME IdInv, IInv', NEW i \in AllJobs,
           \/ StartFails(i) \/ Rerun(i) \/ PushRejected(i) \/ RebaseOntoSame(i)
    PROVE  OwnStep(i)
<1>1. /\ UNCHANGED <<fate, nextId, tip, work, stateBase, head, stateCommit, pending>>
      /\ Active(i) => Active(i)'
      /\ Pushing(i)' => Pushing(i)
  BY DEF StartFails, Rerun, PushRejected, RebaseOntoSame, Retries, Pushing, Active, Deploying,
     WritingBack, IdInv, IInv, TypeOK, JobTypes
<1> QED
  BY <1>1, StillStep

\* The vendor makes a rule: the next id is given out.
LEMMA CreateStep ==
    ASSUME IdInv, IInv', NEW i \in AllJobs, NEW b \in Bindings,
           CreateAnswered(i, b) \/ CreateUnanswered(i, b)
    PROVE  OwnStep(i)
<1>0. TypeOK /\ (i \in Jobs => i \notin Staging)
  BY ParametersAssumption DEF IdInv, IInv
<1>1. /\ UNCHANGED <<tip, work, stateBase, head, stateCommit>>
      /\ nextId \in Ids /\ nextId' = nextId + 1
      /\ ~Pushing(i)'
      /\ i \in Jobs => Active(i)'
  BY <1>0 DEF CreateAnswered, CreateUnanswered, CallMade, RunStops, AfterDeploy, Pushing,
     Active, Deploying, WritingBack, TypeOK, JobTypes
<1>2. nextId' >= nextId
  BY <1>0, <1>1 DEF TypeOK, VendorTypes
<1>3. \/ fate' = [fate EXCEPT ![nextId] = "pending"]
                /\ pending' = [pending EXCEPT ![i] = [at |-> {b}, id |-> nextId]]
      \/ fate' = [fate EXCEPT ![nextId] = "unknown"]
                /\ pending' = [pending EXCEPT ![i] = NoPending]
  BY DEF CreateAnswered, CreateUnanswered, RunStops
<1>4. fate[nextId] = "free" /\ nextId \in Nat /\ fate \in [Ids -> Fates]
  BY <1>0, <1>1 DEF IdInv, FreeInv, TypeOK, VendorTypes, HistoryTypes
<1>5. \A id \in Ids : id # nextId => fate'[id] = fate[id]
  BY <1>3, <1>4
<1>6. fate'[nextId] \in {"pending", "unknown"}
  BY <1>1, <1>3, <1>4
<1>7. Lawful(i)
  <2> SUFFICES ASSUME NEW id \in Ids
               PROVE  /\ fate[id] = "published" => fate'[id] = "published"
                      /\ fate[id] = "recorded" => fate'[id] = "recorded"
                      /\ fate'[id] = "recorded" => fate[id] = "recorded"
                      /\ fate[id] = "pending" => fate'[id] = "pending"
                      /\ id >= nextId' => fate'[id] = "free"
    BY DEF Lawful
  <2>1. id >= nextId' => id # nextId /\ id >= nextId
    BY <1>1, <1>4 DEF Ids
  <2> QED
    BY <1>4, <1>5, <1>6, <2>1 DEF IdInv, FreeInv
<1>8. Waits(i)
  <2>1. (pending'[i].id = nextId /\ fate'[nextId] = "pending") \/ pending'[i].id = NoId
    BY <1>0, <1>1, <1>3, <1>4 DEF TypeOK, DeployTypes, NoPending
  <2> QED
    BY <2>1 DEF Waits
<1>9. \A id \in Ids : fate'[id] = "recorded" <=> fate[id] = "recorded"
  BY <1>4, <1>5, <1>6
<1> QED
  BY <1>1, <1>2, <1>7, <1>8, <1>9, QuietStep

\* The id it waited for is lost: to no shard, or to the run's end.
LEMMA LostStep ==
    ASSUME IdInv, IInv', NEW i \in AllJobs, RecordFails(i) \/ Interrupt(i)
    PROVE  OwnStep(i)
<1>0. TypeOK /\ (i \in Jobs => i \notin Staging)
  BY ParametersAssumption DEF IdInv, IInv
<1>1. /\ UNCHANGED <<tip, nextId, work, stateBase, head, stateCommit>>
      /\ pending'[i] = NoPending
      /\ ~Pushing(i)'
      /\ i \in Jobs => Active(i)'
  BY <1>0 DEF RecordFails, Interrupt, Settle, RunStops, AfterDeploy, Pushing,
     Active, Deploying, WritingBack, TypeOK, JobTypes, DeployTypes
<1>2. \A id \in Ids : fate'[id] = IF id = pending[i].id THEN "unknown" ELSE fate[id]
  BY <1>0 DEF RecordFails, Interrupt, PendingLost, TypeOK, HistoryTypes
<1>3. \A id \in Ids : id = pending[i].id => fate[id] = "pending" /\ id < nextId
  BY <1>0 DEF IdInv, PendingInv, FreeInv, Ids, NoId, TypeOK, VendorTypes
<1>4. Lawful(i)
  <2> SUFFICES ASSUME NEW id \in Ids
               PROVE  /\ fate[id] = "published" => fate'[id] = "published"
                      /\ fate[id] = "recorded" => fate'[id] = "recorded"
                      /\ fate'[id] = "recorded" => fate[id] = "recorded"
                      /\ fate[id] = "pending" => fate'[id] = "pending" \/ id = pending[i].id
                      /\ id >= nextId' => fate'[id] = "free"
    BY DEF Lawful
  <2>1. id >= nextId' => id # pending[i].id /\ fate[id] = "free"
    BY <1>0, <1>1, <1>3 DEF Ids, TypeOK, VendorTypes, IdInv, FreeInv
  <2> QED
    BY <1>2, <1>3, <2>1
<1>5. Waits(i)
  BY <1>1 DEF Waits, NoPending
<1>6. \A id \in Ids : fate'[id] = "recorded" <=> fate[id] = "recorded"
  BY <1>2, <1>3
<1>7. nextId' >= nextId
  BY <1>0, <1>1 DEF TypeOK, VendorTypes
<1> QED
  BY <1>1, <1>4, <1>5, <1>6, <1>7, QuietStep

\* A job that starts has the branch's shards, and nothing else.
LEMMA StartStep ==
    ASSUME IdInv, IInv', NEW i \in AllJobs,
           (i \in Jobs /\ Start(i)) \/ (\E w \in Wants : StartStaging(i, w))
    PROVE  OwnStep(i)
<1>0. TypeOK
  BY DEF IdInv, IInv
<1>1. /\ UNCHANGED <<tip, nextId, fate, head, stateCommit, pending>>
      /\ work'[i] = tip.tree /\ stateBase'[i] = tip.tree
      /\ phase[i] \in {"queued", "new"} /\ phase'[i] = "deploying"
  BY <1>0 DEF Start, StartStaging, BeginDeploy, Overlay, TypeOK, JobTypes, RunnerTypes
<1>2. tip.tree \in PublicMaps /\ tip.parent \in PublicMaps
  BY DEF IdInv, TipPublic
<1>3. \A b \in Bindings : work[i][b] = NoId \/ fate[work[i][b]] # "recorded"
  BY <1>1, RecordedRuns DEF Active, Deploying, WritingBack, IsRecorded
<1>4. Lawful(i) /\ Waits(i) /\ nextId' >= nextId
  BY <1>0, <1>1 DEF Lawful, Waits, IdInv, FreeInv, PendingInv, TypeOK, VendorTypes
<1>5. Checkout(i) /\ Records(i) /\ TipPublic'
  BY <1>1, <1>2, <1>3 DEF Checkout, Records, TipPublic, PublicMaps
<1>6. MapInv(i)'
  <2>1. OwnMaps(i) \subseteq OwnMaps(i)' /\ PublicMaps' = PublicMaps
    BY <1>1, <1>3 DEF OwnMaps, PublicMaps
  <2>2. tip.tree \in OwnMaps(i)'
    BY <1>1, <1>2 DEF OwnMaps, PublicMaps
  <2>3. \A b \in Bindings : ~IsRecorded(work[i][b])'
    BY <1>1, <1>2 DEF IsRecorded, PublicMaps
  <2>4. MapInv(i)
    BY DEF IdInv
  <2> QED
    BY <1>1, <1>2, <2>1, <2>2, <2>3, <2>4 DEF MapInv
<1> QED
  BY <1>4, <1>5, <1>6 DEF OwnStep

-----------------------------------------------------------------------------
\* record_created: the checkout holds the new id, where it held none.
LEMMA RecordStep ==
    ASSUME IdInv, IInv', NEW i \in AllJobs, NEW b \in Bindings, RecordCreated(i, b)
    PROVE  OwnStep(i)
<1>0. TypeOK /\ CallInv(i) /\ MapInv(i) /\ FreeInv
  BY DEF IdInv, IInv
<1> DEFINE id == pending[i].id
<1>1. /\ UNCHANGED <<tip, nextId, stateBase, head, stateCommit>>
      /\ phase[i] = "recording" /\ pending[i].at = {b} /\ phase'[i] = "deploying"
      /\ work'[i] = Bind(work[i], b, id) /\ pending'[i] = NoPending
  BY <1>0 DEF RecordCreated, Settle, TypeOK, JobTypes, DeployTypes, RunnerTypes
<1>2. id \in Ids /\ id # NoId /\ work[i][b] = NoId
  BY <1>0, <1>1 DEF CallInv, Ids, NoId
<1>3. fate[id] = "pending"
  BY <1>2 DEF IdInv, PendingInv
<1>4. \A x \in Ids : fate'[x] = IF x = id THEN "recorded" ELSE fate[x]
  BY <1>0 DEF RecordCreated, TypeOK, HistoryTypes
<1>5. \A c \in Bindings : work'[i][c] = IF c = b THEN id ELSE work[i][c]
  BY <1>0, <1>1 DEF Bind, TypeOK, RunnerTypes, ShardMaps
<1>6. nextId' >= nextId /\ Waits(i)
  BY <1>0, <1>1 DEF TypeOK, VendorTypes, Waits, NoPending
<1>7. Lawful(i)
  BY <1>0, <1>1, <1>2, <1>3, <1>4 DEF Lawful, FreeInv
<1>8. i \in Jobs
  BY <1>1 DEF IdInv, ReviewInv, AllJobs
<1>9. Checkout(i) /\ Records(i)
  BY <1>1, <1>2, <1>4, <1>5, <1>8 DEF Checkout, Records
<1>10. \A m \in PublicMaps : m \in PublicMaps'
  BY <1>0, <1>7, MapsGrow DEF Lawful, IdInv
<1>11. TipPublic'
  BY <1>1, <1>10 DEF IdInv, TipPublic
<1>12. \A m \in OwnMaps(i) : m \in OwnMaps(i)'
  <2> SUFFICES ASSUME NEW m \in OwnMaps(i) PROVE m \in OwnMaps(i)'
    OBVIOUS
  <2>1. m \in ShardMaps
    BY DEF OwnMaps
  <2>2. ASSUME NEW c \in Bindings
        PROVE  \/ m[c] = NoId \/ fate'[m[c]] = "published"
               \/ fate'[m[c]] = "recorded" /\ work'[i][c] = m[c]
    <3>1. m[c] \in MaybeId
      BY <2>1 DEF ShardMaps
    <3>2. m[c] # NoId => m[c] \in Ids /\ m[c] # id
      BY <1>3, <3>1 DEF OwnMaps, MaybeId
    <3> QED
      BY <1>2, <1>4, <1>5, <3>2 DEF OwnMaps
  <2> QED
    BY <2>1, <2>2 DEF OwnMaps
<1>13. work'[i] \in OwnMaps(i)'
  <2>1. work'[i] \in ShardMaps
    BY DEF IInv, TypeOK, RunnerTypes
  <2>2. ASSUME NEW c \in Bindings, c # b
        PROVE  work'[i][c] = NoId \/ fate'[work'[i][c]] \in {"published", "recorded"}
    <3>1. work[i] \in OwnMaps(i) /\ work[i] \in OwnMaps(i)' /\ work'[i][c] = work[i][c]
      BY <1>0, <1>5, <1>12, <2>2 DEF MapInv
    <3> QED
      BY <3>1 DEF OwnMaps
  <2>3. fate'[work'[i][b]] = "recorded"
    BY <1>2, <1>4, <1>5
  <2> QED
    BY <2>1, <2>2, <2>3 DEF OwnMaps
<1>14. MapInv(i)'
  <2>1. Active(i)' /\ ~Pushing(i)'
    BY <1>1 DEF Active, Pushing, Deploying
  <2> QED
    BY <1>0, <1>1, <1>10, <1>12, <1>13, <2>1 DEF MapInv
<1> QED
  BY <1>6, <1>7, <1>9, <1>11, <1>14 DEF OwnStep

\* record_deleted: the id it forgets was published.
LEMMA ForgetStep ==
    ASSUME IdInv, IInv', NEW i \in AllJobs, NEW b \in Bindings, RecordDeleted(i, b)
    PROVE  OwnStep(i)
<1>0. TypeOK /\ CallInv(i) /\ MapInv(i) /\ FreeInv
  BY DEF IdInv, IInv
<1>1. /\ UNCHANGED <<tip, nextId, stateBase, head, stateCommit, fate>>
      /\ phase[i] = "forgetting" /\ pending[i].at = {b} /\ phase'[i] = "deploying"
      /\ work'[i] = Unbind(work[i], b) /\ pending'[i] = NoPending
  BY <1>0 DEF RecordDeleted, Settle, TypeOK, JobTypes, DeployTypes, RunnerTypes
<1>2. work[i][b] = stateBase[i][b]
  BY <1>0, <1>1 DEF CallInv, CallOf
<1>3. work[i][b] = NoId \/ fate[work[i][b]] = "published"
  BY <1>0, <1>2 DEF MapInv, PublicMaps
<1>5. \A c \in Bindings : work'[i][c] = IF c = b THEN NoId ELSE work[i][c]
  BY <1>0, <1>1 DEF Unbind, TypeOK, RunnerTypes, ShardMaps
<1>6. nextId' >= nextId /\ Waits(i) /\ Lawful(i) /\ Records(i)
  BY <1>0, <1>1 DEF TypeOK, VendorTypes, Waits, NoPending, Lawful, FreeInv, Records
<1>7. Checkout(i)
  BY <1>1, <1>3, <1>5 DEF Checkout
<1>8. PublicMaps' = PublicMaps
  BY <1>1 DEF PublicMaps
<1>9. TipPublic'
  BY <1>1, <1>8 DEF IdInv, TipPublic
<1>10. \A m \in OwnMaps(i) : m \in OwnMaps(i)'
  BY <1>1, <1>3, <1>5 DEF OwnMaps
<1>11. work'[i] \in OwnMaps(i)'
  <2>1. work'[i] \in ShardMaps
    BY DEF IInv, TypeOK, RunnerTypes
  <2>2. work[i] \in OwnMaps(i)
    BY <1>0 DEF MapInv
  <2> QED
    BY <1>1, <1>5, <2>1, <2>2 DEF OwnMaps
<1>12. MapInv(i)'
  <2>1. Active(i)' /\ ~Pushing(i)'
    BY <1>1 DEF Active, Pushing, Deploying
  <2> QED
    BY <1>0, <1>1, <1>8, <1>10, <1>11, <2>1 DEF MapInv
<1> QED
  BY <1>6, <1>7, <1>9, <1>12 DEF OwnStep

(***************************************************************************)
(* A runner that goes takes no recorded id with it: it published or printed  *)
(* the ones it held, or they are stranded.                                  *)
(***************************************************************************)
LEMMA GoneStep ==
    ASSUME IdInv, IInv', NEW i \in AllJobs, RunnerGone(i), Lawful(i), Waits(i), TipPublic',
           nextId' = nextId,
           \A b \in Bindings : work[i][b] # NoId => fate'[work[i][b]] # "recorded",
           \A id \in Ids : fate'[id] = "recorded" => fate[id] = "recorded"
    PROVE  OwnStep(i)
<1>0. TypeOK
  BY DEF IdInv, IInv
<1>1. /\ work'[i] = NoShards /\ stateBase'[i] = NoShards
      /\ head'[i] = Commit(NoShards, NoShards) /\ stateCommit'[i] = Commit(NoShards, NoShards)
  BY <1>0 DEF RunnerGone, TypeOK, RunnerTypes
<1>2. NoShards \in PublicMaps' /\ NoShards \in OwnMaps(i)'
  BY ShardTypes DEF PublicMaps, OwnMaps, NoShards
<1>3. \A b \in Bindings : ~IsRecorded(work[i][b])'
  BY <1>1 DEF IsRecorded, NoShards
<1>4. MapInv(i)'
  BY <1>1, <1>2, <1>3, CommitFields DEF MapInv
<1>5. Checkout(i) /\ Records(i)
  BY <1>1 DEF Checkout, Records, NoShards
<1>6. nextId' >= nextId
  BY <1>0 DEF TypeOK, VendorTypes
<1> QED
  BY <1>4, <1>5, <1>6 DEF OwnStep

\* Killed, or unable to publish: its own recorded ids are printed or stranded.
LEMMA UnpublishedStep ==
    ASSUME IdInv, IInv', NEW i \in AllJobs, Kill(i) \/ GivesUp(i) \/ RetryFails(i)
    PROVE  OwnStep(i)
<1>0. TypeOK /\ CallInv(i) /\ MapInv(i) /\ FreeInv
  BY DEF IdInv, IInv
<1>1. /\ UNCHANGED <<tip, nextId>> /\ RunnerGone(i)
      /\ pending'[i] \in {NoPending, pending[i]}
      /\ pending'[i] = pending[i] => pending[i] = NoPending
  BY <1>0 DEF Kill, GivesUp, RetryFails, ExitsUnpublished, Exits, TypeOK, DeployTypes, CallInv
<1>2. PICK f \in {"stranded", "printed"} : \A id \in Ids :
          \/ id \in FreshIds(i) /\ fate[id] = "recorded" /\ fate'[id] = f
          \/ id = pending[i].id /\ fate'[id] = "unknown"
          \/ fate'[id] = fate[id] /\ ~(id \in FreshIds(i) /\ fate[id] = "recorded")
  BY <1>0 DEF Kill, GivesUp, RetryFails, ExitsUnpublished, FreshBecome, PendingLost
<1>3. \A id \in Ids : id = pending[i].id => fate[id] = "pending" /\ id # NoId
  BY <1>0 DEF IdInv, PendingInv, Ids, NoId
<1>4. \A id \in FreshIds(i) : \E b \in Bindings : work[i][b] = id
  BY DEF FreshIds
<1>5. Lawful(i)
  <2> SUFFICES ASSUME NEW id \in Ids
               PROVE  /\ fate[id] = "published" => fate'[id] = "published"
                      /\ fate[id] = "recorded" =>
                            fate'[id] = "recorded" \/ \E b \in Bindings : work[i][b] = id
                      /\ fate'[id] = "recorded" => fate[id] = "recorded"
                      /\ fate[id] = "pending" => fate'[id] = "pending" \/ id = pending[i].id
                      /\ id >= nextId' => fate'[id] = "free"
    BY DEF Lawful
  <2>1. id >= nextId' => fate[id] = "free"
    BY <1>0, <1>1 DEF FreeInv
  <2> QED
    BY <1>2, <1>3, <1>4, <2>1
<1>6. Waits(i)
  BY <1>1 DEF Waits, NoPending
<1>7. \A m \in PublicMaps : m \in PublicMaps'
  BY <1>0, <1>5, MapsGrow DEF Lawful, IdInv
<1>8. TipPublic'
  BY <1>1, <1>7 DEF IdInv, TipPublic
<1>9. ASSUME NEW b \in Bindings, work[i][b] # NoId PROVE fate'[work[i][b]] # "recorded"
  <2>1. work[i][b] \in Ids
    BY <1>0, <1>9 DEF TypeOK, RunnerTypes, ShardMaps, MaybeId
  <2>2. fate[work[i][b]] = "recorded" => work[i][b] \in FreshIds(i)
    BY <1>9, <2>1, RecordedRuns DEF IsRecorded, FreshIds
  <2> QED
    BY <1>2, <1>3, <2>1, <2>2
<1>10. \A id \in Ids : fate'[id] = "recorded" => fate[id] = "recorded"
  BY <1>2, <1>3
<1> QED
  BY <1>1, <1>5, <1>6, <1>8, <1>9, <1>10, GoneStep

\* The bindings a replay carries over.
LEMMA ReplayAt ==
    ASSUME NEW base, NEW ours, NEW shards, NEW b \in Bindings
    PROVE  Replay(base, ours, shards)[b] = IF base[b] # ours[b] THEN ours[b] ELSE shards[b]
BY DEF Replay, Delta

\* Nothing to commit or to replay: the job holds no id the branch does not.
LEMMA EmptyStep ==
    ASSUME IdInv, IInv', NEW i \in AllJobs,
           (\E valid \in BOOLEAN : NothingToCommit(i, valid)) \/ NothingToReplay(i)
    PROVE  OwnStep(i)
<1>0. TypeOK /\ CallInv(i) /\ MapInv(i) /\ FreeInv
  BY DEF IdInv, IInv
<1>1. UNCHANGED <<tip, nextId, fate, pending>> /\ RunnerGone(i)
  BY DEF NothingToCommit, NothingToReplay, Exits
<1>2. \A b \in Bindings : ~IsRecorded(work[i][b])
  <2> SUFFICES ASSUME NEW b \in Bindings, IsRecorded(work[i][b]) PROVE FALSE
    OBVIOUS
  <2>1. CASE work[i] = stateBase[i]
    BY <2>1, RecordedRuns
  <2>2. CASE NothingToReplay(i)
    <3>1. phase[i] = "rebasing" /\ Replayed(i) = tip.tree
      BY <2>2 DEF NothingToReplay
    <3>2. stateCommit[i].tree[b] = work[i][b]
      BY <1>0, <3>1 DEF MapInv, Pushing
    <3>3. stateCommit[i].parent[b] # stateCommit[i].tree[b]
      BY <1>0, <3>2 DEF MapInv, PublicMaps, IsRecorded
    <3>4. tip.tree[b] = work[i][b]
      BY <3>1, <3>2, <3>3, ReplayAt DEF Replayed
    <3> QED
      BY <3>4 DEF IdInv, TipPublic, PublicMaps, IsRecorded
  <2> QED
    BY <2>1, <2>2 DEF NothingToCommit
<1>3. Lawful(i) /\ Waits(i) /\ TipPublic'
  BY <1>0, <1>1
  DEF Lawful, Waits, FreeInv, IdInv, PendingInv, TipPublic, PublicMaps
<1> QED
  BY <1>1, <1>2, <1>3, GoneStep DEF IsRecorded

-----------------------------------------------------------------------------
\* New commits of job i, over published shards, with all the ids it recorded.
LEMMA CommitsStep ==
    ASSUME IdInv, IInv', NEW i \in AllJobs,
           UNCHANGED <<fate, nextId, tip, pending, work, stateBase>>,
           head'[i].parent \in PublicMaps, stateCommit'[i].parent \in PublicMaps,
           head'[i].tree \in OwnMaps(i), stateCommit'[i].tree \in OwnMaps(i),
           Active(i)',
           \A b \in Bindings : IsRecorded(work[i][b]) =>
               head'[i].tree[b] = work[i][b] /\ stateCommit'[i].tree[b] = work[i][b]
    PROVE  OwnStep(i)
<1>1. PublicMaps' = PublicMaps /\ OwnMaps(i)' = OwnMaps(i)
  BY DEF PublicMaps, OwnMaps
<1>2. MapInv(i)'
  BY <1>1 DEF MapInv, IdInv, IsRecorded
<1>3. Lawful(i) /\ Waits(i) /\ TipPublic' /\ Checkout(i) /\ Records(i)
  BY <1>1 DEF Lawful, Waits, IdInv, FreeInv, PendingInv, TipPublic, Checkout, Records
<1>4. nextId' >= nextId
  BY DEF IdInv, IInv, TypeOK, VendorTypes
<1> QED
  BY <1>2, <1>3, <1>4 DEF OwnStep

LEMMA CommitStep ==
    ASSUME IdInv, IInv', NEW i \in AllJobs,
           NEW edits \in BOOLEAN, NEW valid \in BOOLEAN, CommitWriteback(i, edits, valid)
    PROVE  OwnStep(i)
<1>1. /\ UNCHANGED <<fate, nextId, tip, pending, work, stateBase>> /\ phase'[i] = "pushing"
      /\ head'[i] = Commit(stateBase[i], work[i]) /\ stateCommit'[i] = Commit(stateBase[i], work[i])
  BY DEF CommitWriteback, IdInv, IInv, TypeOK, JobTypes, RunnerTypes
<1>2. Active(i)' /\ stateBase[i] \in PublicMaps /\ work[i] \in OwnMaps(i)
  BY <1>1 DEF IdInv, MapInv, Active, WritingBack
<1> QED
  BY <1>1, <1>2, CommitFields, CommitsStep

\* A binding of a replayed commit is the commit's or the tip's.
LEMMA ReplayOwned ==
    ASSUME IdInv, NEW i \in AllJobs, NEW base \in PublicMaps, NEW ours \in OwnMaps(i)
    PROVE  /\ Replay(base, ours, tip.tree) \in OwnMaps(i)
           /\ \A b \in Bindings : IsRecorded(ours[b]) => Replay(base, ours, tip.tree)[b] = ours[b]
<1>1. tip.tree \in PublicMaps /\ base \in ShardMaps /\ ours \in ShardMaps
  BY DEF IdInv, TipPublic, PublicMaps, OwnMaps
<1>2. Replay(base, ours, tip.tree) \in ShardMaps
  BY <1>1, ReplayType DEF PublicMaps
<1>3. Replay(base, ours, tip.tree) \in OwnMaps(i)
  BY <1>1, <1>2, ReplayAt DEF OwnMaps, PublicMaps
<1>4. \A b \in Bindings : IsRecorded(ours[b]) => base[b] # ours[b]
  BY DEF PublicMaps, IsRecorded
<1> QED
  BY <1>3, <1>4, ReplayAt

LEMMA RebaseStep ==
    ASSUME IdInv, IInv', NEW i \in AllJobs, Rebase(i)
    PROVE  OwnStep(i)
<1>1. /\ UNCHANGED <<fate, nextId, tip, pending, work, stateBase, stateCommit>>
      /\ phase[i] = "rebasing" /\ phase'[i] = "pushing"
      /\ \/ head'[i] = tip /\ Rebased(i) = tip.tree
         \/ head'[i] = Commit(tip.tree, Rebased(i))
  BY DEF Rebase, Dropped, IdInv, IInv, TypeOK, JobTypes, RunnerTypes
<1>2. MapInv(i) /\ Pushing(i) /\ Active(i)' /\ TipPublic
  BY <1>1 DEF IdInv, Pushing, Active, WritingBack
<1>3. /\ Rebased(i) \in OwnMaps(i)
      /\ \A b \in Bindings : IsRecorded(head[i].tree[b]) => Rebased(i)[b] = head[i].tree[b]
  BY <1>2, ReplayOwned DEF Rebased, MapInv
<1>4. head'[i].parent \in PublicMaps /\ head'[i].tree = Rebased(i)
  BY <1>1, <1>2, CommitFields DEF TipPublic
<1>5. \A b \in Bindings : IsRecorded(work[i][b]) =>
          head'[i].tree[b] = work[i][b] /\ stateCommit'[i].tree[b] = work[i][b]
  BY <1>1, <1>2, <1>3, <1>4 DEF MapInv
<1> QED
  BY <1>1, <1>2, <1>3, <1>4, <1>5, CommitsStep DEF MapInv

LEMMA ReplayStep ==
    ASSUME IdInv, IInv', NEW i \in AllJobs, ReplayState(i)
    PROVE  OwnStep(i)
<1>1. /\ UNCHANGED <<fate, nextId, tip, pending, work, stateBase>>
      /\ phase[i] = "rebasing" /\ phase'[i] = "pushing"
      /\ head'[i] = Commit(tip.tree, Replayed(i)) /\ stateCommit'[i] = Commit(tip.tree, Replayed(i))
  BY DEF ReplayState, IdInv, IInv, TypeOK, JobTypes, RunnerTypes
<1>2. MapInv(i) /\ Pushing(i) /\ Active(i)' /\ TipPublic
  BY <1>1 DEF IdInv, Pushing, Active, WritingBack
<1>3. /\ Replayed(i) \in OwnMaps(i)
      /\ \A b \in Bindings :
             IsRecorded(stateCommit[i].tree[b]) => Replayed(i)[b] = stateCommit[i].tree[b]
  BY <1>2, ReplayOwned DEF Replayed, MapInv
<1>5. \A b \in Bindings : IsRecorded(work[i][b]) => Replayed(i)[b] = work[i][b]
  BY <1>2, <1>3 DEF MapInv
<1> QED
  BY <1>1, <1>2, <1>3, <1>5, CommitFields, CommitsStep DEF TipPublic

LEMMA CancelStep ==
    ASSUME IdInv, IInv', NEW i \in AllJobs, CancelWriteback(i)
    PROVE  OwnStep(i)
<1>1. /\ UNCHANGED <<fate, nextId, tip, pending, work, stateBase>>
      /\ phase[i] \in {"pushing", "rebasing"} /\ phase'[i] = "pushing"
      /\ head'[i] = Commit(stateBase[i], head[i].tree)
      /\ stateCommit'[i] = Commit(stateBase[i], head[i].tree)
  BY DEF CancelWriteback, IdInv, IInv, TypeOK, JobTypes, RunnerTypes
<1>2. MapInv(i) /\ Pushing(i) /\ Active(i)'
  BY <1>1 DEF IdInv, Pushing, Active, WritingBack
<1>3. \A b \in Bindings : IsRecorded(work[i][b]) => head[i].tree[b] = work[i][b]
  BY <1>2 DEF MapInv
<1> QED
  BY <1>1, <1>2, <1>3, CommitFields, CommitsStep DEF MapInv

(***************************************************************************)
(* A push that the server takes: HEAD, which holds published ids and ids the *)
(* job recorded, is the tip, and all of them are published.                  *)
(***************************************************************************)
LEMMA PublishStep ==
    ASSUME IdInv, IInv', NEW i \in AllJobs, phase[i] = "pushing", TipIsHead(i),
           fate' = OnTip(head[i].tree), nextId' = nextId, pending' = pending
    PROVE  /\ Lawful(i) /\ Waits(i) /\ TipPublic' /\ Records(i)
           /\ \A b \in Bindings : work[i][b] # NoId => fate'[work[i][b]] = "published"
<1>0. TypeOK /\ MapInv(i) /\ FreeInv /\ Pushing(i)
  BY DEF IdInv, IInv, Pushing
<1>1. \A id \in Ids :
          fate'[id] = IF fate[id] = "recorded" /\ \E b \in Bindings : head[i].tree[b] = id
                      THEN "published" ELSE fate[id]
  BY DEF OnTip
<1>2. Lawful(i) /\ Waits(i) /\ Records(i)
  <2>1. Lawful(i) /\ Records(i)
    BY <1>0, <1>1 DEF Lawful, Records, FreeInv
  <2>2. pending[i].id # NoId => pending[i].id \in Ids /\ fate[pending[i].id] = "pending"
    BY <1>0 DEF IdInv, PendingInv, TypeOK, DeployTypes, Pendings, MaybeId
  <2> QED
    BY <1>1, <2>1, <2>2 DEF Waits
<1>3. \A m \in PublicMaps : m \in PublicMaps'
  BY <1>2, MapsGrow DEF Lawful, IdInv
<1>4. head[i].tree \in PublicMaps'
  <2>1. head[i].tree \in ShardMaps /\ head[i].tree \in OwnMaps(i)
    BY <1>0 DEF MapInv, OwnMaps
  <2>2. ASSUME NEW b \in Bindings, head[i].tree[b] # NoId
        PROVE  fate'[head[i].tree[b]] = "published"
    <3>1. head[i].tree[b] \in Ids
      BY <2>1, <2>2 DEF ShardMaps, MaybeId
    <3> QED
      BY <1>1, <2>1, <2>2, <3>1 DEF OwnMaps
  <2> QED
    BY <2>1, <2>2 DEF PublicMaps
<1>5. TipPublic'
  <2>1. tip' = tip \/ tip' = head[i]
    BY DEF TipIsHead
  <2> QED
    BY <1>0, <1>3, <1>4, <2>1 DEF TipPublic, IdInv, MapInv
<1>6. ASSUME NEW b \in Bindings, work[i][b] # NoId PROVE fate'[work[i][b]] = "published"
  <2>1. work[i][b] \in Ids /\ fate[work[i][b]] \in {"published", "recorded"}
    BY <1>0, <1>6 DEF TypeOK, RunnerTypes, ShardMaps, MaybeId, MapInv, OwnMaps
  <2>2. fate[work[i][b]] = "recorded" => head[i].tree[b] = work[i][b]
    BY <1>0, <1>6 DEF MapInv, IsRecorded
  <2> QED
    BY <1>1, <2>1, <2>2
<1> QED
  BY <1>2, <1>5, <1>6

LEMMA AcceptedStep ==
    ASSUME IdInv, IInv', NEW i \in AllJobs, PushAccepted(i)
    PROVE  OwnStep(i)
<1>1. /\ phase[i] = "pushing" /\ TipIsHead(i) /\ fate' = OnTip(head[i].tree)
      /\ nextId' = nextId /\ pending' = pending /\ RunnerGone(i)
  BY DEF PushAccepted, FastForward, Exits
<1>2. /\ Lawful(i) /\ Waits(i) /\ TipPublic' /\ Records(i)
      /\ \A b \in Bindings : work[i][b] # NoId => fate'[work[i][b]] = "published"
  BY <1>1, PublishStep
<1>3. \A id \in Ids : fate'[id] = "recorded" => fate[id] = "recorded"
  BY <1>1 DEF OnTip
<1> QED
  BY <1>1, <1>2, <1>3, GoneStep

LEMMA UnacknowledgedStep ==
    ASSUME IdInv, IInv', NEW i \in AllJobs, PushUnacknowledged(i)
    PROVE  OwnStep(i)
<1>1. /\ phase[i] = "pushing" /\ TipIsHead(i) /\ fate' = OnTip(head[i].tree)
      /\ UNCHANGED <<nextId, pending, work, stateBase, head, stateCommit>>
  BY DEF PushUnacknowledged, FastForward
<1>2. /\ Lawful(i) /\ Waits(i) /\ TipPublic' /\ Records(i)
      /\ \A b \in Bindings : work[i][b] # NoId => fate'[work[i][b]] = "published"
  BY <1>1, PublishStep
<1>3. \A id \in Ids : fate[id] = "published" => fate'[id] = "published"
  BY <1>2 DEF Lawful
<1>4. MapInv(i)'
  <2>1. MapInv(i) /\ IInv /\ Pushing(i)
    BY <1>1 DEF IdInv, Pushing
  <2>2. ASSUME NEW b \in Bindings, IsRecorded(work[i][b])
        PROVE  fate'[work[i][b]] = "published"
    BY <1>2, <2>2 DEF IsRecorded
  <2>3. \A b \in Bindings : work[i][b] # NoId /\ fate'[work[i][b]] = "recorded" =>
            fate[work[i][b]] = "recorded"
    BY <1>2
  <2>4. \A b \in Bindings : IsRecorded(work[i][b]) /\ Active(i) =>
            fate'[work[i][b]] = "published" \/ (fate'[work[i][b]] = "recorded" /\ Active(i)')
    BY <2>2 DEF IsRecorded, Active
  <2>5. UNCHANGED <<work[i], stateBase[i], head[i], stateCommit[i]>>
    BY <1>1
  <2> QED
    BY <1>3, <2>1, <2>3, <2>4, <2>5, MapSteady
<1>5. Checkout(i) /\ nextId' >= nextId
  BY <1>1 DEF Checkout, IdInv, IInv, TypeOK, VendorTypes
<1> QED
  BY <1>2, <1>4, <1>5 DEF OwnStep

-----------------------------------------------------------------------------
LEMMA StepOfJob ==
    ASSUME IdInv, IInv', NEW i \in AllJobs, Runner(i) \/ Deploy(i) \/ Writeback(i)
    PROVE  OwnStep(i)
<1>1. CASE Runner(i)
  BY <1>1, StartStep, StillOther, LostStep, CancelStep, UnpublishedStep DEF Runner
<1>2. CASE Deploy(i)
  BY <1>2, StillDeploy, CreateStep, RecordStep, ForgetStep, LostStep DEF Deploy, VendorAnswers
<1>3. CASE Writeback(i)
  BY <1>3, CommitStep, EmptyStep, AcceptedStep, UnacknowledgedStep, StillOther, UnpublishedStep,
     RebaseStep, ReplayStep DEF Writeback
<1> QED
  BY <1>1, <1>2, <1>3

\* A merge or a hand edit gives the branch published ids only.
LEMMA OperatorFates ==
    ASSUME IdInv, Operator
    PROVE  /\ UNCHANGED <<nextId, pending, work, stateBase, head, stateCommit>>
           /\ \A id \in Ids : fate'[id] # fate[id] =>
                  /\ fate'[id] = "published"
                  /\ fate[id] \in {"unknown", "printed", "stranded"}
           /\ tip'.parent = tip.tree
           /\ \A b \in Bindings :
                  \/ tip'.tree[b] \in {tip.tree[b], NoId}
                  \/ tip'.tree[b] \in Ids /\ fate'[tip'.tree[b]] = "published"
<1>1. tip.tree \in ShardMaps
  BY DEF IdInv, TipPublic, PublicMaps
<1>2. ASSUME NEW w \in Wants, Push(w)
      PROVE  UNCHANGED <<nextId, pending, work, stateBase, head, stateCommit, fate>>
             /\ tip' = Commit(tip.tree, tip.tree)
  BY <1>2 DEF Push, TipMoves
<1>3. ASSUME NEW b \in Bindings, NEW id \in Ids, RecordByHand(b, id)
      PROVE  /\ UNCHANGED <<nextId, pending, work, stateBase, head, stateCommit>>
             /\ \A x \in Ids : fate'[x] = IF x = id THEN "published" ELSE fate[x]
             /\ fate[id] \in {"unknown", "printed", "stranded"}
             /\ tip'.parent = tip.tree
             /\ \A c \in Bindings : tip'.tree[c] = IF c = b THEN id ELSE tip.tree[c]
  BY <1>1, <1>3, CommitFields
  DEF RecordByHand, TipMoves, Bind, ShardMaps, IdInv, IInv, TypeOK, HistoryTypes
<1>4. ASSUME NEW b \in Bindings, RemoveByHand(b)
      PROVE  /\ UNCHANGED <<nextId, pending, work, stateBase, head, stateCommit, fate>>
             /\ tip'.parent = tip.tree
             /\ \A c \in Bindings : tip'.tree[c] = IF c = b THEN NoId ELSE tip.tree[c]
  BY <1>1, <1>4, CommitFields DEF RemoveByHand, TipMoves, Unbind, ShardMaps
<1> QED
  BY <1>2, <1>3, <1>4, CommitFields DEF Operator

LEMMA IdOperator ==
    ASSUME IdInv, IInv', Operator
    PROVE  /\ \A j \in AllJobs : MapInv(j)'
           /\ TipPublic' /\ SoleInv' /\ SomewhereInv' /\ PendingInv' /\ FreeInv'
<1>0. TypeOK /\ tip.tree \in PublicMaps
  BY DEF IdInv, IInv, TipPublic
<1>1. UNCHANGED <<nextId, pending, work, stateBase, head, stateCommit>>
  BY OperatorFates
<1>2. \A id \in Ids : fate'[id] # fate[id] =>
          fate'[id] = "published" /\ fate[id] \in {"unknown", "printed", "stranded"}
  BY OperatorFates
<1>3. \A id \in Ids : /\ fate'[id] = "recorded" <=> fate[id] = "recorded"
                      /\ fate'[id] = "pending" <=> fate[id] = "pending"
                      /\ fate'[id] = "free" <=> fate[id] = "free"
                      /\ fate[id] = "published" => fate'[id] = "published"
  BY <1>2
<1>4. ASSUME NEW j \in AllJobs PROVE MapInv(j)'
  <2>1. \A b \in Bindings : work[j][b] # NoId => work[j][b] \in Ids
    BY <1>0 DEF TypeOK, RunnerTypes, ShardMaps, MaybeId
  <2>2. (Active(j) => Active(j)') /\ (Pushing(j)' => Pushing(j))
    BY OperatorSteps DEF Same, Triggered, Active, Pushing, Deploying, WritingBack, IdInv
  <2>3. \A b \in Bindings : work[j][b] # NoId =>
            (fate'[work[j][b]] = "recorded" <=> fate[work[j][b]] = "recorded")
    BY <1>3, <2>1
  <2>4. MapInv(j) /\ IInv
    BY DEF IdInv
  <2>5. \A b \in Bindings : IsRecorded(work[j][b]) /\ Active(j) =>
            fate'[work[j][b]] = "published" \/ (fate'[work[j][b]] = "recorded" /\ Active(j)')
    BY <2>2, <2>3 DEF IsRecorded
  <2> QED
    BY <1>1, <1>3, <2>2, <2>3, <2>4, <2>5, MapSteady
<1>5. TipPublic'
  <2>1. \A m \in PublicMaps : m \in PublicMaps'
    BY <1>3, MapsGrow DEF IdInv
  <2>2. tip'.tree \in ShardMaps
    BY DEF IInv, TypeOK, BranchTypes, Commits
  <2>3. ASSUME NEW b \in Bindings
        PROVE  tip'.tree[b] = NoId \/ fate'[tip'.tree[b]] = "published"
    <3>1. CASE tip'.tree[b] = tip.tree[b]
      BY <1>0, <2>1, <3>1 DEF PublicMaps
    <3> QED
      BY <3>1, OperatorFates
  <2> QED
    BY <1>0, <2>1, <2>2, <2>3, OperatorFates DEF TipPublic, PublicMaps
<1>6. SoleInv'
  <2>1. \A j \in AllJobs, b \in Bindings : IsRecorded(work[j][b])' => IsRecorded(work[j][b])
    BY <1>0, <1>1, <1>3 DEF IsRecorded, TypeOK, RunnerTypes, ShardMaps, MaybeId
  <2> QED
    BY <1>1, <2>1 DEF IdInv, SoleInv
<1>7. SomewhereInv' /\ FreeInv'
  BY <1>1, <1>3 DEF IdInv, SomewhereInv, FreeInv
<1>8. PendingInv'
  BY <1>0, <1>1, <1>3 DEF IdInv, PendingInv, TypeOK, DeployTypes, Pendings, MaybeId
<1> QED
  BY <1>4, <1>5, <1>6, <1>7, <1>8

LEMMA IdNext == ASSUME IdInv, [Next]_vars PROVE IdInv'
<1>1. IInv' /\ (\A j \in Staging : ReviewInv(j)') /\ (\A j \in AllJobs : CallInv(j)')
  BY NextIInv, ReviewNext, CallNext DEF IdInv, IInv
<1>2. CASE Operator
  BY <1>1, <1>2, IdOperator DEF IdInv
<1>3. ASSUME NEW i \in AllJobs, Runner(i) \/ Deploy(i) \/ Writeback(i) PROVE IdInv'
  <2>1. OwnStep(i)
    BY <1>1, <1>3, StepOfJob
  <2>2. \A j \in AllJobs : j # i => Same(j)
    BY <1>3, RunnerLocal, DeployLocal, WritebackLocal DEF IdInv, IInv
  <2>3. SoleInv' /\ SomewhereInv' /\ PendingInv' /\ FreeInv'
    BY <1>1, <2>1, <2>2, GlobalStep
  <2>4. \A j \in AllJobs : MapInv(j)'
    BY <1>1, <2>1, <2>2, MapOthers DEF OwnStep
  <2> QED
    BY <1>1, <2>1, <2>3, <2>4 DEF IdInv, OwnStep
<1>4. CASE UNCHANGED vars
  BY <1>1, <1>4
  DEF vars, IdInv, MapInv, PublicMaps, OwnMaps, IsRecorded, Active, Pushing, TipPublic, SoleInv,
      SomewhereInv, PendingInv, FreeInv
<1> QED
  BY <1>2, <1>3, <1>4 DEF Next, Settled

(***************************************************************************)
(* For every number of jobs, whatever the queue, the re-runs, lost answers,  *)
(* rebases, replays, cancelled write-backs and hand edits: an id a job       *)
(* recorded is in a running job's checkout, and in the state commit from the *)
(* moment there is one, until it is published, printed or dies with its      *)
(* runner.                                                                  *)
(***************************************************************************)
THEOREM RecordedIdsHeld == Spec => []RecordedIdIsHeld
<1>1. IdInv => RecordedIdIsHeld
  <2> SUFFICES ASSUME IdInv, NEW id \in Ids, fate[id] = "recorded"
               PROVE  \E j \in Jobs, b \in Bindings :
                          /\ Active(j) /\ work[j][b] = id
                          /\ Pushing(j) => stateCommit[j].tree[b] = id
    BY DEF RecordedIdIsHeld
  <2>1. PICK j \in Jobs, b \in Bindings : work[j][b] = id
    BY DEF IdInv, SomewhereInv
  <2>2. IsRecorded(work[j][b]) /\ j \in AllJobs
    BY <2>1 DEF IsRecorded, Ids, NoId, AllJobs
  <2> QED
    BY <2>1, <2>2 DEF IdInv, MapInv
<1> QED
  BY IdInit, IdNext, <1>1, PTL DEF Spec
=============================================================================
