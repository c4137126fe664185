-------------------------- MODULE ProductionDeploy --------------------------
(***************************************************************************)
(* The production and staging CI jobs of an opentide catalogue, the vendor  *)
(* tenants they deploy to, and the default branch they share.               *)
(*                                                                         *)
(* A merge pushes a change and triggers one production job. The job lays    *)
(* the default branch's newest deployment state over its checkout, deploys  *)
(* the rules its own push changed, recording in the working tree every id a *)
(* vendor returns, and writes the working tree's shards back: commit, push, *)
(* and on rejection fetch, rebase or replay, and push again. A staging job  *)
(* runs the same deployers on a change request and commits nothing.         *)
(***************************************************************************)
EXTENDS StateReplay, ExternalIds, FiniteSets

CONSTANTS
    MaxPushes,          \* bound: merges, each with its production job
    Staging,            \* change-request jobs
    LegacyRules,        \* rules whose YAML still carries a vendor id
    Statuses,           \* the status strategies a change may give a rule
    PushAttempts,       \* PUSH_ATTEMPTS
    MaxRuns,            \* bound: times one job is run (1: never re-run)
    HandEdits,          \* bound: shards edited by an operator's merge
    LostAcks,           \* bound: pushes that land although the client saw a failure
    Queued,             \* TRUE: a resource group or exclusive lock (GitLab, Azure)
    OldestFirst,        \* TRUE: the queue runs jobs in push order
    CancelInWriteback   \* TRUE: a cancelled write-back is started over (GitLab)

Jobs == 1 .. MaxPushes
AllJobs == Jobs \cup Staging

ASSUME ParametersAssumption ==
    /\ MaxPushes \in Nat /\ MaxRuns \in Nat \ {0} /\ PushAttempts \in Nat \ {0}
    /\ HandEdits \in Nat /\ LostAcks \in Nat
    /\ Queued \in BOOLEAN /\ OldestFirst \in BOOLEAN /\ CancelInWriteback \in BOOLEAN
    /\ LegacyRules \subseteq Rules /\ Statuses \subseteq Strategies
    /\ Staging \cap Jobs = {}

VARIABLES
    \* the default branch
    tip,        \* its last commit: the shards of its parent and its own
    pushed,     \* merges so far; merge j is what triggered job j
    moved,      \* moved[j]: the tip is another commit than the one that triggered j
    handEdits,
    acksLost,
    \* the vendors
    remote,     \* remote[b]: ids of the live remote rules made for binding b
    nextId,
    \* one CI job
    want,       \* want[j][r]: the status j's change gives rule r
    phase,
    runs,
    failed,     \* the job's exit status will not be 0
    work,       \* shards in the job's working tree
    stateBase,  \* shards of the overlay commit the write-back sits on
    todo,       \* bindings not screened yet
    plan,       \* what screen_tenant decided for the tenant at hand
    pending,    \* the call whose effect is not recorded yet
    head,       \* HEAD of the write-back: the shards of its parent and its own
    stateCommit,\* $state_commit, likewise
    carries,    \* what HEAD adds to the branch on behalf of its run
    behind,     \* the tip moved since HEAD was placed on it
    attempt,
    cancelled,  \* the write-back is the after_script's
    \* history, for the properties
    fate,       \* what became of each id
    conflicts   \* deployment_state_conflict reports: binding, kept, dropped

branchVars == <<tip, pushed, moved, handEdits, acksLost>>
vendorVars == <<remote, nextId>>
deployVars == <<todo, plan, pending>>
commitVars == <<head, stateCommit, carries, attempt, cancelled>>
runnerVars == <<work, stateBase, commitVars>>
vars == <<branchVars, vendorVars, deployVars, runnerVars, behind, want, phase, runs,
          failed, fate, conflicts>>

-----------------------------------------------------------------------------
Unchanged == "UNCHANGED"
Wants == [Rules -> Statuses \cup {Unchanged}]
Nothing == [r \in Rules |-> Unchanged]

\* What a deployer passes to plan_external_id about the run.
RunOf(j) ==
    IF j \in Staging
    THEN [env |-> "change_request", strategies |-> {"PREVIEW"}, persists |-> FALSE]
    ELSE [env |-> "push", strategies |-> {"RELEASE"}, persists |-> FALSE]

\* PromoteMDR, in a production job only: every status but these becomes the
\* promotion target, which maps to RELEASE.
NonPromotable == {"RELEASE", "DELETION", "DISABLEMENT"}
Promoted(status) == IF status \in NonPromotable THEN status ELSE "RELEASE"

\* The status rule r of the change w has when job j plans it.
StatusIn(j, w, r) ==
    IF j \in Staging \/ w[r] = Unchanged THEN w[r] ELSE Promoted(w[r])

\* The bindings job j deploys for the change w.
Targets(j, w) ==
    {b \in Bindings : w[b[1]] # Unchanged /\ Accepts(StatusIn(j, w, b[1]), RunOf(j))}

Deploying == {"deploying", "recording", "forgetting"}
WritingBack == {"writeback", "pushing", "rebasing"}
Phases == {"new", "queued", "done", "dead"} \cup Deploying \cup WritingBack

NoCall == [kind |-> "none", id |-> NoId]
NoPlan == [b \in Bindings |-> NoCall]
Plans == [Bindings -> [kind : Calls \cup {"none"}, id : MaybeId]]

NoPending == [at |-> {}, id |-> NoId]
Pendings == [at : SUBSET Bindings, id : MaybeId]

Commits == [parent : ShardMaps, tree : ShardMaps]
Commit(parent, tree) == [parent |-> parent, tree |-> tree]

\* HEAD holds the run's shards, or its promoted rule files too. Once git has
\* dropped a commit that the fetched tip made empty, HEAD is that tip and carries
\* nothing; rebased again, it is the tip's last commit, somebody else's.
Cargo == {"nothing", "shards", "shards and rules", "another's"}

(***************************************************************************)
(* Fates of an id: free (not given out), pending (returned, not recorded),  *)
(* unknown (made, but no shard holds it: the answer was lost, the run was   *)
(* stopped or the shard could not be written), recorded (in a running job's *)
(* shards), printed (its run could not publish it: diff and side ref),      *)
(* stranded (its runner died with it), published (reached the tip).         *)
(***************************************************************************)
Fates == {"free", "pending", "unknown", "recorded", "printed", "stranded", "published"}

BranchTypes ==
    /\ tip \in Commits
    /\ pushed \in 0 .. MaxPushes
    /\ moved \in [AllJobs -> BOOLEAN]
    /\ handEdits \in 0 .. HandEdits
    /\ acksLost \in 0 .. LostAcks

VendorTypes ==
    /\ remote \in [Bindings -> SUBSET Ids]
    /\ nextId \in 1 .. (MaxIds + 1)

JobTypes ==
    /\ want \in [AllJobs -> Wants]
    /\ phase \in [AllJobs -> Phases]
    /\ runs \in [AllJobs -> 0 .. MaxRuns]
    /\ failed \in [AllJobs -> BOOLEAN]
    /\ behind \in [AllJobs -> BOOLEAN]

DeployTypes ==
    /\ todo \in [AllJobs -> SUBSET Bindings]
    /\ plan \in [AllJobs -> Plans]
    /\ pending \in [AllJobs -> Pendings]

RunnerTypes ==
    /\ work \in [AllJobs -> ShardMaps]
    /\ stateBase \in [AllJobs -> ShardMaps]
    /\ head \in [AllJobs -> Commits]
    /\ stateCommit \in [AllJobs -> Commits]
    /\ carries \in [AllJobs -> Cargo]
    /\ attempt \in [AllJobs -> 0 .. PushAttempts]
    /\ cancelled \in [AllJobs -> BOOLEAN]

HistoryTypes ==
    /\ fate \in [Ids -> Fates]
    /\ conflicts \subseteq (Bindings \X MaybeId \X MaybeId)

\* Type correctness.
TypeOK ==
    BranchTypes /\ VendorTypes /\ JobTypes /\ DeployTypes /\ RunnerTypes /\ HistoryTypes

Init ==
    /\ tip = Commit(NoShards, NoShards)
    /\ pushed = 0
    /\ moved = [j \in AllJobs |-> FALSE]
    /\ handEdits = 0
    /\ acksLost = 0
    /\ remote = [b \in Bindings |-> {}]
    /\ nextId = 1
    /\ want = [j \in AllJobs |-> Nothing]
    /\ phase = [j \in AllJobs |-> "new"]
    /\ runs = [j \in AllJobs |-> 0]
    /\ failed = [j \in AllJobs |-> FALSE]
    /\ work = [j \in AllJobs |-> NoShards]
    /\ stateBase = [j \in AllJobs |-> NoShards]
    /\ todo = [j \in AllJobs |-> {}]
    /\ plan = [j \in AllJobs |-> NoPlan]
    /\ pending = [j \in AllJobs |-> NoPending]
    /\ head = [j \in AllJobs |-> Commit(NoShards, NoShards)]
    /\ stateCommit = [j \in AllJobs |-> Commit(NoShards, NoShards)]
    /\ carries = [j \in AllJobs |-> "nothing"]
    /\ cancelled = [j \in AllJobs |-> FALSE]
    /\ behind = [j \in AllJobs |-> FALSE]
    /\ attempt = [j \in AllJobs |-> 0]
    /\ fate = [id \in Ids |-> "free"]
    /\ conflicts = {}

-----------------------------------------------------------------------------
Active(j) == phase[j] \in Deploying \cup WritingBack
Pushing(j) == phase[j] \in {"pushing", "rebasing"}

(***************************************************************************)
(* The default branch moves: its tip is the commit that triggered the given *)
(* jobs, and no other job's; every HEAD falls behind it.                    *)
(***************************************************************************)
TipMoves(tree, onTip) ==
    /\ tip' = Commit(tip.tree, tree)
    /\ moved' = [j \in AllJobs |-> j \notin onTip]
    /\ behind' = [j \in AllJobs |-> Pushing(j)]

\* A merge to the default branch: w is what it asks of the rules it changes.
Push(w) ==
    LET j == pushed + 1 IN
    /\ pushed < MaxPushes
    /\ w # Nothing
    /\ pushed' = j
    /\ want' = [want EXCEPT ![j] = w]
    /\ phase' = [phase EXCEPT ![j] = "queued"]
    /\ TipMoves(tip.tree, {j})
    /\ UNCHANGED <<handEdits, acksLost, vendorVars, deployVars, commitVars, runs,
                   failed, work, stateBase, fate, conflicts>>

(***************************************************************************)
(* An operator merges a shard edit: records an id that never reached the    *)
(* tip, as the failure messages ask, or removes a remote rule by hand       *)
(* together with its binding. Neither changes a rule, so neither starts a   *)
(* deploy that matters here.                                                *)
(***************************************************************************)
RecordByHand(b, id) ==
    /\ handEdits < HandEdits
    /\ tip.tree[b] = NoId
    /\ id \in remote[b]
    /\ fate[id] \in {"unknown", "printed", "stranded"}
    /\ fate' = [fate EXCEPT ![id] = "published"]
    /\ handEdits' = handEdits + 1
    /\ TipMoves(Bind(tip.tree, b, id), {})
    /\ UNCHANGED <<pushed, acksLost, vendorVars, deployVars, commitVars, want, phase, runs,
                   failed, work, stateBase, conflicts>>

RemoveByHand(b) ==
    /\ handEdits < HandEdits
    /\ tip.tree[b] # NoId
    /\ remote' = [remote EXCEPT ![b] = @ \ {tip.tree[b]}]
    /\ handEdits' = handEdits + 1
    /\ TipMoves(Unbind(tip.tree, b), {})
    /\ UNCHANGED <<pushed, acksLost, nextId, deployVars, commitVars, want, phase, runs,
                   failed, work, stateBase, fate, conflicts>>

-----------------------------------------------------------------------------
\* overlay_default_branch_state: the checkout's shards are those of the tip.
\* Broken: those of the tip the checkout was made from.
StaleOverlay == tip.parent
Overlay == tip.tree

\* A checkout for job j deploys the change w.
BeginDeploy(j, w) ==
    /\ work' = [work EXCEPT ![j] = Overlay]
    /\ stateBase' = [stateBase EXCEPT ![j] = Overlay]
    /\ todo' = [todo EXCEPT ![j] = Targets(j, w)]
    /\ failed' = [failed EXCEPT ![j] = FALSE]
    /\ runs' = [runs EXCEPT ![j] = @ + 1]
    /\ phase' = [phase EXCEPT ![j] = "deploying"]
    /\ UNCHANGED <<branchVars, vendorVars, plan, pending, commitVars, behind, fate, conflicts>>

\* The provider's queue. Broken: it forgets the order.
AnyTurn(j) == Queued => \A i \in Jobs : ~Active(i)
Turn(j) ==
    /\ Queued => \A i \in Jobs : ~Active(i)
    /\ OldestFirst => \A i \in Jobs : i < j => phase[i] # "queued"

\* A production job starts, on the diff of its own push.
Start(j) ==
    /\ phase[j] = "queued"
    /\ Turn(j)
    /\ BeginDeploy(j, want[j])
    /\ UNCHANGED want

\* Cancelled in the queue, or the fetch or the dry run fails: nothing is deployed.
StartFails(j) ==
    /\ phase[j] = "queued"
    /\ phase' = [phase EXCEPT ![j] = "done"]
    /\ failed' = [failed EXCEPT ![j] = TRUE]
    /\ runs' = [runs EXCEPT ![j] = @ + 1]
    /\ UNCHANGED <<branchVars, vendorVars, deployVars, commitVars, behind, want, work,
                   stateBase, fate, conflicts>>

\* Someone re-runs a finished or dead job: same commit, same diff.
Rerun(j) ==
    /\ j \in Jobs
    /\ phase[j] \in {"done", "dead"}
    /\ runs[j] < MaxRuns
    /\ phase' = [phase EXCEPT ![j] = "queued"]
    /\ UNCHANGED <<branchVars, vendorVars, deployVars, commitVars, behind, want, runs,
                   failed, work, stateBase, fate, conflicts>>

\* A change request's job: a fresh checkout.
StartStaging(j, w) ==
    /\ j \in Staging
    /\ phase[j] = "new"
    /\ w # Nothing
    /\ want' = [want EXCEPT ![j] = w]
    /\ BeginDeploy(j, w)

-----------------------------------------------------------------------------
\* The deploy is over: a staging job ends, a production job writes back.
AfterDeploy(j) == IF j \in Staging THEN "done" ELSE "writeback"

\* A vendor error propagates out of the deployer: nothing after it is attempted.
RunStops(j) ==
    /\ phase' = [phase EXCEPT ![j] = AfterDeploy(j)]
    /\ failed' = [failed EXCEPT ![j] = TRUE]
    /\ todo' = [todo EXCEPT ![j] = {}]
    /\ plan' = [plan EXCEPT ![j] = NoPlan]
    /\ pending' = [pending EXCEPT ![j] = NoPending]

(***************************************************************************)
(* screen_tenant: every rule of one tenant is planned before its client     *)
(* exists. Rules refused or skipped make no call; a refusal fails the run.  *)
(***************************************************************************)
Decision(j, b) ==
    PlanExternalId(b[1] \in LegacyRules, work[j][b], StatusIn(j, want[j], b[1]), FALSE, RunOf(j))

ScreenTenant(j, t) ==
    LET due == todo[j] \cap BindingsOf(t) IN
    /\ phase[j] = "deploying"
    /\ plan[j] = NoPlan
    /\ due # {}
    /\ plan' = [plan EXCEPT ![j] =
            [b \in Bindings |-> IF b \in due /\ IsCall(Decision(j, b))
                               THEN Decision(j, b) ELSE NoCall]]
    /\ todo' = [todo EXCEPT ![j] = @ \ due]
    /\ failed' = [failed EXCEPT ![j] = @ \/ \E b \in due : FailsRun(Decision(j, b))]
    /\ UNCHANGED <<branchVars, vendorVars, pending, commitVars, behind, want, phase, runs,
                   work, stateBase, fate, conflicts>>

Due(j, b, kind) == phase[j] = "deploying" /\ plan[j][b].kind = kind

\* The planned call of b was made; what comes back is recorded in phase p.
CallMade(j, b, p) ==
    /\ plan' = [plan EXCEPT ![j][b] = NoCall]
    /\ phase' = [phase EXCEPT ![j] = p]

\* service.create_detection_rule answers with the new rule's id.
CreateAnswered(j, b) ==
    /\ Due(j, b, "create")
    /\ nextId \in Ids
    /\ remote' = [remote EXCEPT ![b] = @ \cup {nextId}]
    /\ nextId' = nextId + 1
    /\ fate' = [fate EXCEPT ![nextId] = "pending"]
    /\ pending' = [pending EXCEPT ![j] = [at |-> {b}, id |-> nextId]]
    /\ CallMade(j, b, "recording")
    /\ UNCHANGED <<branchVars, commitVars, behind, want, runs, failed, work, stateBase,
                   todo, conflicts>>

\* The vendor made the rule, but the answer was lost or carries no id.
CreateUnanswered(j, b) ==
    /\ Due(j, b, "create")
    /\ nextId \in Ids
    /\ remote' = [remote EXCEPT ![b] = @ \cup {nextId}]
    /\ nextId' = nextId + 1
    /\ fate' = [fate EXCEPT ![nextId] = "unknown"]
    /\ RunStops(j)
    /\ UNCHANGED <<branchVars, commitVars, behind, want, runs, work, stateBase, conflicts>>

\* An update, which a disablement is too, leaves the id and the shard alone.
UpdateAccepted(j, b) ==
    /\ Due(j, b, "update")
    /\ plan[j][b].id \in remote[b]
    /\ CallMade(j, b, "deploying")
    /\ UNCHANGED <<branchVars, vendorVars, pending, commitVars, behind, want, runs, failed,
                   work, stateBase, todo, fate, conflicts>>

DeleteAccepted(j, b) ==
    /\ Due(j, b, "delete")
    /\ plan[j][b].id \in remote[b]
    /\ remote' = [remote EXCEPT ![b] = @ \ {plan[j][b].id}]
    /\ pending' = [pending EXCEPT ![j] = [at |-> {b}, id |-> NoId]]
    /\ CallMade(j, b, "forgetting")
    /\ UNCHANGED <<branchVars, nextId, commitVars, behind, want, runs, failed, work,
                   stateBase, todo, fate, conflicts>>

\* The vendor deleted the rule, but the answer was lost.
DeleteUnanswered(j, b) ==
    /\ Due(j, b, "delete")
    /\ plan[j][b].id \in remote[b]
    /\ remote' = [remote EXCEPT ![b] = @ \ {plan[j][b].id}]
    /\ RunStops(j)
    /\ UNCHANGED <<branchVars, nextId, commitVars, behind, want, runs, work, stateBase,
                   fate, conflicts>>

\* The vendor refuses the call, as it does for an id it no longer has.
VendorRefuses(j, b) ==
    /\ \E kind \in Calls : Due(j, b, kind)
    /\ RunStops(j)
    /\ UNCHANGED <<branchVars, vendorVars, commitVars, behind, want, runs, work, stateBase,
                   fate, conflicts>>

-----------------------------------------------------------------------------
Settle(j) ==
    /\ pending' = [pending EXCEPT ![j] = NoPending]
    /\ phase' = [phase EXCEPT ![j] = "deploying"]

\* record_created, and its failure: the message names the id, nothing is rolled back.
RecordCreated(j, b) ==
    /\ phase[j] = "recording"
    /\ pending[j].at = {b}
    /\ work' = [work EXCEPT ![j] = Bind(@, b, pending[j].id)]
    /\ fate' = [fate EXCEPT ![pending[j].id] = "recorded"]
    /\ Settle(j)
    /\ UNCHANGED <<branchVars, vendorVars, commitVars, behind, want, runs, failed, stateBase,
                   todo, plan, conflicts>>

RecordFails(j) ==
    /\ phase[j] = "recording"
    /\ fate' = [fate EXCEPT ![pending[j].id] = "unknown"]
    /\ failed' = [failed EXCEPT ![j] = TRUE]
    /\ Settle(j)
    /\ UNCHANGED <<branchVars, vendorVars, commitVars, behind, want, runs, work, stateBase,
                   todo, plan, conflicts>>

\* record_deleted, and its failure: the binding of a deleted rule stays.
RecordDeleted(j, b) ==
    /\ phase[j] = "forgetting"
    /\ pending[j].at = {b}
    /\ work' = [work EXCEPT ![j] = Unbind(@, b)]
    /\ Settle(j)
    /\ UNCHANGED <<branchVars, vendorVars, commitVars, behind, want, runs, failed, stateBase,
                   todo, plan, fate, conflicts>>

ForgetFails(j) ==
    /\ phase[j] = "forgetting"
    /\ failed' = [failed EXCEPT ![j] = TRUE]
    /\ Settle(j)
    /\ UNCHANGED <<branchVars, vendorVars, commitVars, behind, want, runs, work, stateBase,
                   todo, plan, fate, conflicts>>

\* Every rule was screened and sent.
DeployEnds(j) ==
    /\ phase[j] = "deploying"
    /\ todo[j] = {} /\ plan[j] = NoPlan
    /\ phase' = [phase EXCEPT ![j] = AfterDeploy(j)]
    /\ UNCHANGED <<branchVars, vendorVars, deployVars, commitVars, behind, want, runs, failed,
                   work, stateBase, fate, conflicts>>

\* The id a vendor returned and no shard holds is lost when the run stops.
PendingLost(j) ==
    [id \in Ids |-> IF id = pending[j].id THEN "unknown" ELSE fate[id]]

\* Cancelled or timed out mid-deploy: the write-back still runs.
Interrupt(j) ==
    /\ phase[j] \in Deploying
    /\ fate' = PendingLost(j)
    /\ RunStops(j)
    /\ UNCHANGED <<branchVars, vendorVars, commitVars, behind, want, runs, work, stateBase,
                   conflicts>>

\* Ids the job's shards hold and the overlay did not.
FreshIds(j) == {id \in Ids : \E b \in Bindings : work[j][b] = id /\ stateBase[j][b] # id}

\* The recorded ids of job j that are still its own take the given fate.
\* Broken: the trap is not set, and nothing is printed.
NothingPrinted(j, f, fates) == fates
FreshBecome(j, f, fates) ==
    [id \in Ids |-> IF id \in FreshIds(j) /\ fates[id] = "recorded" THEN f ELSE fates[id]]

\* The checkout goes with its runner.
RunnerGone(j) ==
    LET none == Commit(NoShards, NoShards) IN
    /\ work' = [work EXCEPT ![j] = NoShards]
    /\ stateBase' = [stateBase EXCEPT ![j] = NoShards]
    /\ head' = [head EXCEPT ![j] = none]
    /\ stateCommit' = [stateCommit EXCEPT ![j] = none]
    /\ carries' = [carries EXCEPT ![j] = "nothing"]
    /\ attempt' = [attempt EXCEPT ![j] = 0]
    /\ cancelled' = [cancelled EXCEPT ![j] = FALSE]

\* The runner dies, or a provider's timeout skips the write-back (GitLab).
Kill(j) ==
    /\ Active(j)
    /\ RunnerGone(j)
    /\ behind' = [behind EXCEPT ![j] = FALSE]
    /\ fate' = FreshBecome(j, "stranded", PendingLost(j))
    /\ phase' = [phase EXCEPT ![j] = "dead"]
    /\ failed' = [failed EXCEPT ![j] = TRUE]
    /\ todo' = [todo EXCEPT ![j] = {}]
    /\ plan' = [plan EXCEPT ![j] = NoPlan]
    /\ pending' = [pending EXCEPT ![j] = NoPending]
    /\ UNCHANGED <<branchVars, vendorVars, want, runs, conflicts>>

-----------------------------------------------------------------------------
\* The script exits, and fails the job if this or anything before it failed.
Exits(j, exitsFailed) ==
    /\ phase' = [phase EXCEPT ![j] = "done"]
    /\ failed' = [failed EXCEPT ![j] = @ \/ exitsFailed]
    /\ RunnerGone(j)

\* opentide_state_exit: the state diff is printed and pushed to the side ref.
ExitsUnpublished(j) ==
    /\ Exits(j, TRUE)
    /\ fate' = FreshBecome(j, "printed", fate)
    /\ behind' = [behind EXCEPT ![j] = FALSE]
    /\ UNCHANGED <<branchVars, vendorVars, deployVars, want, runs, conflicts>>

Promotable(j) == \E r \in Rules : want[j][r] \notin NonPromotable \cup {Unchanged}

(***************************************************************************)
(* writeback_stage and the commit on the overlay. The shards are staged     *)
(* whatever happens; rule files a promotion rewrote (edits), only if they   *)
(* validate.                                                               *)
(***************************************************************************)
CommitWriteback(j, edits, valid) ==
    LET own == Commit(stateBase[j], work[j]) IN
    /\ phase[j] = "writeback"
    /\ edits => Promotable(j)
    /\ work[j] # stateBase[j] \/ (edits /\ valid)
    /\ valid \/ edits
    /\ failed' = [failed EXCEPT ![j] = @ \/ ~valid]
    /\ phase' = [phase EXCEPT ![j] = "pushing"]
    /\ head' = [head EXCEPT ![j] = own]
    /\ stateCommit' = [stateCommit EXCEPT ![j] = own]
    /\ carries' = [carries EXCEPT ![j] =
                      IF edits /\ valid THEN "shards and rules" ELSE "shards"]
    /\ behind' = [behind EXCEPT ![j] = moved[j]]
    /\ attempt' = [attempt EXCEPT ![j] = 1]
    /\ UNCHANGED <<branchVars, vendorVars, deployVars, cancelled, want, runs, work,
                   stateBase, fate, conflicts>>

\* Nothing staged, because nothing changed or what changed did not validate.
NothingToCommit(j, valid) ==
    /\ phase[j] = "writeback"
    /\ work[j] = stateBase[j]
    /\ valid \/ Promotable(j)
    /\ Exits(j, ~valid)
    /\ UNCHANGED <<branchVars, vendorVars, deployVars, behind, want, runs, fate, conflicts>>

\* HEAD becomes the tip. A HEAD that carries nothing already is the tip.
TipIsHead(j) ==
    IF carries[j] = "nothing"
    THEN UNCHANGED <<tip, moved, behind>>
    ELSE /\ tip' = head[j]
         /\ moved' = [i \in AllJobs |-> TRUE]
         /\ behind' = [i \in AllJobs |-> i # j /\ Pushing(i)]

OnTip(shards) ==
    [id \in Ids |-> IF fate[id] = "recorded" /\ \E b \in Bindings : shards[b] = id
                    THEN "published" ELSE fate[id]]

\* The server takes a fast-forward only.
FastForward(j) == phase[j] = "pushing" /\ ~behind[j]

\* git push: a fast-forward, or up to date.
PushAccepted(j) ==
    /\ FastForward(j)
    /\ TipIsHead(j)
    /\ fate' = OnTip(head[j].tree)
    /\ Exits(j, FALSE)
    /\ UNCHANGED <<pushed, handEdits, acksLost, vendorVars, deployVars, want, runs,
                   conflicts>>

\* Another attempt follows a failed one. Broken: one too many, or not counted.
RetriesOnceMore(j) ==
    /\ attempt[j] <= PushAttempts
    /\ attempt' = [attempt EXCEPT ![j] = @ + 1]
    /\ phase' = [phase EXCEPT ![j] = "rebasing"]
RetriesForever(j) ==
    /\ attempt' = attempt
    /\ phase' = [phase EXCEPT ![j] = "rebasing"]
Retries(j) ==
    /\ attempt[j] < PushAttempts
    /\ attempt' = [attempt EXCEPT ![j] = @ + 1]
    /\ phase' = [phase EXCEPT ![j] = "rebasing"]

\* The server took the push, the client saw a failure: HEAD is the tip, unknowingly,
\* and its rule files are there too.
PushUnacknowledged(j) ==
    /\ FastForward(j)
    /\ acksLost < LostAcks
    /\ Retries(j)
    /\ TipIsHead(j)
    /\ fate' = OnTip(head[j].tree)
    /\ acksLost' = acksLost + 1
    /\ carries' = [carries EXCEPT ![j] = IF @ = "shards and rules" THEN "shards" ELSE @]
    /\ UNCHANGED <<pushed, handEdits, vendorVars, deployVars, head, stateCommit,
                   cancelled, want, runs, failed, work, stateBase, conflicts>>

\* Rejected because the branch moved, or for any other reason; git does not say.
PushRejected(j) ==
    /\ phase[j] = "pushing"
    /\ Retries(j)
    /\ UNCHANGED <<branchVars, vendorVars, deployVars, head, stateCommit, carries,
                   cancelled, behind, want, runs, failed, work, stateBase, fate, conflicts>>

GivesUp(j) ==
    /\ phase[j] = "pushing"
    /\ attempt[j] = PushAttempts
    /\ ExitsUnpublished(j)

-----------------------------------------------------------------------------
\* git rebase of HEAD alone onto the fetched tip. HEAD's changes, on the tip:
Rebased(j) == Replay(head[j].parent, head[j].tree, tip.tree)

\* A HEAD the tip makes empty is dropped, and the tip is checked out instead.
Dropped(j) == Rebased(j) = tip.tree /\ carries[j] # "shards and rules"

Rebase(j) ==
    /\ phase[j] = "rebasing"
    /\ behind[j]
    /\ MergesCleanly(head[j].parent, head[j].tree, tip.tree)
    /\ \/ /\ Dropped(j)
          /\ head' = [head EXCEPT ![j] = tip]
          /\ carries' = [carries EXCEPT ![j] = "nothing"]
       \/ /\ ~Dropped(j)
          /\ head' = [head EXCEPT ![j] = Commit(tip.tree, Rebased(j))]
          /\ carries' = [carries EXCEPT ![j] = IF @ = "nothing" THEN "another's" ELSE @]
    /\ behind' = [behind EXCEPT ![j] = FALSE]
    /\ phase' = [phase EXCEPT ![j] = "pushing"]
    /\ UNCHANGED <<branchVars, vendorVars, deployVars, stateCommit, attempt, cancelled,
                   want, runs, failed, work, stateBase, fate, conflicts>>

\* Nothing was merged since: HEAD already sits on the tip, or is it.
RebaseOntoSame(j) ==
    /\ phase[j] = "rebasing"
    /\ ~behind[j]
    /\ phase' = [phase EXCEPT ![j] = "pushing"]
    /\ UNCHANGED <<branchVars, vendorVars, deployVars, runnerVars, behind, want, runs,
                   failed, fate, conflicts>>

\* Git finds a conflict: in one binding, in one shard, or in a promoted rule file.
RebaseMayConflict(j) ==
    /\ behind[j]
    /\ \/ ShardsMayConflict(head[j].parent, head[j].tree, tip.tree)
       \/ carries[j] = "shards and rules"

(***************************************************************************)
(* The rebase conflicts: the rule files are dropped, and replay applies the *)
(* state commit's bindings to the tip's shards and reports what it overrode. *)
(* Broken: its folder is copied over the tip's.                             *)
(***************************************************************************)
FolderCopied(j) == stateCommit[j].tree
Replayed(j) == Replay(stateCommit[j].parent, stateCommit[j].tree, tip.tree)

ReportConflicts(j) ==
    LET base == stateCommit[j].parent
        ours == stateCommit[j].tree IN
    conflicts' = conflicts \cup
        {<<b, ours[b], tip.tree[b]>> : b \in ReplayConflicts(base, ours, tip.tree)}

ReplayState(j) ==
    LET replay == Commit(tip.tree, Replayed(j)) IN
    /\ phase[j] = "rebasing"
    /\ RebaseMayConflict(j)
    /\ Replayed(j) # tip.tree
    /\ ReportConflicts(j)
    /\ head' = [head EXCEPT ![j] = replay]
    /\ stateCommit' = [stateCommit EXCEPT ![j] = replay]
    /\ carries' = [carries EXCEPT ![j] = "shards"]
    /\ behind' = [behind EXCEPT ![j] = FALSE]
    /\ failed' = [failed EXCEPT ![j] = TRUE]
    /\ phase' = [phase EXCEPT ![j] = "pushing"]
    /\ UNCHANGED <<branchVars, vendorVars, deployVars, attempt, cancelled, want, runs,
                   work, stateBase, fate>>

\* The default branch already holds this deployment state.
NothingToReplay(j) ==
    /\ phase[j] = "rebasing"
    /\ RebaseMayConflict(j)
    /\ Replayed(j) = tip.tree
    /\ behind' = [behind EXCEPT ![j] = FALSE]
    /\ Exits(j, TRUE)
    /\ UNCHANGED <<branchVars, vendorVars, deployVars, want, runs, fate, conflicts>>

\* The retry's fetch fails, or replay-state does.
RetryFails(j) ==
    /\ phase[j] = "rebasing"
    /\ ExitsUnpublished(j)

(***************************************************************************)
(* GitLab cancels the job inside the push loop: after_script runs the whole *)
(* write-back again, from a soft reset to the overlay commit, so the index  *)
(* it commits is the one the last rebase left.                              *)
(***************************************************************************)
CancelWriteback(j) ==
    LET again == Commit(stateBase[j], head[j].tree) IN
    /\ CancelInWriteback
    /\ phase[j] \in {"pushing", "rebasing"}
    /\ ~cancelled[j]
    /\ cancelled' = [cancelled EXCEPT ![j] = TRUE]
    /\ failed' = [failed EXCEPT ![j] = TRUE]
    /\ head' = [head EXCEPT ![j] = again]
    /\ stateCommit' = [stateCommit EXCEPT ![j] = again]
    /\ carries' = [carries EXCEPT ![j] = IF @ = "nothing" THEN "shards" ELSE @]
    /\ behind' = [behind EXCEPT ![j] = moved[j]]
    /\ attempt' = [attempt EXCEPT ![j] = 1]
    /\ phase' = [phase EXCEPT ![j] = "pushing"]
    /\ UNCHANGED <<branchVars, vendorVars, deployVars, want, runs, work, stateBase, fate,
                   conflicts>>

-----------------------------------------------------------------------------
Operator ==
    \/ \E w \in Wants : Push(w)
    \/ \E b \in Bindings, id \in Ids : RecordByHand(b, id)
    \/ \E b \in Bindings : RemoveByHand(b)

VendorAnswers(j, b) ==
    \/ CreateAnswered(j, b)
    \/ CreateUnanswered(j, b)
    \/ UpdateAccepted(j, b)
    \/ DeleteAccepted(j, b)
    \/ DeleteUnanswered(j, b)
    \/ VendorRefuses(j, b)

Deploy(j) ==
    \/ \E t \in Tenants : ScreenTenant(j, t)
    \/ \E b \in Bindings : VendorAnswers(j, b)
    \/ \E b \in Bindings : RecordCreated(j, b) \/ RecordDeleted(j, b)
    \/ RecordFails(j)
    \/ ForgetFails(j)
    \/ DeployEnds(j)

Writeback(j) ==
    \/ \E edits, valid \in BOOLEAN : CommitWriteback(j, edits, valid)
    \/ \E valid \in BOOLEAN : NothingToCommit(j, valid)
    \/ PushAccepted(j)
    \/ PushUnacknowledged(j)
    \/ PushRejected(j)
    \/ GivesUp(j)
    \/ Rebase(j)
    \/ RebaseOntoSame(j)
    \/ ReplayState(j)
    \/ NothingToReplay(j)
    \/ RetryFails(j)

\* The provider starts the job, stops it, or starts it over.
Runner(j) ==
    \/ j \in Jobs /\ (Start(j) \/ StartFails(j) \/ Rerun(j))
    \/ j \in Staging /\ \E w \in Wants : StartStaging(j, w)
    \/ Interrupt(j)
    \/ CancelWriteback(j)
    \/ Kill(j)

\* Every merge was deployed or given up: nothing is left to happen.
Settled ==
    /\ pushed = MaxPushes
    /\ \A j \in Jobs : phase[j] \in {"done", "dead"}
    /\ \A j \in Staging : phase[j] \in {"new", "done", "dead"}
    /\ UNCHANGED vars

Next ==
    \/ Operator
    \/ \E j \in AllJobs : Runner(j) \/ Deploy(j) \/ Writeback(j)
    \/ Settled

Spec == Init /\ [][Next]_vars
-----------------------------------------------------------------------------
(***************************************************************************)
(* Properties.                                                              *)
(***************************************************************************)

\* The live remote rules whose id a shard keeps, or kept until a conflict.
KnownLive(b) == {id \in remote[b] : fate[id] \in {"recorded", "published"}}

(***************************************************************************)
(* With one production job at a time, no rule is made twice on a tenant     *)
(* that answered and whose answer was recorded: each job reads the shards   *)
(* every earlier job published, whatever became of its own push.            *)
(***************************************************************************)
NoDuplicate == \A b \in Bindings : Cardinality(KnownLive(b)) <= 1

(***************************************************************************)
(* A published id leaves the tip only with its remote rule, or by a         *)
(* conflict that was reported: retries, replays, overlapping runs and hand   *)
(* edits never drop the only handle on a live rule in silence.              *)
(***************************************************************************)
NothingDroppedSilently ==
    \A b \in Bindings : \A id \in remote[b] :
        fate[id] = "published" => \/ tip.tree[b] = id
                                  \/ \E c \in conflicts : c[1] = b /\ c[3] = id

(***************************************************************************)
(* A recorded id is never in limbo: it is in the checkout of a job that is  *)
(* still running, or it was published, printed or died with its runner.     *)
(***************************************************************************)
RecordedIdIsHeld ==
    \A id \in Ids : fate[id] = "recorded" =>
        \E j \in Jobs, b \in Bindings :
            Active(j) /\ work[j][b] = id /\ (Pushing(j) => stateCommit[j].tree[b] = id)

(***************************************************************************)
(* What reaches the default branch is the run's own changes: a binding      *)
(* changes by an operator's merge, or by the push of a job that changed it  *)
(* itself, to what the job made it. Whatever other runs put on the tip      *)
(* while the job deployed, rebased and replayed is kept.                    *)
(***************************************************************************)
Owns(j, b, id) == phase[j] = "pushing" /\ stateBase[j][b] # work[j][b] /\ id = work[j][b]

OthersBindingsKept ==
    [][\A b \in Bindings : tip'.tree[b] # tip.tree[b] =>
          handEdits' # handEdits \/ \E j \in Jobs : Owns(j, b, tip'.tree[b])]_vars

(***************************************************************************)
(* The same, for as long as HEAD is a commit of the run: a retry after git  *)
(* dropped that commit pushes somebody else's again.                        *)
(***************************************************************************)
OwnCommitOnly ==
    [][\A b \in Bindings : tip'.tree[b] # tip.tree[b] =>
          \/ handEdits' # handEdits
          \/ \E j \in Jobs : Owns(j, b, tip'.tree[b]) \/ carries[j] = "another's"]_vars

(***************************************************************************)
(* A run's changes land together: the push that ends its write-back leaves  *)
(* on the tip every id the run recorded and none of those it removed,       *)
(* however often the commit was rebased or replayed before.                 *)
(***************************************************************************)
LandsWhole ==
    [][\A j \in Jobs :
          phase[j] = "pushing" /\ phase'[j] = "done" /\ tip'.tree # tip.tree =>
              \A b \in Bindings :
                  stateBase[j][b] # work[j][b] => tip'.tree[b] = work[j][b]]_vars

(***************************************************************************)
(* Refinement: seen from the branch, a job only ever takes the branch's      *)
(* shards, changes its copy and lands its changes whole.                    *)
(***************************************************************************)
Deltas == INSTANCE RunDeltas
            WITH Runners <- AllJobs, branch <- tip.tree, base <- stateBase, work <- work

ImplementsRunDeltas == Deltas!Spec

(***************************************************************************)
(* A change request's job leaves the deployment state as it found it: it    *)
(* makes no remote rule whose id only its runner would hold.                *)
(***************************************************************************)
ChangeRequestKeepsState ==
    \A j \in Staging : phase[j] \notin WritingBack /\ work[j] = stateBase[j]

(***************************************************************************)
(* Each tenant ends as the newest merge of the rule asked: once every job   *)
(* is over, a rule whose last deploy succeeded in deleting it has no live    *)
(* remote copy that the catalogue knows of, and one it released has exactly *)
(* the copy the tip records.                                                *)
(***************************************************************************)
Asks(j, r, status) == StatusIn(j, want[j], r) = status
LastToDeploy(j, r) == want[j][r] # Unchanged /\ \A i \in Jobs : i > j => want[i][r] = Unchanged

TenantsMatchNewestMerge ==
    (\A j \in AllJobs : ~Active(j) /\ phase[j] # "queued") =>
        \A j \in Jobs, b \in Bindings :
            (phase[j] = "done" /\ ~failed[j] /\ LastToDeploy(j, b[1])) =>
                KnownLive(b) = CASE Asks(j, b[1], "RELEASE") -> {tip.tree[b]}
                                 [] Asks(j, b[1], "DELETION") -> {}
                                 [] Asks(j, b[1], "DISABLEMENT") -> {tip.tree[b]} \ {NoId}

(***************************************************************************)
(* Fairness: a job that runs goes on running (the provider's timeout is one  *)
(* of the ways), and the provider starts what is queued.                    *)
(***************************************************************************)
FairSpec ==
    /\ Spec
    /\ \A j \in Jobs : WF_vars(Start(j)) /\ WF_vars(Deploy(j)) /\ WF_vars(Writeback(j))

\* Every queued job gets its turn and ends, however many pushes are rejected.
EveryJobEnds == \A j \in Jobs : phase[j] = "queued" ~> phase[j] \in {"done", "dead"}

\* Every id a job recorded reaches the tip or the log, unless its runner dies.
EveryIdSurfaces ==
    \A id \in Ids : fate[id] = "recorded" ~> fate[id] \in {"published", "printed", "stranded"}
=============================================================================
