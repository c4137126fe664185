# A verification of OpenTide in TLA+

OpenTide keeps a catalogue of detection rules in git and deploys them to security
products ("platforms"), each with several tenants. The vendor ids of deployed rules are
kept in git too, next to the rules, and CI jobs on disposable runners write them back.
That write-back is the core of this project: it is where concurrency, crashes, lost
answers and git's own behaviour meet, and where a mistake costs a duplicate or an orphan
rule in somebody's production tenant. Around it are the other parts of the program that
keep state while something else moves: the files of the ids, one vendor's deployer, the
shares to MISP, the previews of change requests, and the server an editor talks to.

Paths below are relative to `src/src/opentide/` unless they start with `docs/`.

## Inventory

Parts marked **M** are modelled here, **P** in part, **–** not yet or not at all
(`PROJECT.json` gives the reason for each).

| Part | State it keeps | Operations | Hard behaviour | What makes it correct |
|---|---|---|---|---|
| Deployment state shards, `states/deployment.py` **P** | one JSON file per rule: (platform, tenant) → vendor id | load, set, remove, save, atomic replace, unlink when empty | a stop at any step of the atomic replace; a power failure that undoes a rename; two writers of one shard; load–modify–save without a lock | a reader sees one whole version; a binding disappears only when it was removed |
| External id planning, `deployment/external_ids.py`, `models/deployment_enums.py` **M** | none; reads the shard, writes it after the vendor answered | `plan_external_id`, `screen_tenant`, `record_created`, `record_deleted`, `report_failure` | a run that could not keep the id it would be given; unmigrated rules; ids recorded elsewhere in the meantime | at most one recorded live remote rule per (rule, tenant); no create without a place for its id |
| Deploy command, `cli/services/deploy.py`, `deployment/` **P** | environment flags, the run's result | promotion, plan from the push's diff, one deployer per platform, stop at the first exception | partial failure across tenants and platforms | exit status tells of every refused rule; what was done before a failure is recorded |
| Sysdig deployer, `platforms/sysdig/` **M** | the tenant's rules, and the policies that make them alert | create, read, update, delete a rule; rename it in, put it into and take it out of policies | one deploy is many calls, each refused, lost, retried or carried out unanswered; people edit policies meanwhile | what is reported deployed alerts; nobody else's policy entries change; no live rule is forgotten |
| Other deployers that keep ids: CrowdStrike, Defender, SentinelOne, `platforms/*` **P** | the remote tenants | create, update, delete, per vendor | answers lost, ids missing from answers, deletes that are not idempotent, HTTP retries of a POST | one remote rule per create; the shard follows the vendor |
| Production write-back, `ci/writeback.py` **M** | `.git/` markers, overlay commit, state commit, attempt counter | overlay, stage, commit, push loop, rebase, replay, exit trap, after_script | other jobs and people push at any time; retries; cancelled and killed runners | only the run's own changes land, whole; no id is dropped in silence |
| State replay, `ci/state_replay.py` **M** | none | three-way application of one commit's bindings | both sides changed one binding | untouched bindings keep the tip's value; every overridden id is reported |
| CI pipelines, `ci/github.py`, `gitlab.py`, `azure.py`, `stages.py` **P** | queue of jobs at the provider | start, queue, cancel, time out, re-run | GitHub overlaps jobs; GitLab's resource group is unordered by default | every merge is deployed; order where the provider gives it |
| Inflight shards, `ci/inflight.py`, `indexing/inflight.py` **P** | one preview shard per object, on the default branch; the publishing job's base commit in `.git` | publish from a change request, prune after a merge, overlay on the index | every job pushes to one branch with a bounded retry; the job sees three trees: the request's, the copied base, a newer tip | only shards are pushed; nobody's shard is dropped or resurrected; a green job did what it says |
| Status promotion, `mutation/promotion.py` **P** | rule files | plan all rewrites, then write each atomically | one of several writes fails | only promotable scalars change |
| Deploy plan, `deployment/planning.py`, `utils.py`, `git_repo.py` **P** | none | which rules, on which platforms and tenants | strategies, manual tenants, listed tenants, deprecated rules | no rule leaves its tenants; no retired rule is resurrected |
| Sharing to MISP, `sharing/` **P** | ledger file (a cache), remote events | push, retract, delete with a worker pool; preview and status read | look-up and create are two calls; an edit that fails half way; several workers write one ledger | one event per object; a record says what is on the instance; other organisations' events stay |
| Deploy log and events, `cli/ui/deploy_log.py`, `core/deploy_events.py` **P** | a result per (platform, tenant, rule) | started, accepted, refused, skipped, unreached, settle | an exception between a rule's start and its result | every planned rule has exactly one outcome |
| Migration of legacy ids, `cli/services/migrate_state.py` **M** | rules and shards | strip the ids, write the shards | a stop half way, then a second run on what the first left | no id exists in neither place |
| Live server, `cli/services/serve.py` **P** | the queue of runs, the running job, the process it changes | run, cancel, invalidate, exit | an interrupt raised in another thread wherever it is; closes from three threads; a client that is gone | every request is answered once and truly; the server is itself again after a run |
| Object index and registry, `core/index_manager.py`, `core/registry.py` **P** | a snapshot per workspace, with a fingerprint of the files | load, keep, drop, reload | files edited while and after they are read; an invalidate that comes late | a run never works with files older than when it began |
| Everything that renders or checks text: `validation/`, `schemas/`, `generation/`, `documentation/`, `export/`, `extraction/`, `query/`, `vocabulary/`, `mcp_server/`, `analysis/` (Rust) – | none that outlives a call | functions over documents | none of interest to a model checker | covered by unit tests |

How they interact. A merge triggers a production job. `ci/` renders the job's script:
`overlay_default_branch_state` replaces the checkout's shards by the default branch's
newest and remembers that as a local commit; `opentide deploy --strategy RELEASE` promotes
statuses, plans the push's diff, and hands the rules to the platforms' deployers; each
deployer plans a tenant's rules against the shards (`screen_tenant`), calls the vendor and
records the answer in the shard (`record_created`, `record_deleted`);
`production_writeback` commits the shards (and promoted rules that validate) on the
overlay commit and pushes, rebasing or replaying when the branch has moved. A change
request's job runs the same deployers with `--strategy PREVIEW` and never writes back.
On a desk, `opentide serve` runs the same commands one after another in one process, over
registries it keeps between them; `opentide deploy migrate-state` and the importers write
the same shards from there.

## Modules

| Module | Models |
|---|---|
| `Shards` | a tree's whole state folder as a function from (rule, tenant) to an id or none; `record_external_id` and `forget_external_id` |
| `StateReplay` | `ci/state_replay.py` and what git's three-way merge does to the same files |
| `ExternalIds` | `StatusStrategy`, `deploys`, tenant acceptance, `unpersisted_error`, `plan_external_id` |
| `ProductionDeploy` | the jobs, the runners, the vendors and the branch together: the composition of the three above with `ci/writeback.py` |
| `RunDeltas` | abstract specification: jobs take the branch's shards, change a copy, land the changes whole |
| `MCProductionDeploy` | the instance TLC checks |
| `ProductionDeployProofs` | its theorems about the jobs: types, change requests, whose changes a push lands, where ids are |
| `ProductionDeploySafety` | its theorems about the branch and the tenants, and the refinement; it extends the former |
| `MispShare` | `opentide share`: commands, workers, ledgers and the MISP instance; it shares nothing with the pipeline but the order of CI jobs |
| `MCMispShare`, `MispShareProofs` | the instance TLC checks, and the theorems |
| `Inflight` | the preview shards of open change requests: `ci/inflight.py`, `write_inflight_shards`, `prune_inflight_shards`, and git's merge, push and rebase. It shares the branch and the push loop with the pipeline but none of its files |
| `MCInflight`, `InflightProofs` | the instance TLC checks, and the theorems |
| `StateFiles` | the files the ids are in, in one checkout, step by step of `write_durable`, and the commands that write them: `migrate-state`, a deploy's and an import's record, forget. `Shards` is what it looks like from outside when nothing stops |
| `MCStateFiles`, `StateFilesProofs` | the instance TLC checks, and the theorems |
| `SysdigDeploy` | `deploy_api` of `platforms/sysdig/` call by call, with policies and the deploy log: one of the vendors that `ProductionDeploy` has as one step per rule |
| `MCSysdigDeploy`, `SysdigDeployProofs` | the instance TLC checks, and the theorems |
| `Serve` | `opentide serve`: its threads, cancels, closes, and what a run changes of the process |
| `MCServe`, `ServeProofs` | the instances TLC checks, and the theorems |
| `Registry` | what the server's runs read: the cached and the kept snapshot of a workspace, and the objects loaded from it |
| `MCRegistry`, `RegistryProofs` | the instance TLC checks, and the theorems |

### ProductionDeploy: state

- *The branch.* `tip` is the last commit, reduced to the shards of its tree and of its
  parent's: a retry that replays "the last commit" needs both. `moved[j]` says that
  the tip is another commit than the one that triggered job j (a merge clears it for its own job),
  `behind[j]` that the branch has moved since the job's HEAD was placed on it. A push is a
  fast-forward exactly when `~behind[j]`; a job whose branch stood still from its merge on lands
  with its first push, from the overlay commit.
- *The vendors.* `remote[b]` is the set of live remote rules created for binding b. Ids are
  numbered in the order they are handed out and never reused.
- *A job.* `want[j]` is what its push asked (the status of each rule it changed), `work[j]`
  the shards in the checkout, `stateBase[j]` those of the overlay commit, `plan[j]` what
  `screen_tenant` decided for the tenant at hand, `pending[j]` a vendor's answer not yet
  in a shard, `head[j]`, `stateCommit[j]`, `attempt[j]` the write-back's variables.
  `carries[j]` abstracts what HEAD adds to the branch besides shards: promoted rule files,
  nothing at all (git dropped an empty commit), or somebody else's commit.
- *History.* `fate[id]` and `conflicts` only serve the properties; no guard of an action
  of the program reads them. (`RecordByHand` reads `fate`: it is the operator, who acts on
  what the log printed.)

### ProductionDeploy: actions

- *People*: `Push` (merge a change of rules), `RecordByHand` (add an id a log printed),
  `RemoveByHand` (remove a rule and its binding).
- *Provider*: `Start` with the overlay and the plan, `StartFails` (dry run fails, cancelled
  in the queue), `Rerun`, `Interrupt` (cancelled in the deploy; the write-back still runs),
  `CancelWriteback` (GitLab's after_script), `Kill`, `StartStaging`.
- *Deploy*: `ScreenTenant` plans all rules of a tenant at once, before its client exists;
  then one action per outcome of a vendor call: `CreateAnswered`, `CreateUnanswered` (made,
  but the answer is lost or has no id), `UpdateAccepted`, `DeleteAccepted`,
  `DeleteUnanswered`, `VendorRefuses`. An exception stops the run (`RunStops`). Recording
  is a step of its own because the runner can stop in between: `RecordCreated`,
  `RecordFails`, `RecordDeleted`, `ForgetFails`.
- *Write-back*: `CommitWriteback` or `NothingToCommit`; then the `until` loop: a push is
  accepted (`PushAccepted`), accepted without the client knowing (`PushUnacknowledged`),
  or rejected (`PushRejected`, `GivesUp`); a retry rebases (`Rebase`, `RebaseOntoSame`),
  falls back to replay (`ReplayState`, `NothingToReplay`), or fails (`RetryFails`).

Three points where the model follows git rather than the script's intent, checked against
git itself: `git rebase` drops a commit that the new base makes empty and leaves HEAD on
that base (`Dropped`); a later `rebase --onto FETCH_HEAD HEAD~1` then moves the *base's*
last commit; and bindings of one shard are adjacent lines of one small JSON file, so two
changes of different bindings may or may not conflict (`ShardsMayConflict` allows both).

### MispShare

`events` is the instance, `disk` the ledger file of each checkout that keeps one (a CI
runner starts without), `ledger` a command's copy in memory, and `step`, `found`, `up`,
`writes`, `report` are a worker's variables, one worker per object. `content` is the catalogue
as the command read it; `version` is what it is now. `Start` loads the ledger and selects;
`Search` is the look-up by uuid and organisation; then `_upsert` is `Unchanged`,
`PublishOnly`, `Create`, `Edit`, `Publish`, and `_retract_one` is `RetractAbsent`,
`Unpublish`, `RetractUnpublished`, `Delete`. Every remote call is a step of its own: it
may be refused (`CallRefused`) or carried out unanswered (`Unanswered`). `Record` is the put
and the save under the lock; `SaveFails` and `GivesUpTheRest` are what an exception does to
the pool. `Crash` may come anywhere. All local failures before the look-up are
`LookupFails`. A write leaves an event unpublished because the body says so
(`payload.py:147`). One target; a run over several is one such run after another.

### Inflight

`tip` is the default branch's last commit: the version of each object, the shard of each
object (named by the job that wrote it, since two shards of an object differ at least in
`written_at`) and the number of commits below it. A request has the versions its head gives
the objects it changes (`edits`) and the tree it branched from (`fork`). A job has what it
checked out (`head`), the commit it copied the shards from (`start`, the file
`opentide-inflight-base`), and its HEAD: a tree (`work`) on a commit (`onto`). `seen` and `newest`
are history and no guard reads them.

`PushToRequest` and `Merge` trigger a publishing and a pruning job. A publishing job is
`TakeBase` (checkout, fetch, copy of the folder) and, later, `Publish` (diff, one shard per
changed object, commit in the worktree); a pruning job is `Prune`, which removes each shard
its merge supersedes. Both end in `CommitAndPush`, then `PushAccepted`,
`PushUnacknowledged` or `PushRejected`, `Rebase`, until the attempts are used up. `Stops` is any
failure under `set -e`: a fetch, a listed file that is missing, a rebase that conflicts, a runner
that dies. A diff that fails is none of them (`Diffs`): `changed_object_yaml_paths` logs it and
compares the checkout with the default branch.

Three consequences of the code that the model allows and no property forbids. If the diff fails and
git finds no baseline either, the list is empty: the job ends green with nothing published, although
the request is open (`indexing/inflight.py:172-176`). `GreenIsPublished` is about the shards a job
wrote. A rebase
over another change of the same shard conflicts, so of two concurrent runs of one request
the later fails. A run slower than its request's merge publishes a shard the merge
supersedes, which stays until the next merge prunes.

### StateFiles

`file[p]` is what a reader of a path finds now, `after[p]` the set of what may be there
once the power has failed: the model keeps both, since a rename that was not flushed is seen by
every reader and may be undone. `todo` are the paths a command is to write, `temporary` the
temporary file of the first. The steps of `write_durable` are `OpenTemporary`, `Fill`,
`Flush`, `Rename`, `FlushDirectory`; a shard that has no id left is `Unlink`ed. `Record` and
`Forget` are `record_external_id` and `forget_external_id`, called by a deploy
(`DeployRecords`, under the conditions of `plan_external_id`) or by the Defender importer
(`ImportRecords`, under none). `StartMigrate`, then for each rule file `NothingToMove`,
`CannotMove` or `Move`, then `EndMigrate`, are `run_migrate_state`; `MigrateRefused` is its
early return when git ignores the shards. What goes wrong: `WriteFails`,
`DirectoryNotFlushed` (the code ignores it), `Killed` and `PowerFails`, anywhere. `given`,
`cut` and `clean` are history and no guard reads them.

Commands come one after another: a checkout belongs to one job or one person, and two
writers of one shard share the temporary name (`states/deployment.py:411`) and would lose
each other's bindings.

### SysdigDeploy

`want[r]` is what the rule's block asks: strategy, name, policies. `shard`, `remote` and
`policy` are the shard, the tenant's rules and its policies; a rule alerts if a policy has its
name. `stage` is the call the deploy is at, `purpose` what the policies are read for, `listed`
what was read of those that have to change. A run is `StartRun`, `ScreenTenant`, then for each
rule `Begin` and a chain: `CreateRule`, `RecordCreated`; or `ReadRule`, `UpdateRule`; or
`RuleMissing`, and from there a create, or a disable's `Forget`; then `ListPolicies`, one
`UpdatePolicy` each, `PoliciesDone`; or, to delete, the policies first, then `DeleteRule` and
`Forget`. What a call may do instead: be refused (`CallRefused`, the rule fails), fail
(`CallFails`, the tenant stops), be carried out and lost (`CreateUnanswered`,
`UpdateUnanswered`, `PolicyUnanswered`, `DeleteUnanswered`) or carried out twice by the
client's retry (`CreateRetried`). `ConsoleEditsPolicy` may come between any two calls.

`Leaves` is `RuleScope.__exit__`, `Settled` is `DeployLog.settle`: what becomes of a rule in
the log is part of the model, since `outcome` is what the exit status and the summary tell.
That Sysdig refuses a policy whose version is not the one read is what the client relies on
(it sends the version) and is external to the code.

Consequences that no property forbids: a create that the client repeats after a read
timeout leaves a rule no shard knows (`lost`); a rename cut short leaves the old name in some
policies, which alerts nothing; a policy dropped from a block keeps the rule's name; a rule
to delete cannot be deleted while its block names a policy that is gone.

### Serve

The client's lines are `ReceiveRun`, `ReceiveCancel`, `ReceiveLateCancel`; `ClientGoes` makes
the next write fail. The reading thread acts on a cancel in two steps, as the code does: it picks the
job under the state lock (`target`), then interrupts it under the job's
(`CancelInterrupts`). `_close` is three steps, `Close`, `CloseInterrupts`, `CloseEnds`, which the
reading thread (exit, end of input), a signal's thread and the loop may be in at once. The loop is
`TakeRun` or `TakeEnd`, `Reach` (`_handle`), then `AnswerError`, `AnswerUnrun` or `StartRun`, and
`AnswerRun` when the thread is joined. The run's thread goes through `Begin`, `Check`, `Refuse`,
`ReplaceEnvironment`, `CannotEnter`, `BeginCommand`, `Return`, `Finish`, `CleanUp`, `Parse`;
`Deliver` is the `KeyboardInterrupt` raised in it, at whatever place it has reached.
`changed` is what of the process is not the server's: environment, directory, stdout.

Two things the model has because the code has them, and which no property forbids: a cancel
read between `_handle`'s lock and the place where `_run` sets `_active` finds neither a queued nor a
running job and does nothing (`ReceiveLateCancel`); an interrupt between `with job.lock` and
the `try` of `target` ends the thread without an outcome, which answers an internal error
(`InterruptedUnguarded`).

Left out: lines that do not parse, `initialize`, `shutdown` and unknown methods (answered by the
reading thread or in turn, changing nothing else), a second signal (it ends the process).

### Registry

`watched[w]` is the version of the files w's fingerprint covers, `outside` that of a file
a configuration points at and no fingerprint sees. `kept` is `CommandRunner.snapshots`,
`cache` is `IndexManager._cache`, `index` and `typed` are what `OpentideRegistry` has of it. A
run is `BeginRun`, then `AskRegistry` (`initialise` or `reload`) and `LoadCached`, `LoadKept` or
`Fingerprint`, `Build`, `Keep`; `LoadObjects` and `DropCache` at any time in it; `Write` if its
command may; `Return` or `Interrupted`. `Edit` may come between any two of these. A
registry is the numbers it was read at: what `build_registry` makes of the files is left
out, and every edit is taken to change a file's time or size.

### Abstractions

A tenant of the model is a (platform, tenant) pair; the order of platforms and tenants is
left open, which allows the code's order and more. Rule files matter only through what a
merge wants of a rule and through their conflicts, which can happen whenever promoted
files are carried and the branch has moved. `deployment_state_ignored` (a `.gitignore`
that hides the shards) is a parameter of `PlanExternalId` that the pipeline fixes to FALSE.
In `Inflight` a request's edits are merged whole over the branch's objects. A rename that
git would guess between two files can only turn a clean rebase into a conflict, which is `Stops`. A
push that fails without landing and without a rival only uses up an attempt. A request closed
unmerged is one nobody pushes to or merges any more.

## Runs

Each run's module is named after the component: `MCProductionDeploy` for the first four,
`MCMispShare` for the two on shares. What each is given is in its cfg.

| Run | Question | Bounds that matter |
|---|---|---|
| `queued` | One job at a time, oldest first, with cancelled write-backs: no duplicates (`NoDuplicate`), recorded ids stay held (`RecordedIdIsHeld`), tenants end as the newest merge asked (`TenantsMatchNewestMerge`), `EveryJobEnds` and `EveryIdSurfaces` under `FairSpec`, types | 2 merges, 2 tenants: one tenant can fail after the other succeeded; 3 attempts, a lost acknowledgement |
| `overlapping` | Two jobs at any interleaving, with an operator's merge in between: own changes only (`OthersBindingsKept`), whole (`LandsWhole`), no silent loss (`NothingDroppedSilently`); `ProductionDeploy` implements `RunDeltas` | 2 jobs, 2 tenants, 1 hand edit, 3 attempts each: a first push that fast-forwards, a rebase or replay, another on top of it; no lost acknowledgement (disagreement 3) |
| `change_requests` | A change request's job keeps the state; re-running jobs duplicates nothing (`NoDuplicate`) | one unmigrated rule, one migrated, one production job beside, 2 runs per job |
| `lost_acks` | A push lands unacknowledged among overlapping jobs: own commits only (`OwnCommitOnly`), no silent loss, `EveryIdSurfaces` under `FairSpec` | 1 lost acknowledgement, 3 attempts, 2 edits |
| `shares` | Share commands one after another: `OneEventPerObject`, `LedgerHoldsRecords`, `RecordsAreTrue` | 2 objects, 2 workers, 3 commands, 2 contents, 2 events, 1 removed by hand: create, then edit, retract or delete from another checkout, then push by a ledger that is older than the instance; each of them interrupted |
| `foreign_events` | Overlapping commands leave other organisations' events alone (`ForeignEventsKept`) | 3 commands, 2 at a time: two make a duplicate, the third finds it ambiguous; 1 removal |
| `inflight` | Publishing and pruning jobs race with retries: only merges change objects (`OnlyMergesChangeObjects`), no shard is dropped (`OthersShardsKept`) or comes back (`GoneStaysGone`), a green publish was published (`GreenIsPublished`), a green prune pruned (`GreenIsPruned`) | 2 objects, 2 requests, 2 versions (a shard older than the merged object, of its version, newer), 3 jobs, 3 attempts, 1 lost acknowledgement |
| `state_files` | Commands stopped at any step: no promised id is in neither place (`IdsSurvive`), readers find whole files (`WholeFiles`), a migration that completed is done even without power (`CompletedIsDone`), one that fails has a cause of its own (`FailsForCause`) | 2 files of one rule, 1 tenant, 2 ids, 3 commands, 2 faults: stopped, stopped again, finished |
| `sysdig` | Deploy after deploy with faults and console edits: what is reported is so (`DeployedIsEnforced`), no live rule is forgotten (`LiveIsBound`), others' entries stay (`OthersNamesKept`), every rule has one result (`EveryRuleReported`) | a rule in up to 2 policies and a tuning, 1 tenant, 2 ids, 1 merge, 3 deploys, 2 faults, 1 console edit |
| `serve` | Two runs, cancels, a close beside the reading thread, a client that goes: `AnswersAreTrue`, `StoppedOnlyIfNamed`, `QueuedNeverRuns`, `ServerStateRestored`; `EveryRunAnswered` and `EndsOnceClosed` under `FairSpec` | 2 runs, 2 ids that may be equal, any command second |
| `serve_output` | a violation, see below | one run |
| `registry` | Runs of reading and writing commands, with edits during builds, late invalidates and interrupts: a run's registry is fresh (`FreshRegistry`), its objects are of its index (`ObjectsMatchIndex`) | 3 runs, 2 workspaces, 2 edits, 1 invalidate, 2 builds: kept, found stale, built again |

Why the bounds are enough. The properties are about one binding, or about one binding that
must survive what happens to another, so one rule with two tenants is the smallest shard
with a neighbour; two rules are used where rules differ (unmigrated or not). Races need
two writers: two jobs, or a job and an operator. A write-back's own history is at most: commit, one
rebase or replay, a second one on top of its result; three attempts give both. `MaxIds`
exceeds the ids those jobs can create before it blocks a create, except by runs that lost
answers. Sharing treats objects apart but for the ledger: two objects are enough for one save to
lose the other's record. Its third command, or the removal by hand, is what makes a synced line
stale: a command that believes the line without looking the event up passes with two commands and
no removal, and is caught with either.
In `inflight` three jobs are two publishers and the merge of one of them, or a publisher, a merge and a
late publisher; two objects let one shard be dropped by another's job; a second version is what a
prune could drop too much by; three attempts let a job rebase twice. What needs four jobs (a shard
of an object that only the request's newer head changes) is left to the theorems.
In `state_files` two files of one rule are a mistake of the users that makes a migration meet
what it wrote itself, which one file would need another command for; tenants are
independent cells of one file, and what `IdsSurvive` says of one does not depend on another.
In `sysdig` two ids are what one create beside a recreate, or a create sent twice, needs; three
deploys are one cut short, one that repairs, and one after a merge.
In `registry` the third run is the one that could be served what the first kept and the
second should have dropped.

Objects, requests, rule files, policies, workspaces are told apart by no action where a run
declares `Symmetry`; no run with a liveness property does.
`Overlapping = FALSE` in `shares` is an assumption about the users, not the code: commands one
after another, and nobody deletes an event while one runs. `Reverts = FALSE` in both runs keeps an
object from getting its old bytes back (see below).

Deadlock is checked in every run but three: `registry`, `sysdig` and `state_files`
model a person's commands, which simply run out at the bounds. In the pipeline, in sharing and in
`inflight` `Settled` is the only way to stop, in `Serve` the end of the process.

Fairness. `ProductionDeploy`'s `FairSpec` asks weak fairness of a started job's own steps and of the
queue's start. A CI job is a process that runs or is killed, and every vendor call and git command
in it ends in an answer or an error, at the latest at the job's timeout; the providers
start queued jobs as soon as the group is free. Nothing is asked of operators, of vendors'
answers being good, of re-runs, or of pushes being accepted.
`Serve`'s asks it of the threads of the process, each able to run when it can: the interrupt a
cancel has begun (`CancelInterrupts`), the steps of a close (`Closing`), `Loop`, and the run's
`Thread`, whose command returns in the end, as CLI commands do. Nothing is asked of the client:
not that it sends, reads, cancels or exits.

## Disagreements between the code and what it says

`serve_output` shows one as a run. `Server.send` says that once a write fails the session ends
as after `exit`. If the write that fails is a progress notification, sent from the run's own thread,
`_close` interrupts that thread, which is itself: the `KeyboardInterrupt` comes before the line
that ends the queue, the run is stopped, and the loop waits for a message that nobody sends. Only the
client's end of input, `exit` or a signal ends the server then.

Five more are outside what the passing runs assume. Each is reproduced by changing the constants
named; no guard of an action hides it.

1. `TenantsMatchNewestMerge` with `Queued = FALSE`, one tenant and no hand edits. The comment
   at `ci/github.py:176-181` and `docs/usage/workflows/ci-cd.md:84`:
   a rule retired on the default branch is removed. If the job that creates the rule
   overlaps the job of the merge that deletes it, the second finds no id, warns
   `external_id_missing`, exits 0; the first then lands its id. The rule stays live.
2. `OthersBindingsKept` with `CancelInWriteback = TRUE` and a hand edit.
   `ci/writeback.py:231-233` resets to the overlay commit when the
   after_script starts the write-back over; after a rebase the index holds newer shards,
   which become "this run's" and undo a removal merged later.
3. `OthersBindingsKept` with `LostAcks = 1`, three attempts and a hand edit.
   After a push that landed without an acknowledgement, the rebase drops
   the run's commit, and the next retry re-applies the branch's own last commit on top of a
   branch that has reverted it. Contradicts `ci/writeback.py:208-209`. (`OwnCommitOnly`, which
   `lost_acks` checks, excepts a HEAD that is no longer the run's.)
4. `OneEventPerObject` with `Overlapping = TRUE` and three events. Two share jobs look up an object,
   find no event and both create one
   (`sharing/engine.py:235`, `:284`); GitHub's share job has no concurrency group. The object
   is then refused as ambiguous until somebody deletes an event. `docs/cli/share.md:24`: "Create or
   update one MISP Event per selected object"; `docs/usage/workflows/ci-cd.md:54`: a later
   job shares the changes again "as an update".
5. `RecordsAreTrue` with `Reverts = TRUE` and three commands. An edit that reached the instance but
   not the ledger leaves the old synced line. When the object gets its old bytes back, push
   reports `unchanged` of an event that holds others. The ledger is documented as a cache that is
   safe to delete (`docs/usage/concepts/deployment-state.md:21`); without it the push would
   edit the event.

Two smaller ones, met while modelling:

- The docstring of `cli/services/migrate_state.py` says that a crash between shard and rule
  leaves both copies. If the crash comes between the shard's rename and the flush of its
  directory, the next run finds the shard in agreement, does not save it again, and strips the rule
  for good; a power failure after that may still undo the shard's rename. `IdsSurvive` ends its
  promise where a command leaves a rename unflushed (`Unflushed`), which is exactly this.
- `docs/cli/deploy.md:178` has an authentication error fail the tenant;
  `platforms/sysdig/deployer.py:321` does the same for any `requests.RequestException`, which is what
  `CallFails` models.

## Proofs

Every safety property that a passing run checks is also a theorem, for every value of the
constants that the modules' assumptions admit. A run's bounds are constants like others, so the
theorems hold for any number of rules, tenants, jobs, retries, faults. Each theorem names the
property of the run; where it has a hypothesis, this is it, and why the code has runs that
satisfy it:

| Theorem | Property | Holds under |
|---|---|---|
| `ProductionDeployProofs!ChangeRequestsKeepState` | `ChangeRequestKeepsState` | – |
| `…!OwnCommitsOnly` | `OwnCommitOnly` | `~CancelInWriteback`: not GitLab's after_script (disagreement 2) |
| `…!RecordedIdsHeld` | `RecordedIdIsHeld` | – |
| `ProductionDeploySafety!DropsReported` | `NothingDroppedSilently` | – |
| `…!NoRuleTwice` | `NoDuplicate` | `Queued`, `HandEdits = 0` |
| `…!QueuedRunsLandWhole`, `…!QueuedRunsKeepOthers` | `LandsWhole`, `OthersBindingsKept` | `Queued`, `HandEdits = 0` |
| `…!QueuedRunsAreDeltas` | `ImplementsRunDeltas` | `Queued`, `HandEdits = 0` |
| `…!NewestMergeStands` | `TenantsMatchNewestMerge` | `Queued`, `OldestFirst`, `MaxRuns = 1`, `HandEdits = 0` |
| `MispShareProofs!OneEventAlone`, `…!LedgerKeepsRecords` | `OneEventPerObject`, `LedgerHoldsRecords` | `~Overlapping` |
| `…!ForeignKept` | `ForeignEventsKept` | – |
| `…!RecordsTrue` | `RecordsAreTrue` | `~Overlapping`, `~Reverts` (disagreement 5) |
| `InflightProofs!JobsCarryOnlyShards` | `OnlyMergesChangeObjects` | – |
| `…!GreenJobsPublished`, `…!GreenJobsPruned` | `GreenIsPublished`, `GreenIsPruned` | – |
| `…!JobsKeepOthersShards`, `…!ShardsStayGone` | `OthersShardsKept`, `GoneStaysGone` | – |
| `StateFilesProofs!FilesAreWhole`, `…!IdsAreSafe` | `WholeFiles`, `IdsSurvive` | – |
| `…!CompletedMigrations`, `…!FailuresHaveCause` | `CompletedIsDone`, `FailsForCause` | – |
| `SysdigDeployProofs!LiveRulesBound`, `…!RulesReported` | `LiveIsBound`, `EveryRuleReported` | – |
| `…!PoliciesKeepOthers`, `…!DeployedMeansEnforced` | `OthersNamesKept`, `DeployedIsEnforced` | – |
| `ServeProofs!AnswersTrue`, `…!OnlyNamedStop` | `AnswersAreTrue`, `StoppedOnlyIfNamed` | – |
| `…!CancelledNeverRuns`, `…!StateRestored` | `QueuedNeverRuns`, `ServerStateRestored` | – |
| `RegistryProofs!RegistriesAreFresh`, `…!ObjectsAreTheIndex` | `FreshRegistry`, `ObjectsMatchIndex` | – |
| `TypeCorrect` of each | `TypeOK` | – |

`Queued` is GitLab's `resource_group` (`ci/gitlab.py`) and Azure's exclusive lock
(`ci/azure.py`); GitHub's jobs overlap. `OldestFirst` is the resource group's process mode of
that name, and the sequential lock. `MaxRuns = 1` says that nobody re-runs a job,
which would deploy an old merge after a newer one on purpose. `HandEdits = 0` says that nobody
edits a shard by hand. All of these admit lost acknowledgements, cancelled and killed runners, lost answers
of vendors, and any number of merges; none bounds anything. What the code promises overlapping
jobs is `OwnCommitsOnly`, `RecordedIdsHeld`, `DropsReported`, which ask nothing of the kind.
`LandsWhole`, `OthersBindingsKept` and the refinement are not true of overlapping jobs in
general: with three attempts and a lost acknowledgement git drops a job's commit and the next
retry moves another's (disagreement 3). The run `overlapping` passes with its three attempts
(four pass too; the code has five) because its jobs lose no acknowledgement. So those
three are proved for queued jobs, and overlapping ones have `OwnCommitsOnly`.

All rest on the named assumptions of the modules' constants (`ParametersAssumption`,
`MaxIdsAssumption`, `ShareAssumption`, `InflightAssumption`, `RegistryAssumption`, `StateFilesAssumption`,
`SysdigAssumption`, `ServeAssumption`), which TLC evaluates in every run. They say that bounds are
numbers and that the values which mean "none" are no rule, tenant or file.
`SysdigAssumption` also says that no rule is called "console", which is what the model calls the
owner of the names people add to policies by hand: without it a rule of that
name would own their entries, and `OthersNamesKept` would mean less.

### ProductionDeploy

*Types.* `TypeOK` is not inductive alone: `runs[j]` stays within `MaxRuns` because a queued
job was run fewer times, which is `Counted`; `IInv` is both. One lemma per action gives the
types of the next state.

*Whose step.* The lemmas `OperatorLocal`, `RunnerLocal`, `DeployLocal`, `WritebackLocal` say which
jobs' variables an action can touch. Every invariant below is a conjunct per job, and its proof
splits on whether the acting job is the job of interest: if not, what the
conjunct is about is as it was (`Same`), but for the branch, which stays (`Kept`) or
moves past the job (`Overtaken`).

- `ChangeRequestsKeepState`. `ReviewInv(j)` says that a change request's job only ever has
  rules in preview to screen and only updates planned. Any create would be refused as
  unpersisted (`ReviewDecision`), and a `PREVIEW` run deploys no retired rule
  (`ReviewTargets`), so no delete is planned either, and its checkout never changes.
- `OwnCommitsOnly`. While HEAD is a commit of the run, HEAD's own changes are among those of
  the run's working tree against its overlay (`HeadOwn`), likewise `$state_commit`
  (`StateOwn`); until the branch moves a HEAD with something to push has the tip as
  its parent or is the tip (`Placed`); a job whose triggering commit is still the tip started
  from the tip's shards (`AtTip`), which is what places its first commit. Then a fast-forward
  changes only bindings the run changed.
- `RecordedIdsHeld`, by `IdInv`. `CallInv(j)` says how far a job is with each binding: not
  screened, a call planned, answered and not recorded, or settled, and what its shard holds
  then. `MapInv(j)` says where ids can be: the branch and every overlay hold published ones, a
  job's commits hold these and its own, and lose none of its own while it pushes. A recorded id is in
  one checkout at one binding (`SoleInv`, `SomewhereInv`); an answer waits for one job
  (`PendingInv`); ids not yet handed out are free (`FreeInv`).
- `DropsReported`, by `DropInv`. The property speaks of the tip's tree, but a retry can put any
  commit of a job, or the tip's own last commit, on top of any other. The invariant therefore
  speaks of commits: one is *harmless* when every id it changes away from is spent, that is, gone from the
  vendor or lost in a conflict that was reported. Harmless are the tip, each job's HEAD and
  `$state_commit`, and the step from its overlay to what it holds, which is what a cancelled
  write-back commits again (`HarmlessInv`). An overlay's id that a job forgets is gone from the
  vendor first; an id is live at one binding only (`HomeInv`), so that gone there is gone.
- `NoRuleTwice`, `QueuedRunsLandWhole`, `QueuedRunsKeepOthers`, by `QueueInv`. With one job at a time
  (`Alone`) and no hand edits the branch holds either what the running job took or, after a push that
  landed unacknowledged, what it made of that (`Line`). No rebase meets a change of
  shards then, so no conflict is ever reported, and with `DropInv` a rule that
  the tip does not know is not live, so that a create makes the only one.
- `QueuedRunsAreDeltas`. Under the same invariants every step of `ProductionDeploy` is a step
  of `RunDeltas` or leaves its variables alone: a checkout is a `Take`, a recorded or
  forgotten id a `Change`, a push that lands a `Land`, any other end a `Leave`. Retries,
  rebases, replays and merges of rules are stutters.
- `NewestMergeStands`, by `TenantInv`. `RunInv(j)` says what a running job has settled:
  a binding whose rule its merge does not touch is as its overlay has it; one that it touches and is
  done with is as the merge asked, unless the job failed. `MergeInv(j)` says that what a
  job that succeeded asked for is there until a job of a newer merge of the rule runs; that a job of an
  *older* one does not undo it is `OrderInv`: jobs start in the order of their merges, once.

### StateFiles

`TypeOK` needs `Shape`, what a command may be writing at each stage. `IdsSurvive` speaks of what a
reader finds now, and a power failure may change that; the invariant therefore says that each promised id
is held by its shard or by one rule file *in every version a power failure may leave* (`SafeInv`,
`Sure`). That survives a power failure by itself. The steps that could break it are the renames
(`InstallSteps`): a new shard keeps what the shard had, because the shard in memory does and
`migrate-state` refuses two different ids (`MovingInv`); a stripped rule loses its ids, but by then
the shard has them, and is as certain as a flushed directory makes it, since no promise is
left on a shard whose rename was not flushed (`CertainInv`, `GivenInv`). `WholeInv` is
`WholeFiles` of all those versions; it needs that what is renamed was filled and flushed
(`TemporaryInv`).

How a migration ends is `ReportInv`. While it has not failed, a rule no longer ahead of
it has no key left, but for the rule at hand and those whose rename was left unflushed
(`DoneInv`). If it failed of no write, it met a rule that needs a hand or two ids for one tenant,
and that is still there (`CauseInv`): what it writes afterwards cannot settle a dispute, since
the rule at hand has none and a shard in memory keeps the ids of the file. That torn files
and half-moved ids are no cause is `WholeInv` and `Differs`.

### SysdigDeploy

`DeployInv` says what the deploy knows at every call: that the plan still fits the shards when it comes
to the rule (`PlanInv`), whose shard has which id and what Sysdig has under it (`LiveInv`,
`ShardInv`, `CallInv`), what the policies already written name (`PolicyInv`), what the log has so
far (`LogInv`). Whatever way a call goes, a rule goes on to another call, is left with its
result, or ends its tenant; what these three keep is proved first, once. `LiveIsBound` and
`EveryRuleReported` follow from it, and the two action properties from it at the step.
`DeployedIsEnforced` is the subtle one: when a rule is reported deployed, its live rule has the name
its block asks (`CallInv`), and every policy that was read without that name is still to be written
(`PolicyInv`), so that with none left all the policies it names have it.

### Serve

`ServeInv` has one part per thread. `QueueInv`: runs wait in the order they came, behind the one
taken and those answered, and as long as the client reads none is lost; `queued[i]` counts the waiting
runs of an id. `ThreadInv`: where the run's thread is, what outcome is settled, what of
the process is changed; an interrupt is raised once, in a thread that is known and not
finished, so a late one for an earlier run raises nothing. `CancelInv`: a mark is for
the first waiting run of its id, and that run takes it; what is doomed is marked, or answered as stopped, or
the session is closing. The four properties follow.

### MispShare

`TypeOK` needs `PushedContent`: only an object of the catalogue is pushed. `OneEventAlone`: the
property says nothing of a command between its look-up and its create; the invariant adds that one command at
most is active (`ActiveAlone`) and that an object whose worker found no event has none
(`NoneYet`). `ForeignKept` needs no hypothesis, since a worker calls the instance with the event
it found: that was made, and never foreign, whatever happened since (`FoundInv`).
`LedgerKeepsRecords`: while a command runs, its ledger in memory is the file (`LedgerInv`), whichever
worker saves. `RecordsTrue` relates what each worker knows to what the instance
has (`Knows`), and every synced line, in memory or on disk, to the events, the
catalogue and who is pushing: none is ahead of any of them (`SafeLines`, `BytesInv`), which
is what fails when an object gets its old bytes back.

### Inflight

`BranchInv`: what a job started from and sits on are commits of the branch, so that one as old as
the tip *is* the tip (`Before`); what a job pushes has the objects of the commit it sits on
(`OnlyShards`), which a rebase keeps because a side that changed nothing takes the other's. Then a
fast-forward push has the tip's objects, and a merge is all that is left.

`ShardInv` says what becomes of a shard. A job that commits has fixed its head; whatever its push
changes on its base is a removal of what the branch outgrew or a shard of its own that was
not on the branch yet (`ChangesAt`), and a rebase keeps it so, since a conflict stops the job and
what landed without the client knowing is in the base and is no longer a change. What a
publishing job owes is on the branch or was, or is in what it will push (`PublishedAt`); what a pruning job
owes is gone or will be (`PrunedAt`). The two green properties are these once the job is done;
the two action properties are `ChangesAt` at the push.

### Registry

`TypeOK` needs two additions: no version exceeds the number of edits (`Counted`), and a
fingerprint is put on a registry only (`Built`). For freshness the invariant says what a kept
snapshot is worth: it was read no earlier than its fingerprint was taken and no later than
now, and its outside file is what was last made known (`KeptInv`); so one whose fingerprint still
fits is as new as the files (`Fits`), whatever was edited while it was built. `QueueInv`
says that an invalidate on its way knows of no version that does not exist, and that one which names
workspaces makes nothing outside known; `LeastInv`, `PrintInv` and `RunInv` carry the same
through a run; `ObjectsInv` is `ObjectsMatchIndex` made inductive.

### Only model-checked

- Liveness: `EveryJobEnds`, `EveryIdSurfaces`, `EveryRunAnswered`, `EndsOnceClosed`, and
  `EndsOnceOutputFails`, which the code violates. They need fairness and ENABLED, which the prover
  does not handle.
- `OthersBindingsKept`, `LandsWhole` and the refinement for overlapping jobs: false in general, see
  above; what the run shows is that three attempts without a lost acknowledgement keep them.

## Plan

Done: the pipeline, its abstract specification, sharing, inflight shards, the registry, the
files of the ids, Sysdig and the server, each checked and with theorems for all their safety
properties. Left, the most important first:

1. Proofs: the refinement for overlapping jobs under a hypothesis weaker than the queue, namely
   that no retry moves another's commit (no lost acknowledgement and no state that
   becomes equal by itself), which would turn the bound of the run into a condition on what happens;
   shorter proofs where `ProductionDeploySafety` repeats a case per action.
2. `DeployPlan`: tenants, strategies, manual and listed tenants, deprecated rules; that the
   plan, the preview and the deployers agree.
3. `Promotion`: plan all, then write each, with a failure in the middle.

## Not modelled, and why

Rendering of pipelines, documents, schemas and queries; validation; parsing of rules:
functions of one document, better served by their unit tests; they are most of the
program's lines. HTTP details of the vendors beyond accepted, refused, repeated and unanswered.
The contents of rules. Authentication. The deployers that keep no id: each addresses a rule by its
name or uuid and upserts it. Defender's second create after an answer other than 201
(`platforms/defender_for_endpoint/client.py:252`) and CrowdStrike's delete of an id that is
gone (`platforms/crowdstrike/client.py:207`) are covered only as far as
`ProductionDeploy`'s unanswered create and refused delete go. Two commands in one
checkout at once: two writers of one shard share the fixed name of its temporary file
(`states/deployment.py:411`), and nothing in the code guards against it.
