------------------------------- MODULE Inflight -------------------------------
(***************************************************************************)
(* The preview shards of open change requests on the default branch.        *)
(*                                                                         *)
(* A change request's pipeline copies the default branch's shards, writes   *)
(* one per object the request changes and pushes them to the default        *)
(* branch, from a commit on the branch and never on the request. A merge's  *)
(* pipeline removes the shards the merged objects supersede and pushes      *)
(* that. All these jobs race to one branch: a rejected push is rebased onto *)
(* the new tip and tried again, a bounded number of times.                  *)
(***************************************************************************)
EXTENDS Naturals

CONSTANTS
    Objects,        \* uuids of the catalogue
    Requests,       \* pull or merge requests
    MaxJobs,        \* bound: pipelines triggered, by pushes to a request and by merges
    MaxVersion,     \* bound: metadata.version
    PushAttempts,   \* PUSH_ATTEMPTS
    LostAcks        \* bound: pushes that land although the client saw a failure

ASSUME InflightAssumption ==
    /\ MaxJobs \in Nat /\ MaxVersion \in Nat \ {0}
    /\ PushAttempts \in Nat \ {0} /\ LostAcks \in Nat

Jobs == 1 .. MaxJobs

VARIABLES
    tip,        \* the default branch: objects, shards, and how many commits it has
    state,      \* state[p]: of a request
    edits,      \* edits[p]: the version its head gives each object it changes
    fork,       \* fork[p]: the tree it branched from
    triggered,  \* jobs so far
    kind,       \* kind[j]: what the job does
    request,    \* the request whose push triggered it
    head,       \* the edits it checked out; once generated, the versions of the shards it wrote
    start,      \* the commit of the default branch it started from
    onto,       \* the commit of the default branch its HEAD sits on
    work,       \* its HEAD
    step,
    attempt,    \* push_attempt
    acksLost,
    seen,       \* history: every shard that was on the default branch
    newest      \* history: the highest version of each object there

branchVars == <<tip, seen, newest>>
requestVars == <<state, edits, fork>>
jobVars == <<triggered, kind, request, head, start, onto, work, step, attempt, acksLost>>
vars == <<branchVars, requestVars, jobVars>>

-----------------------------------------------------------------------------
Versions == 0 .. MaxVersion         \* 0: the object is not there
Edits == [Objects -> Versions]
NoEdits == [o \in Objects |-> 0]
Changed(h) == {o \in Objects : h[o] # 0}

\* Two shards of an object differ at least in written_at: the job names the shard.
NoShard == 0
Folders == [Objects -> Jobs \cup {NoShard}]
NoFolder == [o \in Objects |-> NoShard]

Trees == [objects : Edits, shards : Folders]
Commits == [objects : Edits, shards : Folders, at : Nat]
Tree(c) == [objects |-> c.objects, shards |-> c.shards]
Root == [objects |-> NoEdits, shards |-> NoFolder, at |-> 0]

Active == {"queued", "generating", "pushing", "retrying"}
Steps == Active \cup {"none", "ok", "failed"}

TypeOK ==
    /\ tip \in Commits
    /\ state \in [Requests -> {"none", "open", "merged"}]
    /\ edits \in [Requests -> Edits]
    /\ fork \in [Requests -> Trees]
    /\ triggered \in 0 .. MaxJobs
    /\ kind \in [Jobs -> {"none", "publish", "prune"}]
    /\ request \in [Jobs -> Requests]
    /\ head \in [Jobs -> Edits]
    /\ start \in [Jobs -> Commits]
    /\ onto \in [Jobs -> Commits]
    /\ work \in [Jobs -> Trees]
    /\ step \in [Jobs -> Steps]
    /\ attempt \in [Jobs -> 1 .. PushAttempts]
    /\ acksLost \in 0 .. LostAcks
    /\ seen \subseteq Objects \X Jobs
    /\ newest \in Edits

Init ==
    /\ tip = Root
    /\ state = [p \in Requests |-> "none"]
    /\ edits = [p \in Requests |-> NoEdits]
    /\ fork = [p \in Requests |-> Tree(Root)]
    /\ triggered = 0
    /\ kind = [j \in Jobs |-> "none"]
    /\ \E p \in Requests : request = [j \in Jobs |-> p]
    /\ head = [j \in Jobs |-> NoEdits]
    /\ start = [j \in Jobs |-> Root]
    /\ onto = [j \in Jobs |-> Root]
    /\ work = [j \in Jobs |-> Tree(Root)]
    /\ step = [j \in Jobs |-> "none"]
    /\ attempt = [j \in Jobs |-> 1]
    /\ acksLost = 0
    /\ seen = {}
    /\ newest = NoEdits

-----------------------------------------------------------------------------
\* The edits h over the objects of a tree.
Over(objects, h) == [o \in Objects |-> IF h[o] # 0 THEN h[o] ELSE objects[o]]

\* What the default branch has had, once its tip is c.
Moves(c) ==
    /\ tip' = c
    /\ seen' = seen \cup {<<o, c.shards[o]>> : o \in {x \in Objects : c.shards[x] # NoShard}}
    /\ newest' = [o \in Objects |-> IF c.objects[o] > newest[o] THEN c.objects[o] ELSE newest[o]]

\* A pipeline of kind k is triggered on the edits h, or on the commit c.
Triggers(k, p, h, c) ==
    /\ triggered < MaxJobs
    /\ triggered' = triggered + 1
    /\ kind' = [kind EXCEPT ![triggered'] = k]
    /\ request' = [request EXCEPT ![triggered'] = p]
    /\ head' = [head EXCEPT ![triggered'] = h]
    /\ start' = [start EXCEPT ![triggered'] = c]
    /\ step' = [step EXCEPT ![triggered'] = "queued"]
    /\ UNCHANGED <<onto, work, attempt, acksLost>>

\* A request is opened, or its author pushes to it.
PushToRequest(p) ==
    /\ state[p] # "merged"
    /\ state' = [state EXCEPT ![p] = "open"]
    /\ fork' = [fork EXCEPT ![p] = IF state[p] = "none" THEN Tree(tip) ELSE @]
    /\ \E h \in Edits \ {NoEdits, edits[p]} :
          /\ edits' = [edits EXCEPT ![p] = h]
          /\ Triggers("publish", p, h, Root)
    /\ UNCHANGED branchVars

\* A request is merged, whether or not its pipelines are over.
Merge(p) ==
    /\ state[p] = "open"
    /\ state' = [state EXCEPT ![p] = "merged"]
    /\ Moves([objects |-> Over(tip.objects, edits[p]), shards |-> tip.shards, at |-> tip.at + 1])
    /\ Triggers("prune", p, NoEdits, tip')
    /\ UNCHANGED <<edits, fork>>

-----------------------------------------------------------------------------
\* git diff --staged --quiet
\* Broken: the test is read the wrong way round.
SomethingStaged(tree, base) == tree # Tree(base)
NothingStaged(tree, base) == tree = Tree(base)

\* Commit tree on base, or stop when it stages nothing.
CommitAndPush(j, tree, base) ==
    /\ work' = [work EXCEPT ![j] = tree]
    /\ onto' = [onto EXCEPT ![j] = base]
    /\ step' = [step EXCEPT ![j] = IF NothingStaged(tree, base) THEN "ok" ELSE "pushing"]

\* The folder the job fills: the default branch's, exactly.
\* Broken: laid over the request's own copy, which keeps what was pruned since.
OverlaidFolder(j) ==
    [o \in Objects |-> IF tip.shards[o] = NoShard THEN fork[request[j]].shards[o] ELSE tip.shards[o]]
BaseFolder(j) == tip.shards

\* Checkout of the request, then fetch of the default branch. GitHub checks out
\* the request's branch, GitLab and Azure the commit that triggered the job.
TakeBase(j) ==
    /\ kind[j] = "publish" /\ step[j] = "queued"
    /\ \E h \in {head[j], edits[request[j]]} : head' = [head EXCEPT ![j] = h]
    /\ start' = [start EXCEPT ![j] = tip]
    /\ work' = [work EXCEPT ![j] = [objects |-> tip.objects, shards |-> BaseFolder(j)]]
    /\ step' = [step EXCEPT ![j] = "generating"]
    /\ UNCHANGED <<branchVars, requestVars, triggered, kind, request, onto, attempt, acksLost>>

\* The commit the worktree is made of: the one the shards were copied from.
\* Broken: the tip that generate has fetched meanwhile, or the request's head.
OntoTip(j) == tip
OntoRequest(j) == [start[j] EXCEPT !.objects = Over(@, head[j])]
Worktree(j) == start[j]

(***************************************************************************)
(* changed_object_yaml_paths: the objects the request's diff lists. It may   *)
(* be of a newer head than the one checked out: GitHub's is of origin's      *)
(* branch. A diff that fails is not an error: the checkout is compared with  *)
(* the default branch instead, which lists the same objects, or none if git  *)
(* finds no baseline or finds the request merged.                           *)
(***************************************************************************)
Diffs(j) == {Changed(head[j]), Changed(edits[request[j]]), {}}

\* The objects of the checkout: the request's.
Checkout(j) == Over(fork[request[j]].objects, head[j])

\* One shard per object listed; a listed file that is not checked out is an error (Stops).
Publish(j) ==
    /\ step[j] = "generating"
    /\ \E written \in Diffs(j) :
          /\ \A o \in written : Checkout(j)[o] # 0
          /\ head' = [head EXCEPT ![j] =
                         [o \in Objects |-> IF o \in written THEN Checkout(j)[o] ELSE 0]]
          /\ CommitAndPush(j,
                [objects |-> Worktree(j).objects,
                 shards  |-> [o \in Objects |-> IF o \in written THEN j ELSE work[j].shards[o]]],
                Worktree(j))
    /\ UNCHANGED <<branchVars, requestVars, triggered, kind, request, start, attempt, acksLost>>

\* prune_inflight_shards, in a checkout of the merge.
\* Broken: a shard newer than the merged object goes too; one of the merged version
\* itself is kept.
AnyVersion(c, o) == c.shards[o] # NoShard /\ c.objects[o] # 0
OlderOnly(c, o) ==
    c.shards[o] # NoShard /\ c.objects[o] # 0 /\ c.objects[o] > head[c.shards[o]][o]
Superseded(c, o) ==
    c.shards[o] # NoShard /\ c.objects[o] # 0 /\ c.objects[o] >= head[c.shards[o]][o]

Prune(j) ==
    /\ kind[j] = "prune" /\ step[j] = "queued"
    /\ CommitAndPush(j,
          [objects |-> start[j].objects,
           shards  |-> [o \in Objects |-> IF Superseded(start[j], o) THEN NoShard
                                                                     ELSE start[j].shards[o]]],
          start[j])
    /\ UNCHANGED <<branchVars, requestVars, triggered, kind, request, head, start, attempt,
                   acksLost>>

-----------------------------------------------------------------------------
\* HEAD as a commit of the default branch; git finds an empty one up to date.
Pushed(j) ==
    IF work[j] = Tree(onto[j])
    THEN onto[j]
    ELSE [objects |-> work[j].objects, shards |-> work[j].shards, at |-> onto[j].at + 1]

FastForwards(j) == onto[j].at = tip.at

PushAccepted(j) ==
    /\ step[j] = "pushing"
    /\ FastForwards(j)
    /\ Moves(Pushed(j))
    /\ step' = [step EXCEPT ![j] = "ok"]
    /\ UNCHANGED <<requestVars, triggered, kind, request, head, start, onto, work, attempt,
                   acksLost>>

\* The loop's test before another attempt.
MayRetry(j) == attempt[j] < PushAttempts

Refused(j) ==
    IF MayRetry(j)
    THEN /\ step' = [step EXCEPT ![j] = "retrying"]
         /\ attempt' = [attempt EXCEPT ![j] = @ + 1]
    ELSE /\ step' = [step EXCEPT ![j] = "failed"]
         /\ UNCHANGED attempt

\* Another job moved the branch. (A push that fails for another reason and lands
\* nothing uses up an attempt, and nothing else.)
PushRejected(j) ==
    /\ step[j] = "pushing"
    /\ ~FastForwards(j)
    /\ Refused(j)
    /\ UNCHANGED <<branchVars, requestVars, triggered, kind, request, head, start, onto, work,
                   acksLost>>

\* HEAD lands and is now a commit of the branch, and the client does not know.
PushUnacknowledged(j) ==
    /\ step[j] = "pushing"
    /\ FastForwards(j) /\ work[j] # Tree(onto[j])
    /\ acksLost < LostAcks
    /\ acksLost' = acksLost + 1
    /\ Moves(Pushed(j))
    /\ onto' = [onto EXCEPT ![j] = Pushed(j)]
    /\ Refused(j)
    /\ UNCHANGED <<requestVars, triggered, kind, request, head, start, work>>

(***************************************************************************)
(* git rebase FETCH_HEAD: each file is merged three ways. A shard both      *)
(* sides changed conflicts: they differ at least in written_at.             *)
(***************************************************************************)
Merged(base, mine, theirs) == [o \in Objects |-> IF mine[o] # base[o] THEN mine[o] ELSE theirs[o]]

Conflict(base, mine, theirs) ==
    \E o \in Objects : mine[o] # base[o] /\ theirs[o] # base[o] /\ mine[o] # theirs[o]

Rebase(j) ==
    /\ step[j] = "retrying"
    /\ ~Conflict(onto[j].shards, work[j].shards, tip.shards)
    /\ work' = [work EXCEPT ![j] =
                   [objects |-> Merged(onto[j].objects, @.objects, tip.objects),
                    shards  |-> Merged(onto[j].shards, @.shards, tip.shards)]]
    /\ onto' = [onto EXCEPT ![j] = tip]
    /\ step' = [step EXCEPT ![j] = "pushing"]
    /\ UNCHANGED <<branchVars, requestVars, triggered, kind, request, head, start, attempt,
                   acksLost>>

\* Under set -e a failed rebase, fetch or command ends the job; so does its runner.
\* A failed diff does not fail the command (Diffs).
Stops(j) ==
    /\ step[j] \in Active
    /\ step' = [step EXCEPT ![j] = "failed"]
    /\ UNCHANGED <<branchVars, requestVars, triggered, kind, request, head, start, onto, work,
                   attempt, acksLost>>

-----------------------------------------------------------------------------
Job(j) ==
    \/ TakeBase(j) \/ Publish(j) \/ Prune(j)
    \/ PushAccepted(j) \/ PushRejected(j) \/ PushUnacknowledged(j)
    \/ Rebase(j) \/ Stops(j)

\* Every job is over, and nothing can trigger another.
Settled ==
    /\ triggered = MaxJobs \/ \A p \in Requests : state[p] = "merged"
    /\ \A j \in Jobs : step[j] \notin Active
    /\ UNCHANGED vars

Next ==
    \/ \E p \in Requests : PushToRequest(p) \/ Merge(p)
    \/ \E j \in Jobs : Job(j)
    \/ Settled

Spec == Init /\ [][Next]_vars

-----------------------------------------------------------------------------
(***************************************************************************)
(* Properties.                                                              *)
(***************************************************************************)

(***************************************************************************)
(* A job's push never carries anything of a request but shards: an object   *)
(* of the default branch changes only when the request that changes it is   *)
(* merged.                                                                  *)
(***************************************************************************)
OnlyMergesChangeObjects ==
    [][\A o \in Objects : tip'.objects[o] # tip.objects[o] =>
          \E p \in Requests : /\ state[p] = "open" /\ state'[p] = "merged"
                             /\ tip'.objects[o] = edits[p][o]]_vars

(***************************************************************************)
(* However jobs overlap and retry, a shard on the default branch is only    *)
(* replaced by the job of a request that changes the same object, and only  *)
(* removed once the default branch has had that object at the shard's       *)
(* version or a later one.                                                  *)
(***************************************************************************)
OthersShardsKept ==
    [][\A o \in Objects : tip'.shards[o] # tip.shards[o] =>
          IF tip'.shards[o] = NoShard
          THEN newest[o] >= head[tip.shards[o]][o]
          ELSE LET j == tip'.shards[o]
               IN step[j] = "pushing" /\ head[j][o] # 0]_vars

(***************************************************************************)
(* A shard that left the default branch, pruned or replaced, never comes    *)
(* back, although jobs go on that copied the folder before.                 *)
(***************************************************************************)
GoneStaysGone ==
    [][\A o \in Objects :
          tip'.shards[o] \notin {NoShard, tip.shards[o]} => <<o, tip'.shards[o]>> \notin seen]_vars

(***************************************************************************)
(* A publishing job that ends green had every shard it wrote on the default *)
(* branch.                                                                  *)
(***************************************************************************)
GreenIsPublished ==
    \A j \in Jobs : kind[j] = "publish" /\ step[j] = "ok" =>
        \A o \in Changed(head[j]) : <<o, j>> \in seen

(***************************************************************************)
(* When a merge's pruning job ends green, none of the shards its merge had  *)
(* superseded is on the default branch, or will be again: each was of the   *)
(* merged version or older.                                                 *)
(***************************************************************************)
GreenIsPruned ==
    \A j \in Jobs : kind[j] = "prune" /\ step[j] = "ok" =>
        \A o \in Objects :
            LET shard == start[j].shards[o]
            IN (shard # NoShard /\ start[j].objects[o] # 0
                   /\ start[j].objects[o] >= head[shard][o]) => tip.shards[o] # shard
=============================================================================
