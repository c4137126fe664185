---------------------------- MODULE StateReplay ----------------------------
(***************************************************************************)
(* opentide.ci.state_replay: one commit's deployment-state changes applied  *)
(* to another tree, binding by binding, and the three-way merge git does of *)
(* the same trees when it rebases that commit.                              *)
(*                                                                         *)
(* base is the commit's parent, ours the commit, tip the tree the changes   *)
(* are applied to.                                                          *)
(***************************************************************************)
EXTENDS Shards

\* The bindings the commit added, changed or removed.
Delta(base, ours) == {b \in Bindings : base[b] # ours[b]}

\* replay(): the commit's bindings are set or removed, the others keep tip's.
\* Broken: the commit's folder is copied, or the tip's change wins a conflict.
CopyFolder(base, ours, tip) == ours
TheirsWin(base, ours, tip) ==
    [b \in Bindings |-> IF b \in Delta(base, ours) /\ tip[b] = base[b] THEN ours[b] ELSE tip[b]]
Replay(base, ours, tip) ==
    [b \in Bindings |-> IF b \in Delta(base, ours) THEN ours[b] ELSE tip[b]]

\* Bindings replay() reports as deployment_state_conflict.
\* Broken: a binding the commit added is not looked up on the tip.
ReportChangesOnly(base, ours, tip) ==
    {b \in Delta(base, ours) : base[b] # NoId /\ tip[b] \notin {base[b], ours[b]}}
ReplayConflicts(base, ours, tip) ==
    {b \in Delta(base, ours) : tip[b] \notin {base[b], ours[b]}}

(***************************************************************************)
(* git rebase --onto tip, for the shard files. Git merges a shard only when *)
(* both sides changed it; two changes of one binding to different ids always *)
(* conflict, and changes to different bindings of one shard may or may not, *)
(* since they can be adjacent lines of one small JSON file.                 *)
(***************************************************************************)
ChangedShards(base, other) == {r \in Rules : \E t \in Tenants : base[<<r, t>>] # other[<<r, t>>]}

MergesCleanly(base, ours, tip) == ReplayConflicts(base, ours, tip) = {}

ShardsMayConflict(base, ours, tip) ==
    \E r \in ChangedShards(base, ours) \cap ChangedShards(base, tip) :
        \E t \in Tenants : ours[<<r, t>>] # tip[<<r, t>>]
=============================================================================
