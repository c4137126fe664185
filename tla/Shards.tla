------------------------------- MODULE Shards -------------------------------
(***************************************************************************)
(* Deployment state: the vendor rule id of every (rule, tenant) pair.       *)
(*                                                                         *)
(* A shard is the file .opentide/states/deployment/<uuid>.json of one rule; *)
(* it maps a platform and a tenant to the id the vendor gave the rule there. *)
(* A tenant of this model is a (platform, tenant name) pair, and a tree's   *)
(* whole state folder is one function from bindings to ids: a binding the   *)
(* function maps to NoId is absent, and a shard all of whose bindings are   *)
(* absent is a file that does not exist.                                    *)
(***************************************************************************)
EXTENDS Naturals

CONSTANTS
    Rules,      \* detection rules (metadata.uuid)
    Tenants,    \* (platform, tenant) pairs that store vendor ids
    MaxIds      \* bound: vendor ids handed out in one behaviour

ASSUME MaxIdsAssumption == MaxIds \in Nat

\* Vendors never hand out an id twice, so ids are numbered as they are made.
Ids == 1 .. MaxIds
NoId == 0
MaybeId == Ids \cup {NoId}

Bindings == Rules \X Tenants
BindingsOf(t) == {b \in Bindings : b[2] = t}

\* The contents of .opentide/states/deployment/ in one tree.
ShardMaps == [Bindings -> MaybeId]
NoShards == [b \in Bindings |-> NoId]

(***************************************************************************)
(* record_external_id and forget_external_id: load the rule's shard, change *)
(* one binding, save. Every other binding of the shard is written back as   *)
(* it was read.                                                            *)
(***************************************************************************)
Bind(shards, b, id) == [shards EXCEPT ![b] = id]
Unbind(shards, b) == [shards EXCEPT ![b] = NoId]
=============================================================================
