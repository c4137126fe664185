---------------------------- MODULE ExternalIds ----------------------------
(***************************************************************************)
(* opentide.deployment.external_ids: what a deployer does for one rule on   *)
(* one tenant, decided from the shard before any vendor call.               *)
(***************************************************************************)
EXTENDS Shards

\* StatusStrategy: what a rule's status maps to.
Strategies == {"INERT", "PREVIEW", "RELEASE", "UNIVERSAL", "DISABLEMENT", "DELETION"}
Deployable == {"PREVIEW", "RELEASE"}
Retiring == {"DISABLEMENT", "DELETION"}

\* deploys(): whether a run with one strategy acts on a rule with another.
\* Broken: a retired rule is retired by any run.
RetiredAnywhere(rule, run) == rule \in {run, "UNIVERSAL"} \cup Retiring /\ run \in Deployable
Deploys(rule, run) ==
    \/ rule \in {run, "UNIVERSAL"} /\ run \in Deployable
    \/ run = "RELEASE" /\ rule \in Retiring

(***************************************************************************)
(* A run: where it runs, the strategies it was started with, and whether    *)
(* --persist-state-externally was passed.                                   *)
(***************************************************************************)
Environments == {"local", "push", "change_request"}
Runs == [env : Environments, strategies : SUBSET Deployable, persists : BOOLEAN]

\* Tenant.accepts, for a tenant that lists both strategies.
Accepts(rule, run) == \E s \in run.strategies : Deploys(rule, s)

\* unpersisted_error: an id this run was given would die with the runner.
Unpersisted(run) ==
    /\ ~run.persists
    /\ run.env # "local"
    /\ run.env = "change_request" \/ "RELEASE" \notin run.strategies

Calls == {"create", "update", "delete"}
Codes == {"external_id_in_rule", "external_id_missing",
          "deployment_state_ignored", "deployment_state_unpersisted"}

Act(kind, id) == [kind |-> kind, id |-> id]
Refuse(code) == [kind |-> code, id |-> NoId]

Decisions == [kind : Calls \cup Codes, id : MaybeId]

\* external_id_missing skips the rule with a warning; the other codes fail the run.
IsCall(decision) == decision.kind \in Calls
FailsRun(decision) == decision.kind \in Codes \ {"external_id_missing"}

(***************************************************************************)
(* plan_external_id. legacy: the authored rule still carries a vendor id;   *)
(* entry: the shard's id for the tenant; ignored: git ignores the shards.   *)
(***************************************************************************)
PlanExternalId(legacy, entry, strategy, ignored, run) ==
    CASE legacy -> Refuse("external_id_in_rule")
      [] ~legacy /\ entry # NoId ->
            Act(IF strategy = "DELETION" THEN "delete" ELSE "update", entry)
      [] ~legacy /\ entry = NoId /\ strategy \in Retiring -> Refuse("external_id_missing")
      [] ~legacy /\ entry = NoId /\ strategy \notin Retiring ->
            IF ignored THEN Refuse("deployment_state_ignored")
            ELSE IF Unpersisted(run) THEN Refuse("deployment_state_unpersisted")
            ELSE Act("create", NoId)
=============================================================================
