---------------------------- MODULE SysdigDeploy ----------------------------
(***************************************************************************)
(* opentide deploy on the tenants of Sysdig Secure, run after run.          *)
(*                                                                         *)
(* A rule alerts when a runtime policy names it, so a deploy is a sequence  *)
(* of calls: the rule itself, its id into the shard, then each policy, read  *)
(* and written back. Any call may be refused, which fails the rule, or       *)
(* fail, carried out or not, which fails the tenant; a stopped deploy leaves *)
(* what it did so far. In the console people edit policies at any time.      *)
(*                                                                         *)
(* What becomes of each rule is what its scope reports to the deploy log.    *)
(***************************************************************************)
EXTENDS Naturals, FiniteSets

CONSTANTS
    Rules,          \* rules with a sysdig block
    Tunings,        \* those that append to a rule of the tenant
    Tenants,
    Policies,       \* names of runtime policies
    MaxIds,         \* bound: rules Sysdig makes on a tenant
    MaxMerges,      \* bound: changes of a rule
    MaxRuns,        \* bound: deploys
    MaxFaults,      \* bound: calls that are refused, fail or are retried
    MaxConsole      \* bound: edits in the console

ASSUME SysdigAssumption ==
    /\ Tunings \subseteq Rules
    /\ {MaxIds, MaxMerges, MaxRuns, MaxFaults, MaxConsole} \subseteq Nat
    /\ "none" \notin Rules \cup Tenants /\ "console" \notin Rules

VARIABLES
    want,       \* want[r]: what the rule's block asks
    shard,      \* shard[t][r]: the id in the rule's shard
    remote,     \* remote[t][id]: the rules of the tenant
    policy,     \* policy[t][p]: the policies of the tenant
    creates,    \* the run may keep the id of a create
    left,       \* tenants the run has not come to
    tenant,
    plan,       \* plan[r]: what screen_tenant decided
    rule,
    stage,      \* the call the deploy is at
    purpose,    \* what the policies are listed for
    listed,     \* listed[p]: names of a policy, as listed, that is to be changed
    old,        \* remote.get("name")
    answer,     \* the id in a create's answer
    marked,     \* the scope is failed
    outcome,    \* outcome[t][r]: DeployLog.results
    reports,    \* history: reports[t][r] counts the results of a rule
    error,      \* DEPLOYMENT_ERROR_RAISED
    lost,       \* history: ids that a run was not told of, or could not record
    merges, runs, faults, console

runVars == <<creates, left, tenant, plan, rule, stage, purpose, listed, old, answer, marked>>
logVars == <<outcome, reports, error>>
counters == <<merges, runs, faults, console>>
vars == <<want, shard, remote, policy, runVars, logVars, lost, counters>>

-----------------------------------------------------------------------------
NoRule == "none"
NoTenant == "none"
Ids == 1 .. MaxIds
NoId == 0
Revisions == 0 .. MaxMerges
\* The name of a rule changes when a merge renames it; the others are the console's.
Names == Rules \X Revisions
ConsoleNames == {<<"console", 0>>}
Strategies == {"deploy", "disable", "delete"}
Kinds == {"none", "create", "update", "delete"}
Outcomes == {"none", "deployed", "failed", "skipped", "not_attempted"}
Stages == {"idle", "tenant", "rule", "post", "record", "get", "put", "delete", "forget",
           "list", "policy"}
Purposes == {"none", "rename", "join", "leave", "retire"}

Gone == [of |-> NoRule, name |-> <<"none", 0>>]
RemoteRules == [of : Rules, name : Names] \cup {Gone}

TypeOK ==
    /\ want \in [Rules -> [strategy : Strategies, name : Names, policies : SUBSET Policies]]
    /\ \A r \in Rules : want[r].name[1] = r /\ (r \in Tunings => want[r].policies = {})
    /\ shard \in [Tenants -> [Rules -> Ids \cup {NoId}]]
    /\ remote \in [Tenants -> [Ids -> RemoteRules]]
    /\ policy \in [Tenants -> [Policies -> [exists : BOOLEAN,
                                            names : SUBSET (Names \cup ConsoleNames)]]]
    /\ creates \in BOOLEAN /\ left \subseteq Tenants /\ tenant \in Tenants \cup {NoTenant}
    /\ plan \in [Rules -> Kinds] /\ rule \in Rules \cup {NoRule}
    /\ stage \in Stages /\ purpose \in Purposes
    /\ DOMAIN listed \subseteq Policies
    /\ \A p \in DOMAIN listed : listed[p] \subseteq Names \cup ConsoleNames
    /\ old \in Names \cup {Gone.name} /\ answer \in Ids \cup {NoId} /\ marked \in BOOLEAN
    /\ outcome \in [Tenants -> [Rules -> Outcomes]]
    /\ reports \in [Tenants -> [Rules -> 0 .. 1]] /\ error \in BOOLEAN
    /\ lost \in [Tenants -> SUBSET Ids]
    /\ merges \in 0 .. MaxMerges /\ runs \in 0 .. MaxRuns
    /\ faults \in 0 .. MaxFaults /\ console \in 0 .. MaxConsole

Nothing == [p \in {} |-> {}]

Init ==
    /\ want = [r \in Rules |-> [strategy |-> "deploy", name |-> <<r, 0>>,
                              policies |-> IF r \in Tunings THEN {} ELSE Policies]]
    /\ shard = [t \in Tenants |-> [r \in Rules |-> NoId]]
    /\ remote = [t \in Tenants |-> [id \in Ids |-> Gone]]
    /\ policy = [t \in Tenants |-> [p \in Policies |-> [exists |-> TRUE, names |-> ConsoleNames]]]
    /\ creates = FALSE /\ left = {} /\ tenant = NoTenant
    /\ plan = [r \in Rules |-> "none"] /\ rule = NoRule
    /\ stage = "idle" /\ purpose = "none" /\ listed = Nothing
    /\ old = Gone.name /\ answer = NoId /\ marked = FALSE
    /\ outcome = [t \in Tenants |-> [r \in Rules |-> "none"]]
    /\ reports = [t \in Tenants |-> [r \in Rules |-> 0]] /\ error = FALSE
    /\ lost = [t \in Tenants |-> {}]
    /\ merges = 0 /\ runs = 0 /\ faults = 0 /\ console = 0

-----------------------------------------------------------------------------
(***************************************************************************)
(* People.                                                                 *)
(***************************************************************************)
\* A merge gives a rule another status, name or list of policies. A tuning has the
\* name and the policies of the rule it appends to.
Merge(r, strategy, renamed, named) ==
    /\ stage = "idle" /\ merges < MaxMerges
    /\ r \in Tunings => ~renamed /\ named = {}
    /\ merges' = merges + 1
    /\ want' = [want EXCEPT ![r] = [strategy |-> strategy, policies |-> named,
                                    name |-> IF renamed THEN <<r, merges + 1>> ELSE @.name]]
    /\ UNCHANGED <<shard, remote, policy, runVars, logVars, lost, runs, faults, console>>

Console ==
    /\ console < MaxConsole
    /\ console' = console + 1
    /\ UNCHANGED <<want, shard, runVars, logVars, lost, merges, runs, faults>>

\* Somebody puts a rule of theirs into a policy, or takes it out.
ConsoleEditsPolicy(t, p) ==
    /\ Console
    /\ policy[t][p].exists
    /\ \E names \in SUBSET ConsoleNames :
          /\ names # policy[t][p].names \cap ConsoleNames
          /\ policy' = [policy EXCEPT ![t][p].names = (@ \ ConsoleNames) \cup names]
    /\ UNCHANGED remote

\* Between two runs somebody deletes a rule or a policy.
ConsoleDeletesRule(t, id) ==
    /\ stage = "idle" /\ Console
    /\ remote[t][id] # Gone
    /\ remote' = [remote EXCEPT ![t][id] = Gone]
    /\ UNCHANGED policy

ConsoleDeletesPolicy(t, p) ==
    /\ stage = "idle" /\ Console
    /\ policy[t][p].exists
    /\ policy' = [policy EXCEPT ![t][p] = [exists |-> FALSE, names |-> {}]]
    /\ UNCHANGED remote

-----------------------------------------------------------------------------
(***************************************************************************)
(* A run: tenant after tenant, each planned against the shards before its    *)
(* client exists.                                                          *)
(***************************************************************************)
StartRun(may) ==
    /\ stage = "idle" /\ runs < MaxRuns
    /\ runs' = runs + 1
    /\ creates' = may
    /\ left' = Tenants
    /\ stage' = "tenant"
    /\ outcome' = [t \in Tenants |-> [r \in Rules |-> "none"]]
    /\ reports' = [t \in Tenants |-> [r \in Rules |-> 0]]
    /\ error' = FALSE
    /\ UNCHANGED <<want, shard, remote, policy, tenant, plan, rule, purpose, listed, old, answer,
                   marked, lost, merges, faults, console>>

Decision(t, r) ==
    CASE shard[t][r] # NoId /\ want[r].strategy = "delete" -> "delete"
      [] shard[t][r] # NoId /\ want[r].strategy # "delete" -> "update"
      [] shard[t][r] = NoId /\ want[r].strategy # "deploy" -> "skipped"
      [] shard[t][r] = NoId /\ want[r].strategy = "deploy" ->
            IF creates THEN "create" ELSE "failed"

ScreenTenant(t) ==
    LET reported(r) == Decision(t, r) \in {"skipped", "failed"} IN
    /\ stage = "tenant" /\ t \in left
    /\ left' = left \ {t}
    /\ tenant' = t
    /\ plan' = [r \in Rules |-> IF reported(r) THEN "none" ELSE Decision(t, r)]
    /\ outcome' = [outcome EXCEPT ![t] = [r \in Rules |-> IF reported(r) THEN Decision(t, r)
                                                          ELSE "none"]]
    /\ reports' = [reports EXCEPT ![t] = [r \in Rules |-> IF reported(r) THEN 1 ELSE 0]]
    /\ error' = (error \/ \E r \in Rules : Decision(t, r) = "failed")
    /\ stage' = "rule"
    /\ UNCHANGED <<want, shard, remote, policy, creates, rule, purpose, listed, old, answer,
                   marked, lost, counters>>

TenantDone ==
    /\ stage = "rule"
    /\ \A r \in Rules : plan[r] = "none"
    /\ stage' = "tenant"
    /\ tenant' = NoTenant
    /\ UNCHANGED <<want, shard, remote, policy, creates, left, plan, rule, purpose, listed, old,
                   answer, marked, logVars, lost, counters>>

\* DeployLog.settle: what has no result after a failure was never attempted.
\* Broken: it has none still.
Unheard(found) == found = "none"
Unsettled(found) == found
Settled(found) == IF Unheard(found) THEN "not_attempted" ELSE found

EndRun ==
    /\ stage = "tenant" /\ left = {}
    /\ outcome' = [t \in Tenants |-> [r \in Rules |-> Settled(outcome[t][r])]]
    /\ reports' = [t \in Tenants |-> [r \in Rules |->
                      IF Unheard(outcome[t][r]) THEN reports[t][r] + 1 ELSE reports[t][r]]]
    /\ stage' = "idle"
    /\ creates' = FALSE
    /\ UNCHANGED <<want, shard, remote, policy, left, tenant, plan, rule, purpose, listed,
                   old, answer, marked, error, lost, counters>>

\* The runner stops, at any call.
Killed ==
    /\ stage # "idle" /\ faults < MaxFaults
    /\ faults' = faults + 1
    /\ lost' = IF answer = NoId THEN lost ELSE [lost EXCEPT ![tenant] = @ \cup {answer}]
    /\ creates' = FALSE /\ left' = {} /\ tenant' = NoTenant
    /\ plan' = [r \in Rules |-> "none"] /\ rule' = NoRule
    /\ stage' = "idle" /\ purpose' = "none" /\ listed' = Nothing
    /\ old' = Gone.name /\ answer' = NoId /\ marked' = FALSE
    /\ outcome' = [t \in Tenants |-> [r \in Rules |-> "none"]]
    /\ reports' = [t \in Tenants |-> [r \in Rules |-> 0]]
    /\ error' = TRUE
    /\ UNCHANGED <<want, shard, remote, policy, merges, runs, console>>

-----------------------------------------------------------------------------
(***************************************************************************)
(* One rule: deploy_api, inside its scope.                                  *)
(***************************************************************************)
Tuning == rule \in Tunings
Named == want[rule].policies
Name == want[rule].name
Bound == shard[tenant][rule]
Wants(strategy) == want[rule].strategy = strategy

worldVars == <<want, shard, remote, policy, lost, counters>>
placeVars == <<creates, left, tenant>>

\* RuleScope.__exit__: the result, failed if the scope was marked.
Leaves(failed) ==
    /\ plan' = [plan EXCEPT ![rule] = "none"]
    /\ outcome' = [outcome EXCEPT ![tenant][rule] = IF failed THEN "failed" ELSE "deployed"]
    /\ reports' = [reports EXCEPT ![tenant][rule] = @ + 1]
    /\ error' = (error \/ failed)
    /\ rule' = NoRule /\ stage' = "rule" /\ purpose' = "none" /\ listed' = Nothing
    /\ old' = Gone.name /\ answer' = NoId /\ marked' = FALSE

\* The deploy goes on to the next call.
GoesTo(next) ==
    /\ stage' = next
    /\ UNCHANGED <<plan, rule, listed, logVars>>

\* The policies are read, unless the rule names none.
ListsFor(why, failed) ==
    \/ /\ Named # {}
       /\ GoesTo("list")
       /\ purpose' = why /\ marked' = failed /\ answer' = NoId
       /\ UNCHANGED old
    \/ Named = {} /\ Leaves(failed)

Begin(r) ==
    /\ stage = "rule" /\ plan[r] # "none"
    /\ rule' = r
    /\ purpose' = IF plan[r] = "delete" THEN "retire" ELSE "none"
    /\ stage' = CASE plan[r] = "create" -> "post"
                  [] plan[r] = "update" -> "get"
                  [] plan[r] = "delete" ->
                        IF want[r].policies = {} THEN "delete" ELSE "list"
    /\ UNCHANGED <<worldVars, placeVars, plan, listed, old, answer, marked, logVars>>

(***************************************************************************)
(* Create and record. An id is new when nothing refers to it.               *)
(***************************************************************************)
Unused(t) == {id \in Ids : /\ remote[t][id] = Gone /\ id \notin lost[t]
                           /\ \A r \in Rules : shard[t][r] # id}
NextId == CHOOSE id \in Unused(tenant) : \A other \in Unused(tenant) : id <= other
Made == [of |-> rule, name |-> Name]

CreateRule ==
    /\ stage = "post" /\ Unused(tenant) # {}
    /\ remote' = [remote EXCEPT ![tenant][NextId] = Made]
    /\ answer' = NextId
    /\ GoesTo("record")
    /\ UNCHANGED <<want, shard, policy, lost, counters, placeVars, purpose, old, marked>>

\* record_created. Broken: an id that is there stays.
KeepsFirst(id) == IF Bound # NoId THEN Bound ELSE id
Recorded(id) == id

RecordCreated ==
    /\ stage = "record"
    /\ shard' = [shard EXCEPT ![tenant][rule] = Recorded(answer)]
    /\ ListsFor("join", FALSE)
    /\ UNCHANGED <<want, remote, policy, lost, counters, placeVars>>

(***************************************************************************)
(* Read and update. A rule that is gone is made again, if a create may be    *)
(* kept, and forgotten if it was to be disabled.                           *)
(***************************************************************************)
MayRecreate == creates

ReadRule ==
    /\ stage = "get"
    /\ remote[tenant][Bound] # Gone
    /\ old' = remote[tenant][Bound].name
    /\ GoesTo(IF Wants("disable") /\ Tuning THEN "delete" ELSE "put")
    /\ UNCHANGED <<worldVars, placeVars, purpose, answer, marked>>

RuleMissing ==
    /\ stage = "get"
    /\ remote[tenant][Bound] = Gone
    /\ Wants("disable") \/ MayRecreate
    /\ GoesTo(IF Wants("disable") THEN "forget" ELSE "post")
    /\ UNCHANGED <<worldVars, placeVars, purpose, old, answer, marked>>

RecreateRefused ==
    /\ stage = "get"
    /\ remote[tenant][Bound] = Gone
    /\ ~(Wants("disable") \/ MayRecreate)
    /\ Leaves(TRUE)
    /\ UNCHANGED <<worldVars, placeVars>>

Last == IF Wants("disable") THEN "leave" ELSE "join"

UpdateRule ==
    /\ stage = "put"
    /\ remote' = [remote EXCEPT ![tenant][Bound] = Made]
    /\ ListsFor(IF old # Name THEN "rename" ELSE Last, FALSE)
    /\ UNCHANGED <<want, shard, policy, lost, counters, placeVars>>

\* delete_rule: a rule that is gone is deleted as well.
DeleteRule ==
    /\ stage = "delete"
    /\ remote' = [remote EXCEPT ![tenant][Bound] = Gone]
    /\ GoesTo("forget")
    /\ UNCHANGED <<want, shard, policy, lost, counters, placeVars, purpose, old, answer, marked>>

Forget ==
    /\ stage = "forget"
    /\ shard' = [shard EXCEPT ![tenant][rule] = NoId]
    /\ Leaves(FALSE)
    /\ UNCHANGED <<want, remote, policy, lost, counters, placeVars>>

(***************************************************************************)
(* Policies: all that are named are listed, then each that has to change is  *)
(* written back. Leaving is broken when it takes the name of before.        *)
(***************************************************************************)
WithoutOld(names) == names \ {old}
Without(names) == names \ {Name}

Changed(names) ==
    CASE purpose = "rename" -> IF old \in names THEN (names \ {old}) \cup {Name} ELSE names
      [] purpose = "join" -> names \cup {Name}
      [] OTHER -> Without(names)

ListPolicies ==
    LET names(p) == policy[tenant][p].names IN
    /\ stage = "list"
    /\ \A p \in Named : policy[tenant][p].exists
    /\ listed' = [p \in {q \in Named : Changed(names(q)) # names(q)} |-> names(p)]
    /\ stage' = "policy"
    /\ UNCHANGED <<worldVars, placeVars, plan, rule, purpose, old, answer, marked, logVars>>

PolicyMissing ==
    /\ stage = "list"
    /\ \E p \in Named : ~policy[tenant][p].exists
    /\ Leaves(TRUE)
    /\ UNCHANGED <<worldVars, placeVars>>

\* Sysdig takes a policy only in the version that was read. Broken: the body has none.
AnyVersion(p) == TRUE
Accepts(p) == policy[tenant][p].names = listed[p]

Written(p) == [policy EXCEPT ![tenant][p].names = Changed(listed[p])]

UpdatePolicy(p) ==
    /\ stage = "policy" /\ p \in DOMAIN listed
    /\ Accepts(p)
    /\ policy' = Written(p)
    /\ listed' = [q \in DOMAIN listed \ {p} |-> listed[q]]
    /\ UNCHANGED <<want, shard, remote, lost, counters, placeVars, plan, rule, stage, purpose,
                   old, answer, marked, logVars>>

StalePolicy(p) ==
    /\ stage = "policy" /\ p \in DOMAIN listed
    /\ ~Accepts(p)
    /\ Leaves(TRUE)
    /\ UNCHANGED <<worldVars, placeVars>>

PoliciesDone ==
    /\ stage = "policy" /\ listed = Nothing
    /\ \/ purpose = "rename" /\ ListsFor(Last, marked)
       \/ purpose = "retire" /\ GoesTo("delete") /\ UNCHANGED <<purpose, old, answer, marked>>
       \/ purpose \in {"join", "leave"} /\ Leaves(marked)
    /\ UNCHANGED <<worldVars, placeVars>>

-----------------------------------------------------------------------------
(***************************************************************************)
(* What goes wrong. A refused call and a shard that cannot be written fail    *)
(* the rule, and the next is tried. A refused token and a lost connection     *)
(* fail the tenant. The client retries what seemed to fail: an update that    *)
(* was carried out is then refused, a create is carried out again.          *)
(***************************************************************************)
Fault ==
    /\ faults < MaxFaults
    /\ faults' = faults + 1
    /\ UNCHANGED <<want, merges, runs, console, placeVars>>

Calls == {"post", "get", "put", "delete", "list", "policy"}

CallRefused ==
    /\ stage \in Calls /\ Fault
    /\ Leaves(TRUE)
    /\ UNCHANGED <<shard, remote, policy, lost>>

StopsTenant ==
    /\ plan' = [r \in Rules |-> "none"]
    /\ outcome' = [outcome EXCEPT ![tenant][rule] = "failed"]
    /\ reports' = [reports EXCEPT ![tenant][rule] = @ + 1]
    /\ error' = TRUE
    /\ rule' = NoRule /\ stage' = "rule" /\ purpose' = "none" /\ listed' = Nothing
    /\ old' = Gone.name /\ answer' = NoId /\ marked' = FALSE

CallFails ==
    /\ stage \in Calls /\ Fault
    /\ StopsTenant
    /\ UNCHANGED <<shard, remote, policy, lost>>

\* No answer, or one without an id.
CreateUnanswered ==
    /\ stage = "post" /\ Fault
    /\ Unused(tenant) # {}
    /\ remote' = [remote EXCEPT ![tenant][NextId] = Made]
    /\ lost' = [lost EXCEPT ![tenant] = @ \cup {NextId}]
    /\ Leaves(TRUE) \/ StopsTenant
    /\ UNCHANGED <<shard, policy>>

CreateRetried ==
    /\ stage = "post" /\ Fault
    /\ Cardinality(Unused(tenant)) >= 2
    /\ \E id \in Unused(tenant) \ {NextId} :
          /\ remote' = [remote EXCEPT ![tenant][NextId] = Made, ![tenant][id] = Made]
          /\ answer' = id
    /\ lost' = [lost EXCEPT ![tenant] = @ \cup {NextId}]
    /\ GoesTo("record")
    /\ UNCHANGED <<shard, policy, purpose, old, marked>>

\* Carried out, then refused when it is sent again, or never answered.
UpdateUnanswered ==
    /\ stage = "put" /\ Fault
    /\ remote' = [remote EXCEPT ![tenant][Bound] = Made]
    /\ Leaves(TRUE) \/ StopsTenant
    /\ UNCHANGED <<shard, policy, lost>>

PolicyUnanswered(p) ==
    /\ stage = "policy" /\ p \in DOMAIN listed /\ Fault
    /\ Accepts(p)
    /\ policy' = Written(p)
    /\ Leaves(TRUE) \/ StopsTenant
    /\ UNCHANGED <<shard, remote, lost>>

DeleteUnanswered ==
    /\ stage = "delete" /\ Fault
    /\ remote' = [remote EXCEPT ![tenant][Bound] = Gone]
    /\ Leaves(TRUE) \/ StopsTenant
    /\ UNCHANGED <<shard, policy, lost>>

RecordFails ==
    /\ stage = "record" /\ Fault
    /\ lost' = [lost EXCEPT ![tenant] = @ \cup {answer}]
    /\ ListsFor("join", TRUE)
    /\ UNCHANGED <<shard, remote, policy>>

ForgetFails ==
    /\ stage = "forget" /\ Fault
    /\ Leaves(TRUE)
    /\ UNCHANGED <<shard, remote, policy, lost>>

-----------------------------------------------------------------------------
People ==
    \/ \E r \in Rules, strategy \in Strategies, renamed \in BOOLEAN, named \in SUBSET Policies :
          Merge(r, strategy, renamed, named)
    \/ \E t \in Tenants, p \in Policies : ConsoleEditsPolicy(t, p) \/ ConsoleDeletesPolicy(t, p)
    \/ \E t \in Tenants, id \in Ids : ConsoleDeletesRule(t, id)

Run ==
    \/ \E may \in BOOLEAN : StartRun(may)
    \/ \E t \in Tenants : ScreenTenant(t)
    \/ TenantDone \/ EndRun
    \/ \E r \in Rules : Begin(r)
    \/ CreateRule \/ RecordCreated
    \/ ReadRule \/ RuleMissing \/ RecreateRefused \/ UpdateRule
    \/ DeleteRule \/ Forget
    \/ ListPolicies \/ PolicyMissing \/ PoliciesDone
    \/ \E p \in Policies : UpdatePolicy(p) \/ StalePolicy(p)

Faults ==
    \/ Killed \/ CallRefused \/ CallFails
    \/ CreateUnanswered \/ CreateRetried \/ UpdateUnanswered \/ DeleteUnanswered
    \/ \E p \in Policies : PolicyUnanswered(p)
    \/ RecordFails \/ ForgetFails

Next == People \/ Run \/ Faults

Spec == Init /\ [][Next]_vars
-----------------------------------------------------------------------------
(***************************************************************************)
(* A rule reported as deployed, disabled or deleted is: whatever earlier      *)
(* runs left half done, its recorded rule has the name the block gives it      *)
(* and is in every policy it names, or in none of them, or is gone.          *)
(***************************************************************************)
Enforced(t, r) ==
    LET bound == shard[t][r]
        named == want[r].policies
        names(p) == want[r].name \in policy[t][p].names
    IN  CASE want[r].strategy = "deploy" ->
                /\ bound # NoId /\ remote[t][bound] = [of |-> r, name |-> want[r].name]
                /\ \A p \in named : names(p)
          [] want[r].strategy = "disable" ->
                bound = NoId \/ (r \notin Tunings /\ \A p \in named : ~names(p))
          [] want[r].strategy = "delete" ->
                bound = NoId /\ \A p \in named : ~names(p)

Deployed(t, r) == outcome[t][r] = "deployed"

DeployedIsEnforced ==
    [][\A t \in Tenants, r \in Rules :
          ~Deployed(t, r) /\ Deployed(t, r)' => Enforced(t, r)']_vars

(***************************************************************************)
(* A live rule of ours is in the shard, unless its create was not answered,  *)
(* was sent twice or could not be recorded: no update, recreate, disable or    *)
(* delete, whole or cut short, leaves one that no shard knows.               *)
(***************************************************************************)
LiveIsBound ==
    \A t \in Tenants, id \in Ids :
        remote[t][id] # Gone /\ id # answer =>
            id \in lost[t] \/ shard[t][remote[t][id].of] = id

(***************************************************************************)
(* What a deploy writes into a policy changes nothing there but its own       *)
(* rule's name: rules people add or remove while it runs stay as they are.    *)
(***************************************************************************)
Others(names) == {n \in names : n[1] # rule}

OthersNamesKept ==
    [][console' = console =>
          \A t \in Tenants, p \in Policies :
              Others(policy'[t][p].names) = Others(policy[t][p].names)]_vars

(***************************************************************************)
(* When a run ends every rule has one result on every tenant, nothing was     *)
(* left out but after a failure there, and the run fails if a rule did.      *)
(***************************************************************************)
Reported == stage = "idle" /\ \E t \in Tenants, r \in Rules : outcome[t][r] # "none"

EveryRuleReported ==
    Reported =>
        /\ \A t \in Tenants, r \in Rules : outcome[t][r] # "none" /\ reports[t][r] = 1
        /\ \A t \in Tenants : (\E r \in Rules : outcome[t][r] = "not_attempted") =>
                                  \E r \in Rules : outcome[t][r] = "failed"
        /\ error <=> \E t \in Tenants, r \in Rules : outcome[t][r] = "failed"
=============================================================================
