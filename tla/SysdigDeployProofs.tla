------------------------- MODULE SysdigDeployProofs -------------------------
(***************************************************************************)
(* Proofs about SysdigDeploy, for any rules, tenants and policies and any    *)
(* number of runs, faults and edits in the console.                        *)
(*                                                                         *)
(* The inductive invariant, DeployInv, says what the deploy knows at every    *)
(* call: how the plan still fits the shards, which id is in whose shard, what  *)
(* Sysdig has under it, what the policies already written name, and what the  *)
(* log has so far. Whatever way a call goes, a rule goes on to another call    *)
(* (GoesTo), is left with its result (Leaves) or ends its tenant            *)
(* (StopsTenant): what those three keep is proved first, once.              *)
(***************************************************************************)
EXTENDS SysdigDeploy, FiniteSetTheorems, TLAPS

\* The stages in which the deploy is at a rule.
AtRule == Stages \ {"idle", "tenant", "rule"}

PlaceInv ==
    /\ rule \in Rules <=> stage \in AtRule
    /\ tenant \in Tenants <=> stage \notin {"idle", "tenant"}
    /\ tenant \notin left
    /\ stage = "idle" => left = {}
    /\ stage \in {"idle", "tenant"} => \A r \in Rules : plan[r] = "none"
    /\ rule \in Rules => plan[rule] # "none"
    /\ answer # NoId <=> stage = "record"

\* What screen_tenant decided is still so when the deploy comes to the rule.
PlanInv ==
    \A r \in Rules :
        /\ plan[r] = "create" => want[r].strategy = "deploy"
        /\ plan[r] = "update" => want[r].strategy # "delete"
        /\ plan[r] = "delete" => want[r].strategy = "delete"
        /\ r # rule /\ plan[r] = "create" => shard[tenant][r] = NoId
        /\ r # rule /\ plan[r] \in {"update", "delete"} => shard[tenant][r] # NoId

\* Rules of a tenant carry the name of what they are made from, and no two of
\* our shards share one.
LiveInv ==
    \A t \in Tenants, id \in Ids :
        remote[t][id] # Gone =>
            /\ remote[t][id].name[1] = remote[t][id].of
            /\ id \in lost[t] \/ shard[t][remote[t][id].of] = id \/ (t = tenant /\ id = answer)

ShardInv ==
    \A t \in Tenants, r \in Rules :
        shard[t][r] # NoId =>
            /\ \A other \in Rules : shard[t][other] = shard[t][r] => other = r
            /\ remote[t][shard[t][r]] # Gone => remote[t][shard[t][r]].of = r

\* What is known at each call.
CallInv ==
    /\ stage \notin AtRule => purpose = "none"
    /\ stage \in {"post", "record"} =>
          Wants("deploy") /\ (Bound = NoId \/ remote[tenant][Bound] = Gone)
    /\ stage = "record" =>
          remote[tenant][answer] = Made /\ \A r \in Rules : shard[tenant][r] # answer
    /\ stage \in {"get", "put"} => ~Wants("delete")
    /\ stage \in {"delete", "forget"} => ~Wants("deploy")
    /\ stage \in {"get", "put", "delete", "forget"} \/ purpose = "retire" => Bound # NoId
    /\ stage = "forget" => remote[tenant][Bound] = Gone
    /\ stage = "put" \/ purpose = "rename" => old[1] = rule
    /\ stage = "put" /\ Wants("disable") => ~Tuning

PolicyInv ==
    /\ stage \in {"list", "policy"} =>
          /\ purpose # "none"
          /\ purpose = "rename" => ~Wants("delete")
          /\ purpose = "join" => Wants("deploy")
          /\ purpose = "leave" => Wants("disable")
          /\ purpose = "retire" => Wants("delete")
          /\ ~marked /\ purpose # "retire" =>
                /\ Bound # NoId /\ remote[tenant][Bound] = Made
                /\ Wants("disable") => ~Tuning
    /\ stage = "policy" =>
          \A p \in Named \ DOMAIN listed :
              /\ purpose = "join" => Name \in policy[tenant][p].names
              /\ purpose \in {"leave", "retire"} => Name \notin policy[tenant][p].names
    /\ stage \in {"delete", "forget"} /\ Wants("delete") =>
          \A p \in Named : Name \notin policy[tenant][p].names

FailedOn(t) == \E r \in Rules : outcome[t][r] = "failed"

LogInv ==
    /\ stage # "idle" =>
          /\ \A t \in Tenants, r \in Rules :
                /\ outcome[t][r] # "not_attempted"
                /\ reports[t][r] = IF outcome[t][r] = "none" THEN 0 ELSE 1
                /\ t \in left => outcome[t][r] = "none"
                /\ t = tenant /\ plan[r] # "none" => outcome[t][r] = "none"
                /\ t \notin left /\ (t = tenant => plan[r] = "none") /\ outcome[t][r] = "none"
                      => FailedOn(t)
          /\ error <=> \E t \in Tenants : FailedOn(t)
    /\ EveryRuleReported

-----------------------------------------------------------------------------
(***************************************************************************)
(* The type invariant, in three parts.                                      *)
(***************************************************************************)
WorldOK ==
    /\ want \in [Rules -> [strategy : Strategies, name : Names, policies : SUBSET Policies]]
    /\ \A r \in Rules : want[r].name[1] = r /\ (r \in Tunings => want[r].policies = {})
    /\ shard \in [Tenants -> [Rules -> Ids \cup {NoId}]]
    /\ remote \in [Tenants -> [Ids -> RemoteRules]]
    /\ policy \in [Tenants -> [Policies -> [exists : BOOLEAN,
                                            names : SUBSET (Names \cup ConsoleNames)]]]
    /\ lost \in [Tenants -> SUBSET Ids]
    /\ merges \in 0 .. MaxMerges /\ runs \in 0 .. MaxRuns
    /\ faults \in 0 .. MaxFaults /\ console \in 0 .. MaxConsole

PlaceOK ==
    /\ creates \in BOOLEAN /\ left \subseteq Tenants /\ tenant \in Tenants \cup {NoTenant}
    /\ plan \in [Rules -> Kinds] /\ rule \in Rules \cup {NoRule}
    /\ stage \in Stages /\ purpose \in Purposes
    /\ DOMAIN listed \subseteq Policies
    /\ \A p \in DOMAIN listed : listed[p] \subseteq Names \cup ConsoleNames
    /\ old \in Names \cup {Gone.name} /\ answer \in Ids \cup {NoId} /\ marked \in BOOLEAN

LogOK ==
    /\ outcome \in [Tenants -> [Rules -> Outcomes]]
    /\ reports \in [Tenants -> [Rules -> 0 .. 1]] /\ error \in BOOLEAN

LEMMA TypeParts == TypeOK <=> WorldOK /\ PlaceOK /\ LogOK
  BY DEF TypeOK, WorldOK, PlaceOK, LogOK

ControlInv == PlaceOK /\ LogOK /\ PlaceInv /\ LogInv
LiveRules == LiveInv /\ ShardInv
CallData == PlanInv /\ CallInv /\ PolicyInv
DeployInv == WorldOK /\ ControlInv /\ LiveRules /\ CallData

LEMMA NoneIsNoRule == NoRule \notin Rules /\ NoTenant \notin Tenants
  BY SysdigAssumption DEF NoRule, NoTenant

\* At a call there is a rule and a tenant, and the rule has no result yet.
LEMMA AtCall ==
  ASSUME ControlInv, stage \in AtRule
  PROVE  /\ rule \in Rules /\ tenant \in Tenants /\ tenant \notin left
         /\ plan[rule] # "none"
         /\ outcome[tenant][rule] = "none" /\ reports[tenant][rule] = 0
  <1>1. rule \in Rules /\ tenant \in Tenants /\ tenant \notin left /\ plan[rule] # "none"
    BY DEF ControlInv, PlaceInv, AtRule
  <1>2. outcome[tenant][rule] = "none" /\ reports[tenant][rule] = 0
    BY <1>1 DEF ControlInv, LogInv, AtRule
  <1> QED BY <1>1, <1>2

-----------------------------------------------------------------------------
(***************************************************************************)
(* What becomes of the log and of the place of the deploy when it goes on to  *)
(* the next call, leaves the rule, or stops the tenant.                     *)
(***************************************************************************)
LEMMA GoesKeepsControl ==
  ASSUME ControlInv, stage \in AtRule, UNCHANGED <<placeVars, plan, rule, logVars>>,
         stage' \in AtRule, PlaceOK', answer' # NoId <=> stage' = "record"
  PROVE  ControlInv'
  <1>1. PlaceInv'
    BY DEF ControlInv, PlaceInv, AtRule, placeVars, logVars, NoId
  <1>2. LogInv'
    BY DEF ControlInv, LogInv, AtRule, placeVars, logVars, FailedOn, EveryRuleReported, Reported
  <1>3. LogOK'
    BY DEF ControlInv, LogOK, logVars
  <1> QED BY <1>1, <1>2, <1>3 DEF ControlInv

LEMMA LeavesKeepsControl ==
  ASSUME ControlInv, stage \in AtRule, UNCHANGED placeVars, NEW f \in BOOLEAN, Leaves(f)
  PROVE  ControlInv'
  <1>1. rule \in Rules /\ tenant \in Tenants /\ tenant \notin left
        /\ outcome[tenant][rule] = "none" /\ reports[tenant][rule] = 0
    BY AtCall
  <1> DEFINE result == IF f THEN "failed" ELSE "deployed"
  <1>2. result \in Outcomes \ {"none", "not_attempted"} /\ (result = "failed" <=> f)
    BY DEF Outcomes
  <1>3. /\ outcome' = [outcome EXCEPT ![tenant][rule] = result]
        /\ reports' = [reports EXCEPT ![tenant][rule] = @ + 1]
        /\ plan' = [plan EXCEPT ![rule] = "none"]
        /\ error' = (error \/ f)
        /\ rule' = NoRule /\ stage' = "rule" /\ purpose' = "none" /\ listed' = Nothing
        /\ old' = Gone.name /\ answer' = NoId /\ marked' = FALSE
        /\ creates' = creates /\ left' = left /\ tenant' = tenant
    BY DEF Leaves, placeVars
  <1> HIDE DEF result
  <1>4. PlaceOK'
    BY <1>3 DEF ControlInv, PlaceOK, Stages, Purposes, Kinds, Nothing, NoRule
  <1>5. PlaceInv'
    BY <1>1, <1>3, NoneIsNoRule DEF ControlInv, PlaceInv, PlaceOK, AtRule, NoId
  <1>6. LogOK'
    <2>1. outcome' \in [Tenants -> [Rules -> Outcomes]]
      BY <1>2, <1>3 DEF ControlInv, LogOK
    <2>2. reports' \in [Tenants -> [Rules -> 0 .. 1]]
      BY <1>1, <1>3 DEF ControlInv, LogOK
    <2> QED BY <2>1, <2>2, <1>3 DEF ControlInv, LogOK
  <1>7. \A t \in Tenants, r \in Rules :
           outcome'[t][r] = IF t = tenant /\ r = rule THEN result ELSE outcome[t][r]
    BY <1>3 DEF ControlInv, LogOK
  <1>8. \A t \in Tenants, r \in Rules :
           reports'[t][r] = IF t = tenant /\ r = rule THEN 1 ELSE reports[t][r]
    BY <1>1, <1>3 DEF ControlInv, LogOK
  <1>9. \A t \in Tenants : FailedOn(t)' <=> (FailedOn(t) \/ (t = tenant /\ f))
    BY <1>1, <1>2, <1>7 DEF FailedOn
  <1>10. \A r \in Rules : plan'[r] = IF r = rule THEN "none" ELSE plan[r]
    BY <1>3 DEF ControlInv, PlaceOK
  <1>11. ASSUME NEW t \in Tenants, NEW r \in Rules
         PROVE  /\ outcome'[t][r] # "not_attempted"
                /\ reports'[t][r] = IF outcome'[t][r] = "none" THEN 0 ELSE 1
                /\ t \in left => outcome'[t][r] = "none"
                /\ t = tenant /\ plan'[r] # "none" => outcome'[t][r] = "none"
                /\ (t \notin left /\ (t = tenant => plan'[r] = "none") /\ outcome'[t][r] = "none")
                      => FailedOn(t)'
    <2>1. stage # "idle"
      BY DEF AtRule
    <2>2. CASE t = tenant /\ r = rule
      BY <2>2, <1>1, <1>2, <1>7, <1>8, <1>10
    <2>3. CASE ~(t = tenant /\ r = rule)
      <3>1. /\ outcome'[t][r] = outcome[t][r] /\ reports'[t][r] = reports[t][r]
            /\ (t = tenant => plan'[r] = plan[r])
        BY <2>3, <1>7, <1>8, <1>10
      <3> QED BY <3>1, <1>9, <2>1 DEF ControlInv, LogInv
    <2> QED BY <2>2, <2>3
  <1>12. error' <=> \E t \in Tenants : FailedOn(t)'
    BY <1>1, <1>3, <1>9 DEF ControlInv, LogInv, AtRule
  <1>13. EveryRuleReported'
    BY <1>3 DEF EveryRuleReported, Reported
  <1>14. LogInv'
    BY <1>3, <1>11, <1>12, <1>13 DEF LogInv
  <1> QED BY <1>4, <1>5, <1>6, <1>14 DEF ControlInv

LEMMA StopsKeepsControl ==
  ASSUME ControlInv, stage \in AtRule, UNCHANGED placeVars, StopsTenant
  PROVE  ControlInv'
  <1>1. rule \in Rules /\ tenant \in Tenants /\ tenant \notin left
        /\ outcome[tenant][rule] = "none" /\ reports[tenant][rule] = 0
    BY AtCall
  <1>2. /\ outcome' = [outcome EXCEPT ![tenant][rule] = "failed"]
        /\ reports' = [reports EXCEPT ![tenant][rule] = @ + 1]
        /\ plan' = [r \in Rules |-> "none"] /\ error' = TRUE
        /\ rule' = NoRule /\ stage' = "rule" /\ purpose' = "none" /\ listed' = Nothing
        /\ old' = Gone.name /\ answer' = NoId /\ marked' = FALSE
        /\ creates' = creates /\ left' = left /\ tenant' = tenant
    BY DEF StopsTenant, placeVars
  <1>3. PlaceOK'
    BY <1>2 DEF ControlInv, PlaceOK, Stages, Purposes, Kinds, Nothing, NoRule
  <1>4. PlaceInv'
    BY <1>1, <1>2, NoneIsNoRule DEF ControlInv, PlaceInv, PlaceOK, AtRule, NoId
  <1>5. LogOK'
    <2>1. outcome' \in [Tenants -> [Rules -> Outcomes]]
      BY <1>2 DEF ControlInv, LogOK, Outcomes
    <2>2. reports' \in [Tenants -> [Rules -> 0 .. 1]]
      BY <1>1, <1>2 DEF ControlInv, LogOK
    <2> QED BY <2>1, <2>2, <1>2 DEF ControlInv, LogOK
  <1>6. \A t \in Tenants, r \in Rules :
           outcome'[t][r] = IF t = tenant /\ r = rule THEN "failed" ELSE outcome[t][r]
    BY <1>2 DEF ControlInv, LogOK
  <1>7. \A t \in Tenants, r \in Rules :
           reports'[t][r] = IF t = tenant /\ r = rule THEN 1 ELSE reports[t][r]
    BY <1>1, <1>2 DEF ControlInv, LogOK
  <1>8. \A t \in Tenants : FailedOn(t)' <=> (FailedOn(t) \/ t = tenant)
    BY <1>1, <1>6 DEF FailedOn
  <1>9. ASSUME NEW t \in Tenants, NEW r \in Rules
        PROVE  /\ outcome'[t][r] # "not_attempted"
               /\ reports'[t][r] = IF outcome'[t][r] = "none" THEN 0 ELSE 1
               /\ t \in left => outcome'[t][r] = "none"
               /\ (t \notin left /\ outcome'[t][r] = "none") => FailedOn(t)'
    <2>1. stage # "idle"
      BY DEF AtRule
    <2>2. CASE t = tenant
      BY <2>1, <2>2, <1>1, <1>6, <1>7, <1>8 DEF ControlInv, LogInv
    <2>3. CASE t # tenant
      <3>1. outcome'[t][r] = outcome[t][r] /\ reports'[t][r] = reports[t][r]
        BY <2>3, <1>6, <1>7
      <3> QED BY <3>1, <2>3, <1>8, <2>1 DEF ControlInv, LogInv
    <2> QED BY <2>2, <2>3
  <1>10. error' <=> \E t \in Tenants : FailedOn(t)'
    BY <1>1, <1>2, <1>8
  <1>11. EveryRuleReported'
    BY <1>2 DEF EveryRuleReported, Reported
  <1>12. LogInv'
    BY <1>2, <1>9, <1>10, <1>11 DEF LogInv
  <1> QED BY <1>3, <1>4, <1>5, <1>12 DEF ControlInv

LEMMA EndsKeepsControl ==
  ASSUME ControlInv, stage \in AtRule, UNCHANGED placeVars, Leaves(TRUE) \/ StopsTenant
  PROVE  ControlInv'
  BY LeavesKeepsControl, StopsKeepsControl

LEMMA ListsForKeepsControl ==
  ASSUME ControlInv, stage \in AtRule, UNCHANGED placeVars, NEW f \in BOOLEAN,
         NEW why \in Purposes, ListsFor(why, f)
  PROVE  ControlInv'
  <1>1. CASE Named = {} /\ Leaves(f)
    BY <1>1, LeavesKeepsControl
  <1>2. CASE /\ GoesTo("list")
             /\ purpose' = why /\ marked' = f /\ answer' = NoId /\ UNCHANGED old
    <2>1. PlaceOK'
      BY <1>2 DEF ControlInv, PlaceOK, GoesTo, Stages, placeVars
    <2> QED BY <1>2, <2>1, GoesKeepsControl DEF GoesTo, AtRule, Stages
  <1> QED BY <1>1, <1>2 DEF ListsFor

-----------------------------------------------------------------------------
(***************************************************************************)
(* The data at a rule. However the deploy ends it, nothing more has to be     *)
(* known of it; the plan of the others fits as long as their shards stay.     *)
(***************************************************************************)
OthersPlanned ==
    /\ want' = want /\ tenant' = tenant
    /\ \A r \in Rules \ {rule} : shard'[tenant][r] = shard[tenant][r]

LEMMA EndsKeepsData ==
  ASSUME ControlInv, PlanInv, stage \in AtRule, OthersPlanned, NEW f \in BOOLEAN,
         Leaves(f) \/ StopsTenant
  PROVE  PlanInv' /\ CallInv' /\ PolicyInv'
  <1>1. \A r \in Rules : plan'[r] # "none" => r # rule /\ plan'[r] = plan[r]
    BY DEF Leaves, StopsTenant, ControlInv, PlaceOK
  <1>2. rule' = NoRule /\ stage' = "rule" /\ purpose' = "none"
    BY DEF Leaves, StopsTenant
  <1>3. PlanInv'
    BY <1>1, <1>2, NoneIsNoRule DEF PlanInv, OthersPlanned
  <1>4. CallInv' /\ PolicyInv'
    BY <1>2 DEF CallInv, PolicyInv
  <1> QED BY <1>3, <1>4

LEMMA GoesKeepsPlan ==
  ASSUME ControlInv, PlanInv, OthersPlanned, UNCHANGED <<plan, rule>>
  PROVE  PlanInv'
  BY DEF PlanInv, OthersPlanned

-----------------------------------------------------------------------------
(***************************************************************************)
(* The tenant's rules and our shards, call by call.                         *)
(***************************************************************************)
LEMMA LiveSame ==
  ASSUME LiveRules, UNCHANGED <<remote, shard, lost>>,
         answer = NoId \/ UNCHANGED <<tenant, answer>>
  PROVE  LiveRules'
  BY DEF LiveRules, LiveInv, ShardInv, NoId, Ids

\* Ids that nothing refers to are given to rules made from this one, each of which
\* is in the answer or lost.
LEMMA MakesKeepsLive ==
  ASSUME WorldOK, ControlInv, LiveRules, stage \in AtRule, answer = NoId,
         NEW made \in SUBSET Unused(tenant),
         UNCHANGED <<shard, tenant>>,
         \A t \in Tenants, id \in Ids :
            remote'[t][id] = IF t = tenant /\ id \in made THEN Made ELSE remote[t][id],
         \A t \in Tenants : lost[t] \subseteq lost'[t],
         \A id \in made : id \in lost'[tenant] \/ id = answer'
  PROVE  LiveRules'
  <1>1. rule \in Rules /\ tenant \in Tenants
    BY AtCall
  <1>2. Made.of = rule /\ Made.name[1] = rule
    BY <1>1 DEF Made, Name, WorldOK
  <1>3. LiveInv'
    <2> SUFFICES ASSUME NEW t \in Tenants, NEW id \in Ids, remote'[t][id] # Gone
                 PROVE  /\ remote'[t][id].name[1] = remote'[t][id].of
                        /\ \/ id \in lost'[t] \/ shard'[t][remote'[t][id].of] = id
                           \/ t = tenant' /\ id = answer'
      BY DEF LiveInv
    <2>1. CASE t = tenant /\ id \in made
      BY <2>1, <1>2
    <2>2. CASE ~(t = tenant /\ id \in made)
      <3>1. remote'[t][id] = remote[t][id] /\ id # answer
        BY <2>2 DEF NoId, Ids
      <3> QED BY <3>1 DEF LiveRules, LiveInv
    <2> QED BY <2>1, <2>2
  <1>4. ShardInv'
    <2> SUFFICES ASSUME NEW t \in Tenants, NEW r \in Rules, shard[t][r] # NoId
                 PROVE  /\ \A other \in Rules : shard[t][other] = shard[t][r] => other = r
                        /\ remote'[t][shard[t][r]] # Gone => remote'[t][shard[t][r]].of = r
      BY DEF ShardInv
    <2>1. shard[t][r] \in Ids
      BY DEF WorldOK
    <2>2. ~(t = tenant /\ shard[t][r] \in made)
      BY DEF Unused
    <2> QED BY <2>1, <2>2 DEF LiveRules, ShardInv
  <1> QED BY <1>3, <1>4 DEF LiveRules

\* The recorded rule is put as the block wants it, or taken away.
LEMMA PutKeepsLive ==
  ASSUME WorldOK, ControlInv, LiveRules, stage \in AtRule, answer = NoId, Bound # NoId,
         NEW now \in {Made, Gone}, remote' = [remote EXCEPT ![tenant][Bound] = now],
         UNCHANGED <<shard, tenant, lost>>
  PROVE  LiveRules' /\ remote'[tenant][Bound] = now
  <1>1. rule \in Rules /\ tenant \in Tenants
    BY AtCall
  <1>2. Made.of = rule /\ Made.name[1] = rule
    BY <1>1 DEF Made, Name, WorldOK
  <1>3. Bound \in Ids
    BY <1>1 DEF Bound, WorldOK
  <1>4. \A t \in Tenants, id \in Ids :
           remote'[t][id] = IF t = tenant /\ id = Bound THEN now ELSE remote[t][id]
    BY <1>3 DEF WorldOK
  <1>5. LiveInv'
    <2> SUFFICES ASSUME NEW t \in Tenants, NEW id \in Ids, remote'[t][id] # Gone
                 PROVE  /\ remote'[t][id].name[1] = remote'[t][id].of
                        /\ id \in lost[t] \/ shard[t][remote'[t][id].of] = id
      BY DEF LiveInv
    <2>1. CASE t = tenant /\ id = Bound
      BY <2>1, <1>2, <1>4 DEF Bound
    <2>2. CASE ~(t = tenant /\ id = Bound)
      <3>1. remote'[t][id] = remote[t][id] /\ id # answer
        BY <2>2, <1>4 DEF NoId, Ids
      <3> QED BY <3>1 DEF LiveRules, LiveInv
    <2> QED BY <2>1, <2>2
  <1>6. ShardInv'
    <2> SUFFICES ASSUME NEW t \in Tenants, NEW r \in Rules, shard[t][r] # NoId
                 PROVE  /\ \A other \in Rules : shard[t][other] = shard[t][r] => other = r
                        /\ remote'[t][shard[t][r]] # Gone => remote'[t][shard[t][r]].of = r
      BY DEF ShardInv
    <2>1. shard[t][r] \in Ids
      BY DEF WorldOK
    <2>2. \A other \in Rules : shard[t][other] = shard[t][r] => other = r
      BY DEF LiveRules, ShardInv
    <2>3. CASE t = tenant /\ shard[t][r] = Bound
      BY <2>2, <2>3, <1>1, <1>2, <1>3, <1>4 DEF Bound
    <2>4. CASE ~(t = tenant /\ shard[t][r] = Bound)
      <3>1. remote'[t][shard[t][r]] = remote[t][shard[t][r]]
        BY <2>4, <2>1, <1>4
      <3> QED BY <3>1, <2>2 DEF LiveRules, ShardInv
    <2> QED BY <2>3, <2>4
  <1> QED BY <1>1, <1>3, <1>4, <1>5, <1>6 DEF LiveRules

\* An id goes into the shard where the one before is of no rule any more.
LEMMA RecordKeepsLive ==
  ASSUME WorldOK, ControlInv, LiveRules, stage = "record",
         Bound = NoId \/ remote[tenant][Bound] = Gone,
         remote[tenant][answer] = Made, \A r \in Rules : shard[tenant][r] # answer,
         shard' = [shard EXCEPT ![tenant][rule] = answer],
         UNCHANGED <<remote, tenant, lost>>
  PROVE  LiveRules'
  <1>1. rule \in Rules /\ tenant \in Tenants /\ stage \in AtRule
    BY AtCall DEF AtRule, Stages
  <1>2. Made.of = rule /\ Made.name[1] = rule
    BY <1>1 DEF Made, Name, WorldOK
  <1>3. answer \in Ids
    BY DEF ControlInv, PlaceInv, PlaceOK
  <1>4. \A t \in Tenants, r \in Rules :
           shard'[t][r] = IF t = tenant /\ r = rule THEN answer ELSE shard[t][r]
    BY DEF WorldOK
  <1>5. LiveInv'
    <2> SUFFICES ASSUME NEW t \in Tenants, NEW id \in Ids, remote[t][id] # Gone
                 PROVE  /\ remote[t][id].name[1] = remote[t][id].of
                        /\ id \in lost[t] \/ shard'[t][remote[t][id].of] = id
      BY DEF LiveInv
    <2>1. remote[t][id].of \in Rules
      BY DEF WorldOK, RemoteRules
    <2>2. /\ remote[t][id].name[1] = remote[t][id].of
          /\ id \in lost[t] \/ shard[t][remote[t][id].of] = id \/ (t = tenant /\ id = answer)
      BY DEF LiveRules, LiveInv
    <2>3. CASE t = tenant /\ id = answer
      BY <2>2, <2>3, <1>1, <1>2, <1>4
    <2>4. CASE t = tenant /\ id # answer /\ remote[t][id].of = rule
      BY <2>2, <2>4 DEF Bound, NoId, Ids
    <2>5. CASE t # tenant \/ remote[t][id].of # rule
      BY <2>1, <2>2, <2>3, <2>5, <1>4
    <2> QED BY <2>3, <2>4, <2>5
  <1>6. ShardInv'
    <2> SUFFICES ASSUME NEW t \in Tenants, NEW r \in Rules, shard'[t][r] # NoId
                 PROVE  /\ \A other \in Rules : shard'[t][other] = shard'[t][r] => other = r
                        /\ remote[t][shard'[t][r]] # Gone => remote[t][shard'[t][r]].of = r
      BY DEF ShardInv
    <2>1. CASE t = tenant /\ r = rule
      BY <2>1, <1>1, <1>2, <1>4
    <2>2. CASE ~(t = tenant /\ r = rule)
      <3>1. shard'[t][r] = shard[t][r]
        BY <2>2, <1>4
      <3>2. \A other \in Rules :
                shard'[t][other] = shard[t][other] \/ (t = tenant /\ shard'[t][other] = answer)
        BY <1>4
      <3> QED BY <3>1, <3>2 DEF LiveRules, ShardInv
    <2> QED BY <2>1, <2>2
  <1> QED BY <1>5, <1>6 DEF LiveRules

LEMMA ForgetKeepsLive ==
  ASSUME WorldOK, ControlInv, LiveRules, stage = "forget", remote[tenant][Bound] = Gone,
         shard' = [shard EXCEPT ![tenant][rule] = NoId],
         UNCHANGED <<remote, tenant, lost>>
  PROVE  LiveRules'
  <1>1. rule \in Rules /\ tenant \in Tenants /\ stage \in AtRule /\ answer = NoId
    BY AtCall DEF AtRule, Stages, ControlInv, PlaceInv
  <1>2. \A t \in Tenants, r \in Rules :
           shard'[t][r] = IF t = tenant /\ r = rule THEN NoId ELSE shard[t][r]
    BY DEF WorldOK
  <1>3. LiveInv'
    <2> SUFFICES ASSUME NEW t \in Tenants, NEW id \in Ids, remote[t][id] # Gone
                 PROVE  /\ remote[t][id].name[1] = remote[t][id].of
                        /\ id \in lost[t] \/ shard'[t][remote[t][id].of] = id
      BY DEF LiveInv
    <2>1. remote[t][id].of \in Rules
      BY DEF WorldOK, RemoteRules
    <2>2. /\ remote[t][id].name[1] = remote[t][id].of
          /\ id \in lost[t] \/ shard[t][remote[t][id].of] = id
      BY <1>1 DEF LiveRules, LiveInv, NoId, Ids
    <2>3. t # tenant \/ remote[t][id].of # rule \/ id # Bound
      OBVIOUS
    <2> QED BY <2>1, <2>2, <2>3, <1>2 DEF Bound
  <1>4. ShardInv'
    BY <1>2 DEF LiveRules, ShardInv
  <1> QED BY <1>3, <1>4 DEF LiveRules

-----------------------------------------------------------------------------
(***************************************************************************)
(* People.                                                                 *)
(***************************************************************************)
LEMMA ControlSame ==
  ASSUME ControlInv, UNCHANGED <<runVars, logVars>>
  PROVE  ControlInv'
  BY DEF ControlInv, PlaceOK, LogOK, PlaceInv, LogInv, EveryRuleReported, Reported, FailedOn,
         runVars, logVars

\* Nothing is planned when no rule is at a call and no tenant at its rules.
LEMMA IdleCallData ==
  ASSUME DeployInv, stage \in {"idle", "tenant"}, UNCHANGED runVars
  PROVE  CallData'
  <1>1. /\ rule' = rule /\ stage' = stage /\ plan' = plan /\ purpose' = purpose
        /\ stage \notin AtRule /\ (\A r \in Rules : plan[r] = "none") /\ purpose = "none"
    BY DEF runVars, AtRule, DeployInv, ControlInv, PlaceInv, CallData, CallInv
  <1>2. PlanInv' /\ CallInv' /\ PolicyInv'
    BY <1>1 DEF PlanInv, CallInv, PolicyInv, AtRule, Stages
  <1> QED BY <1>2 DEF CallData

LEMMA MergeKeeps ==
  ASSUME DeployInv, NEW r \in Rules, NEW strategy \in Strategies, NEW renamed \in BOOLEAN,
         NEW named \in SUBSET Policies, Merge(r, strategy, renamed, named)
  PROVE  DeployInv'
  <1>1. WorldOK'
    <2>1. merges + 1 \in Revisions /\ merges' \in 0 .. MaxMerges
      BY SysdigAssumption DEF DeployInv, WorldOK, Merge, Revisions
    <2> DEFINE block == [strategy |-> strategy, policies |-> named,
                         name |-> IF renamed THEN <<r, merges + 1>> ELSE want[r].name]
    <2>2. want' = [want EXCEPT ![r] = block]
      BY DEF Merge, DeployInv, WorldOK
    <2>3. /\ block \in [strategy : Strategies, name : Names, policies : SUBSET Policies]
          /\ block.name[1] = r /\ (r \in Tunings => block.policies = {})
      BY <2>1 DEF Merge, DeployInv, WorldOK, Names
    <2> HIDE DEF block
    <2>4. \A q \in Rules : want'[q] = IF q = r THEN block ELSE want[q]
      BY <2>2 DEF DeployInv, WorldOK
    <2>5. want' \in [Rules -> [strategy : Strategies, name : Names, policies : SUBSET Policies]]
      BY <2>2, <2>3 DEF DeployInv, WorldOK
    <2>6. \A q \in Rules : want'[q].name[1] = q /\ (q \in Tunings => want'[q].policies = {})
      BY <2>3, <2>4 DEF DeployInv, WorldOK
    <2> QED BY <2>1, <2>5, <2>6 DEF DeployInv, WorldOK, Merge
  <1>2. ControlInv'
    BY ControlSame DEF DeployInv, Merge
  <1>3. LiveRules'
    BY LiveSame DEF DeployInv, Merge, runVars
  <1>4. CallData'
    BY IdleCallData DEF Merge
  <1> QED BY <1>1, <1>2, <1>3, <1>4 DEF DeployInv

LEMMA NameIsOurs ==
  ASSUME WorldOK, NEW r \in Rules
  PROVE  want[r].name \in Names /\ want[r].name[1] = r /\ want[r].name \notin ConsoleNames
  BY SysdigAssumption DEF WorldOK, ConsoleNames

LEMMA ConsoleEditsPolicyKeeps ==
  ASSUME DeployInv, NEW t \in Tenants, NEW p \in Policies, ConsoleEditsPolicy(t, p)
  PROVE  DeployInv'
  <1>1. PICK names \in SUBSET ConsoleNames :
           policy' = [policy EXCEPT ![t][p].names = (@ \ ConsoleNames) \cup names]
    BY DEF ConsoleEditsPolicy
  <1>2. UNCHANGED <<want, shard, remote, runVars, logVars, lost, merges, runs, faults>>
        /\ console' = console + 1 /\ console < MaxConsole
    BY DEF ConsoleEditsPolicy, Console
  <1>3. WorldOK'
    <2> DEFINE edited == [exists |-> policy[t][p].exists,
                          names |-> (policy[t][p].names \ ConsoleNames) \cup names]
    <2>1. edited \in [exists : BOOLEAN, names : SUBSET (Names \cup ConsoleNames)]
      BY DEF DeployInv, WorldOK
    <2>2. policy[t][p] \in [exists : BOOLEAN, names : SUBSET (Names \cup ConsoleNames)]
      BY DEF DeployInv, WorldOK
    <2>3. [policy[t][p] EXCEPT !.names = (@ \ ConsoleNames) \cup names] = edited
      BY <2>2
    <2>4. policy' = [policy EXCEPT ![t][p] = edited]
      BY <1>1, <2>3, Zenon
    <2>5. policy' \in [Tenants -> [Policies -> [exists : BOOLEAN,
                                                names : SUBSET (Names \cup ConsoleNames)]]]
      BY <2>1, <2>4 DEF DeployInv, WorldOK
    <2>6. console' \in 0 .. MaxConsole
      BY <1>2, SysdigAssumption DEF DeployInv, WorldOK
    <2> QED BY <2>5, <2>6, <1>2 DEF DeployInv, WorldOK
  <1>4. \A n \in Names, s \in Tenants, q \in Policies :
           n \notin ConsoleNames => (n \in policy'[s][q].names <=> n \in policy[s][q].names)
    BY <1>1 DEF DeployInv, WorldOK
  <1>5. ControlInv'
    BY <1>2, ControlSame DEF DeployInv
  <1>6. LiveRules'
    BY <1>2, LiveSame DEF DeployInv, runVars
  <1>7. PlanInv' /\ CallInv'
    BY <1>2 DEF DeployInv, CallData, PlanInv, CallInv, runVars, Wants, Bound, Made, Name, Tuning
  <1>8. PolicyInv'
    <2>1. CASE stage \in AtRule
      <3>1. rule \in Rules /\ tenant \in Tenants
        BY <2>1, AtCall DEF DeployInv
      <3>2. Named \subseteq Policies /\ Name \in Names /\ Name \notin ConsoleNames
        BY <3>1, NameIsOurs DEF DeployInv, WorldOK, Named, Name
      <3>3. \A q \in Named : Name \in policy'[tenant][q].names <=> Name \in policy[tenant][q].names
        BY <3>1, <3>2, <1>4
      <3> QED BY <3>3, <1>2 DEF DeployInv, CallData, PolicyInv, runVars, Wants, Bound, Made, Name,
                                Named, Tuning
    <2>2. CASE stage \notin AtRule
      BY <2>2, <1>2 DEF PolicyInv, AtRule, Stages, runVars
    <2> QED BY <2>1, <2>2
  <1> QED BY <1>3, <1>5, <1>6, <1>7, <1>8 DEF DeployInv, CallData

LEMMA ConsoleDeletesPolicyKeeps ==
  ASSUME DeployInv, NEW t \in Tenants, NEW p \in Policies, ConsoleDeletesPolicy(t, p)
  PROVE  DeployInv'
  <1>1. /\ UNCHANGED <<want, shard, remote, runVars, logVars, lost, merges, runs, faults>>
        /\ console' = console + 1 /\ console < MaxConsole /\ stage = "idle"
        /\ policy' = [policy EXCEPT ![t][p] = [exists |-> FALSE, names |-> {}]]
    BY DEF ConsoleDeletesPolicy, Console
  <1>2. WorldOK'
    <2>1. policy' \in [Tenants -> [Policies -> [exists : BOOLEAN,
                                                names : SUBSET (Names \cup ConsoleNames)]]]
      BY <1>1 DEF DeployInv, WorldOK
    <2>2. console' \in 0 .. MaxConsole
      BY <1>1, SysdigAssumption DEF DeployInv, WorldOK
    <2> QED BY <2>1, <2>2, <1>1 DEF DeployInv, WorldOK
  <1>3. ControlInv' /\ LiveRules' /\ CallData'
    BY <1>1, ControlSame, LiveSame, IdleCallData DEF DeployInv, runVars
  <1> QED BY <1>2, <1>3 DEF DeployInv

LEMMA ConsoleDeletesRuleKeeps ==
  ASSUME DeployInv, NEW t \in Tenants, NEW id \in Ids, ConsoleDeletesRule(t, id)
  PROVE  DeployInv'
  <1>1. /\ UNCHANGED <<want, shard, policy, runVars, logVars, lost, merges, runs, faults>>
        /\ console' = console + 1 /\ console < MaxConsole /\ stage = "idle"
        /\ remote' = [remote EXCEPT ![t][id] = Gone]
    BY DEF ConsoleDeletesRule, Console
  <1>2. WorldOK'
    <2>1. remote' \in [Tenants -> [Ids -> RemoteRules]]
      BY <1>1 DEF DeployInv, WorldOK, RemoteRules
    <2>2. console' \in 0 .. MaxConsole
      BY <1>1, SysdigAssumption DEF DeployInv, WorldOK
    <2> QED BY <2>1, <2>2, <1>1 DEF DeployInv, WorldOK
  <1>3. ControlInv' /\ CallData'
    BY <1>1, ControlSame, IdleCallData DEF DeployInv
  <1>4. \A s \in Tenants, i \in Ids : remote'[s][i] # Gone => remote'[s][i] = remote[s][i]
    BY <1>1 DEF DeployInv, WorldOK
  <1>5. LiveRules'
    <2>1. LiveInv'
      BY <1>1, <1>4 DEF DeployInv, LiveRules, LiveInv, runVars
    <2>2. \A s \in Tenants, r \in Rules : shard[s][r] # NoId => shard[s][r] \in Ids
      BY DEF DeployInv, WorldOK
    <2>3. ShardInv'
      BY <2>2, <1>1, <1>4 DEF DeployInv, LiveRules, ShardInv
    <2> QED BY <2>1, <2>3 DEF LiveRules
  <1> QED BY <1>2, <1>3, <1>5 DEF DeployInv

-----------------------------------------------------------------------------
(***************************************************************************)
(* A run and its tenants.                                                   *)
(***************************************************************************)
LEMMA StartRunKeeps ==
  ASSUME DeployInv, NEW may \in BOOLEAN, StartRun(may)
  PROVE  DeployInv'
  <1>1. /\ stage = "idle" /\ runs < MaxRuns /\ runs' = runs + 1 /\ creates' = may
        /\ left' = Tenants /\ stage' = "tenant"
        /\ outcome' = [t \in Tenants |-> [r \in Rules |-> "none"]]
        /\ reports' = [t \in Tenants |-> [r \in Rules |-> 0]]
        /\ error' = FALSE
        /\ UNCHANGED <<want, shard, remote, policy, tenant, plan, rule, purpose, listed, old,
                       answer, marked, lost, merges, faults, console>>
    BY DEF StartRun
  <1>2. WorldOK'
    <2>1. runs' \in 0 .. MaxRuns
      BY <1>1, SysdigAssumption DEF DeployInv, WorldOK
    <2> QED BY <2>1, <1>1 DEF DeployInv, WorldOK
  <1>3. PlaceOK' /\ LogOK' /\ PlaceInv'
    <2>1. PlaceOK'
      BY <1>1 DEF DeployInv, ControlInv, PlaceOK, Stages
    <2>2. LogOK'
      <3>1. outcome' \in [Tenants -> [Rules -> Outcomes]]
        BY <1>1 DEF Outcomes
      <3>2. reports' \in [Tenants -> [Rules -> 0 .. 1]]
        BY <1>1
      <3> QED BY <3>1, <3>2, <1>1 DEF LogOK
    <2>3. PlaceInv'
      BY <1>1, NoneIsNoRule DEF DeployInv, ControlInv, PlaceOK, PlaceInv, AtRule
    <2> QED BY <2>1, <2>2, <2>3
  <1>4. LogInv'
    BY <1>1, NoneIsNoRule DEF LogInv, FailedOn, EveryRuleReported, Reported
  <1>5. LiveRules'
    BY <1>1, LiveSame DEF DeployInv
  <1>6. stage \notin AtRule /\ stage' \notin AtRule
    BY <1>1 DEF AtRule
  <1>7. PlanInv' /\ CallInv' /\ PolicyInv'
    BY <1>1, <1>6 DEF DeployInv, ControlInv, PlaceInv, CallData, PlanInv, CallInv, PolicyInv
  <1> QED BY <1>2, <1>3, <1>4, <1>5, <1>7 DEF DeployInv, ControlInv, CallData

\* A rule is planned, or has its result already: "skipped", or "failed".
LEMMA Decided ==
  ASSUME WorldOK, NEW t \in Tenants, NEW r \in Rules
  PROVE  /\ Decision(t, r) \in {"create", "update", "delete", "skipped", "failed"}
         /\ Decision(t, r) = "create" => shard[t][r] = NoId /\ want[r].strategy = "deploy"
         /\ Decision(t, r) = "update" => shard[t][r] # NoId /\ want[r].strategy # "delete"
         /\ Decision(t, r) = "delete" => shard[t][r] # NoId /\ want[r].strategy = "delete"
  <1>1. CASE shard[t][r] # NoId /\ want[r].strategy = "delete"
    BY <1>1 DEF Decision
  <1>2. CASE shard[t][r] # NoId /\ want[r].strategy # "delete"
    BY <1>2 DEF Decision
  <1>3. CASE shard[t][r] = NoId /\ want[r].strategy # "deploy"
    BY <1>3 DEF Decision
  <1>4. CASE shard[t][r] = NoId /\ want[r].strategy = "deploy"
    BY <1>4 DEF Decision
  <1> QED BY <1>1, <1>2, <1>3, <1>4

LEMMA ScreenTenantKeeps ==
  ASSUME DeployInv, NEW t \in Tenants, ScreenTenant(t)
  PROVE  DeployInv'
  <1> DEFINE reported(r) == Decision(t, r) \in {"skipped", "failed"}
  <1>1. /\ stage = "tenant" /\ t \in left /\ left' = left \ {t} /\ tenant' = t
        /\ plan' = [r \in Rules |-> IF reported(r) THEN "none" ELSE Decision(t, r)]
        /\ outcome' = [outcome EXCEPT ![t] = [r \in Rules |-> IF reported(r) THEN Decision(t, r)
                                                              ELSE "none"]]
        /\ reports' = [reports EXCEPT ![t] = [r \in Rules |-> IF reported(r) THEN 1 ELSE 0]]
        /\ error' = (error \/ \E r \in Rules : Decision(t, r) = "failed")
        /\ stage' = "rule"
        /\ UNCHANGED <<want, shard, remote, policy, creates, rule, purpose, listed, old, answer,
                       marked, lost, counters>>
    BY DEF ScreenTenant
  <1>2. \A r \in Rules : Decision(t, r) \in {"create", "update", "delete", "skipped", "failed"}
    BY Decided DEF DeployInv
  <1>3. \A s \in Tenants, r \in Rules :
           /\ outcome'[s][r] = IF s = t THEN (IF reported(r) THEN Decision(t, r) ELSE "none")
                               ELSE outcome[s][r]
           /\ reports'[s][r] = IF s = t THEN (IF reported(r) THEN 1 ELSE 0) ELSE reports[s][r]
    BY <1>1 DEF DeployInv, ControlInv, LogOK
  <1>4. \A r \in Rules : plan'[r] = IF reported(r) THEN "none" ELSE Decision(t, r)
    BY <1>1
  <1>5. WorldOK'
    BY <1>1 DEF DeployInv, WorldOK, counters
  <1>6. PlaceOK'
    <2>1. plan' \in [Rules -> Kinds]
      BY <1>1, <1>2 DEF Kinds
    <2> QED BY <2>1, <1>1 DEF DeployInv, ControlInv, PlaceOK, Stages
  <1>7. LogOK'
    <2>1. [r \in Rules |-> IF reported(r) THEN Decision(t, r) ELSE "none"] \in [Rules -> Outcomes]
      BY DEF Outcomes
    <2>2. [r \in Rules |-> IF reported(r) THEN 1 ELSE 0] \in [Rules -> 0 .. 1]
      OBVIOUS
    <2>3. outcome' \in [Tenants -> [Rules -> Outcomes]]
      BY <2>1, <1>1 DEF DeployInv, ControlInv, LogOK
    <2>4. reports' \in [Tenants -> [Rules -> 0 .. 1]]
      BY <2>2, <1>1 DEF DeployInv, ControlInv, LogOK
    <2> QED BY <2>3, <2>4, <1>1 DEF DeployInv, ControlInv, LogOK
  <1>8. PlaceInv'
    BY <1>1, NoneIsNoRule DEF DeployInv, ControlInv, PlaceInv, PlaceOK, AtRule, NoId
  <1>9. \A s \in Tenants : FailedOn(s)' <=> IF s = t THEN \E r \in Rules : Decision(t, r) = "failed"
                                            ELSE FailedOn(s)
    BY <1>3 DEF FailedOn
  <1>10. ~FailedOn(t)
    BY <1>1 DEF DeployInv, ControlInv, LogInv, FailedOn
  <1>11. LogInv'
    <2>1. ASSUME NEW s \in Tenants, NEW r \in Rules
          PROVE  /\ outcome'[s][r] # "not_attempted"
                 /\ reports'[s][r] = IF outcome'[s][r] = "none" THEN 0 ELSE 1
                 /\ s \in left' => outcome'[s][r] = "none"
                 /\ s = tenant' /\ plan'[r] # "none" => outcome'[s][r] = "none"
                 /\ (s \notin left' /\ (s = tenant' => plan'[r] = "none")
                        /\ outcome'[s][r] = "none") => FailedOn(s)'
      <3>1. CASE s = t
        BY <3>1, <1>1, <1>2, <1>3, <1>4
      <3>2. CASE s # t
        <4>1. s # tenant
          BY <1>1, NoneIsNoRule DEF DeployInv, ControlInv, PlaceInv, PlaceOK
        <4> QED BY <4>1, <3>2, <1>1, <1>3, <1>9 DEF DeployInv, ControlInv, LogInv
      <3> QED BY <3>1, <3>2
    <2>2. error' <=> \E s \in Tenants : FailedOn(s)'
      BY <1>1, <1>9, <1>10 DEF DeployInv, ControlInv, LogInv
    <2> QED BY <2>1, <2>2, <1>1 DEF LogInv, EveryRuleReported, Reported
  <1>12. LiveRules'
    BY <1>1, LiveSame DEF DeployInv, ControlInv, PlaceInv
  <1>13. PlanInv'
    BY <1>1, <1>4, Decided DEF DeployInv, PlanInv
  <1>14. CallInv' /\ PolicyInv'
    BY <1>1 DEF DeployInv, CallData, CallInv, PolicyInv, AtRule
  <1> QED BY <1>5, <1>6, <1>7, <1>8, <1>11, <1>12, <1>13, <1>14 DEF DeployInv, ControlInv, CallData

LEMMA TenantDoneKeeps ==
  ASSUME DeployInv, TenantDone
  PROVE  DeployInv'
  <1>1. /\ stage = "rule" /\ (\A r \in Rules : plan[r] = "none")
        /\ stage' = "tenant" /\ tenant' = NoTenant
        /\ UNCHANGED <<want, shard, remote, policy, creates, left, plan, rule, purpose, listed,
                       old, answer, marked, outcome, reports, error, lost, counters>>
    BY DEF TenantDone, logVars
  <1>2. WorldOK'
    BY <1>1 DEF DeployInv, WorldOK, counters
  <1>3. PlaceOK' /\ LogOK'
    BY <1>1 DEF DeployInv, ControlInv, PlaceOK, LogOK, Stages, NoTenant
  <1>4. stage \notin AtRule /\ stage' \notin AtRule
    BY <1>1 DEF AtRule
  <1>5. PlaceInv'
    BY <1>1, <1>4, NoneIsNoRule DEF DeployInv, ControlInv, PlaceInv, PlaceOK, NoTenant
  <1>6. LogInv'
    <2>1. ASSUME NEW t \in Tenants, NEW r \in Rules
          PROVE  /\ outcome[t][r] # "not_attempted"
                 /\ reports[t][r] = IF outcome[t][r] = "none" THEN 0 ELSE 1
                 /\ t \in left => outcome[t][r] = "none"
                 /\ t # NoTenant
                 /\ (t \notin left /\ outcome[t][r] = "none") => FailedOn(t)
      BY <1>1, NoneIsNoRule DEF DeployInv, ControlInv, LogInv
    <2>2. \A t \in Tenants : FailedOn(t)' <=> FailedOn(t)
      BY <1>1 DEF FailedOn
    <2>3. error' <=> \E t \in Tenants : FailedOn(t)'
      BY <1>1, <2>2 DEF DeployInv, ControlInv, LogInv
    <2>4. EveryRuleReported'
      BY <1>1 DEF EveryRuleReported, Reported
    <2> QED BY <1>1, <2>1, <2>2, <2>3, <2>4 DEF LogInv
  <1>7. LiveRules'
    BY <1>1, LiveSame DEF DeployInv, ControlInv, PlaceInv
  <1>8. PlanInv'
    BY <1>1 DEF PlanInv
  <1>9. CallInv' /\ PolicyInv'
    BY <1>1, <1>4 DEF DeployInv, CallData, CallInv, PolicyInv, AtRule
  <1> QED BY <1>2, <1>3, <1>5, <1>6, <1>7, <1>8, <1>9 DEF DeployInv, ControlInv, CallData

LEMMA EndRunKeeps ==
  ASSUME DeployInv, EndRun
  PROVE  DeployInv'
  <1>1. /\ stage = "tenant" /\ left = {}
        /\ outcome' = [t \in Tenants |-> [r \in Rules |-> Settled(outcome[t][r])]]
        /\ reports' = [t \in Tenants |-> [r \in Rules |->
                          IF Unheard(outcome[t][r]) THEN reports[t][r] + 1 ELSE reports[t][r]]]
        /\ stage' = "idle" /\ creates' = FALSE
        /\ UNCHANGED <<want, shard, remote, policy, left, tenant, plan, rule, purpose, listed,
                       old, answer, marked, error, lost, counters>>
    BY DEF EndRun
  <1>2. WorldOK'
    BY <1>1 DEF DeployInv, WorldOK, counters
  <1>3. PlaceOK'
    BY <1>1 DEF DeployInv, ControlInv, PlaceOK, Stages
  <1>4. stage \notin AtRule /\ stage' \notin AtRule
    BY <1>1 DEF AtRule
  <1>5. PlaceInv'
    BY <1>1, <1>4 DEF DeployInv, ControlInv, PlaceInv
  <1>6. \A t \in Tenants, r \in Rules : tenant # t
    BY <1>1 DEF DeployInv, ControlInv, PlaceInv
  <1>7. ASSUME NEW t \in Tenants, NEW r \in Rules
        PROVE  /\ outcome[t][r] \in Outcomes /\ outcome[t][r] # "not_attempted"
               /\ reports[t][r] = IF outcome[t][r] = "none" THEN 0 ELSE 1
               /\ outcome[t][r] = "none" => FailedOn(t)
    BY <1>1, <1>6 DEF DeployInv, ControlInv, LogInv, LogOK
  <1>8. ASSUME NEW t \in Tenants, NEW r \in Rules
        PROVE  /\ outcome'[t][r] = IF outcome[t][r] = "none" THEN "not_attempted"
                                   ELSE outcome[t][r]
               /\ reports'[t][r] = 1
    BY <1>1, <1>7 DEF Settled, Unheard
  <1>9. LogOK'
    <2>1. outcome' \in [Tenants -> [Rules -> Outcomes]]
      <3>1. \A t \in Tenants, r \in Rules : Settled(outcome[t][r]) \in Outcomes
        BY <1>7 DEF Settled, Unheard, Outcomes
      <3> QED BY <3>1, <1>1
    <2>2. reports' \in [Tenants -> [Rules -> 0 .. 1]]
      <3>1. \A t \in Tenants, r \in Rules :
               (IF Unheard(outcome[t][r]) THEN reports[t][r] + 1 ELSE reports[t][r]) \in 0 .. 1
        BY <1>7 DEF Unheard
      <3> QED BY <3>1, <1>1
    <2> QED BY <2>1, <2>2, <1>1 DEF DeployInv, ControlInv, LogOK
  <1>10. \A t \in Tenants : FailedOn(t)' <=> FailedOn(t)
    BY <1>8 DEF FailedOn
  <1>11. LogInv'
    <2>1. \A t \in Tenants, r \in Rules : outcome'[t][r] # "none" /\ reports'[t][r] = 1
      BY <1>8
    <2>2. \A t \in Tenants : (\E r \in Rules : outcome'[t][r] = "not_attempted") => FailedOn(t)'
      BY <1>7, <1>8, <1>10
    <2>3. error' <=> \E t \in Tenants : FailedOn(t)'
      BY <1>1, <1>10 DEF DeployInv, ControlInv, LogInv
    <2> QED BY <1>1, <2>1, <2>2, <2>3 DEF LogInv, EveryRuleReported, FailedOn
  <1>12. LiveRules'
    BY <1>1, LiveSame DEF DeployInv
  <1>13. PlanInv' /\ CallInv' /\ PolicyInv'
    BY <1>1, <1>4 DEF DeployInv, ControlInv, PlaceInv, CallData, PlanInv, CallInv, PolicyInv
  <1> QED BY <1>2, <1>3, <1>5, <1>9, <1>11, <1>12, <1>13 DEF DeployInv, ControlInv, CallData

LEMMA KilledKeeps ==
  ASSUME DeployInv, Killed
  PROVE  DeployInv'
  <1>1. /\ stage # "idle" /\ faults < MaxFaults /\ faults' = faults + 1
        /\ lost' = IF answer = NoId THEN lost ELSE [lost EXCEPT ![tenant] = @ \cup {answer}]
        /\ creates' = FALSE /\ left' = {} /\ tenant' = NoTenant
        /\ plan' = [r \in Rules |-> "none"] /\ rule' = NoRule
        /\ stage' = "idle" /\ purpose' = "none" /\ listed' = Nothing
        /\ old' = Gone.name /\ answer' = NoId /\ marked' = FALSE
        /\ outcome' = [t \in Tenants |-> [r \in Rules |-> "none"]]
        /\ reports' = [t \in Tenants |-> [r \in Rules |-> 0]]
        /\ error' = TRUE
        /\ UNCHANGED <<want, shard, remote, policy, merges, runs, console>>
    BY DEF Killed
  <1>2. answer # NoId => tenant \in Tenants /\ answer \in Ids
    BY AtCall DEF DeployInv, ControlInv, PlaceInv, PlaceOK
  <1>3. /\ lost' \in [Tenants -> SUBSET Ids]
        /\ \A t \in Tenants : lost[t] \subseteq lost'[t]
        /\ answer # NoId => answer \in lost'[tenant]
    <2>1. CASE answer = NoId
      BY <2>1, <1>1 DEF DeployInv, WorldOK
    <2>2. CASE answer # NoId
      BY <2>2, <1>1, <1>2 DEF DeployInv, WorldOK
    <2> QED BY <2>1, <2>2
  <1>4. WorldOK'
    <2>1. faults' \in 0 .. MaxFaults
      BY <1>1, SysdigAssumption DEF DeployInv, WorldOK
    <2> QED BY <2>1, <1>1, <1>3 DEF DeployInv, WorldOK
  <1>5. PlaceOK'
    BY <1>1 DEF PlaceOK, Stages, Purposes, Kinds, Nothing, NoRule, NoTenant
  <1>6. LogOK'
    <2>1. outcome' \in [Tenants -> [Rules -> Outcomes]]
      BY <1>1 DEF Outcomes
    <2>2. reports' \in [Tenants -> [Rules -> 0 .. 1]]
      BY <1>1
    <2> QED BY <2>1, <2>2, <1>1 DEF LogOK
  <1>7. PlaceInv'
    BY <1>1, NoneIsNoRule DEF PlaceInv, AtRule, NoId
  <1>8. LogInv'
    BY <1>1 DEF LogInv, EveryRuleReported, Reported
  <1>9. LiveRules'
    <2>1. ASSUME NEW t \in Tenants, NEW id \in Ids, remote[t][id] # Gone
          PROVE  /\ remote[t][id].name[1] = remote[t][id].of
                 /\ id \in lost'[t] \/ shard[t][remote[t][id].of] = id
      BY <2>1, <1>3 DEF DeployInv, LiveRules, LiveInv, NoId, Ids
    <2>2. LiveInv'
      BY <2>1, <1>1 DEF LiveInv
    <2>3. ShardInv'
      BY <1>1 DEF DeployInv, LiveRules, ShardInv
    <2> QED BY <2>2, <2>3 DEF LiveRules
  <1>10. PlanInv' /\ CallInv' /\ PolicyInv'
    BY <1>1 DEF PlanInv, CallInv, PolicyInv, AtRule
  <1> QED BY <1>4, <1>5, <1>6, <1>7, <1>8, <1>9, <1>10 DEF DeployInv, ControlInv, CallData

LEMMA BeginKeeps ==
  ASSUME DeployInv, NEW r \in Rules, Begin(r)
  PROVE  DeployInv'
  <1>1. /\ stage = "rule" /\ plan[r] # "none" /\ rule' = r
        /\ purpose' = IF plan[r] = "delete" THEN "retire" ELSE "none"
        /\ stage' = CASE plan[r] = "create" -> "post"
                      [] plan[r] = "update" -> "get"
                      [] plan[r] = "delete" ->
                            IF want[r].policies = {} THEN "delete" ELSE "list"
        /\ UNCHANGED <<want, shard, remote, policy, lost, counters, creates, left, tenant, plan,
                       listed, old, answer, marked, outcome, reports, error>>
    BY DEF Begin, worldVars, placeVars, logVars
  <1>2. plan[r] \in {"create", "update", "delete"}
    BY <1>1 DEF DeployInv, ControlInv, PlaceOK, Kinds
  <1>3. /\ plan[r] = "create" => stage' = "post"
        /\ plan[r] = "update" => stage' = "get"
        /\ plan[r] = "delete" => stage' = IF want[r].policies = {} THEN "delete" ELSE "list"
    <2>1. CASE plan[r] = "create"
      BY <2>1, <1>1
    <2>2. CASE plan[r] = "update"
      BY <2>2, <1>1
    <2>3. CASE plan[r] = "delete"
      BY <2>3, <1>1
    <2> QED BY <2>1, <2>2, <2>3, <1>2
  <1>4. stage' \in {"post", "get", "delete", "list"}
    BY <1>2, <1>3
  <1>5. rule \notin Rules /\ tenant \in Tenants
    BY <1>1 DEF DeployInv, ControlInv, PlaceInv, AtRule
  <1>6. WorldOK'
    BY <1>1 DEF DeployInv, WorldOK, counters
  <1>7. PlaceOK' /\ LogOK'
    BY <1>1, <1>4 DEF DeployInv, ControlInv, PlaceOK, LogOK, Stages, Purposes
  <1>8. PlaceInv'
    BY <1>1, <1>4, <1>5 DEF DeployInv, ControlInv, PlaceInv, AtRule, Stages
  <1>9. LogInv'
    <2>1. stage' # "idle" /\ stage # "idle"
      BY <1>1, <1>4
    <2>2. UNCHANGED <<left, tenant, plan, outcome, reports, error>>
      BY <1>1
    <2> QED BY <2>1, <2>2 DEF DeployInv, ControlInv, LogInv, FailedOn, EveryRuleReported, Reported
  <1>10. LiveRules'
    BY <1>1, LiveSame DEF DeployInv
  <1>11. PlanInv'
    BY <1>1, <1>5 DEF DeployInv, CallData, PlanInv
  <1>12. /\ plan[r] = "create" => want[r].strategy = "deploy" /\ shard[tenant][r] = NoId
         /\ plan[r] = "update" => want[r].strategy # "delete" /\ shard[tenant][r] # NoId
         /\ plan[r] = "delete" => want[r].strategy = "delete" /\ shard[tenant][r] # NoId
    BY <1>5 DEF DeployInv, CallData, PlanInv
  <1>13. CallInv'
    BY <1>1, <1>2, <1>3, <1>12 DEF CallInv, AtRule, Stages, Wants, Bound
  <1>14. PolicyInv'
    BY <1>1, <1>2, <1>3, <1>12 DEF PolicyInv, Wants, Named
  <1> QED BY <1>6, <1>7, <1>8, <1>9, <1>10, <1>11, <1>13, <1>14 DEF DeployInv, ControlInv, CallData

-----------------------------------------------------------------------------
(***************************************************************************)
(* The calls of a rule. Those that end it, and those that go on to the        *)
(* policies, keep the invariant if they keep what is in the world.           *)
(***************************************************************************)
OthersShards == \A r \in Rules \ {rule} : shard'[tenant][r] = shard[tenant][r]

LEMMA EndsKeeps ==
  ASSUME DeployInv, stage \in AtRule, WorldOK', LiveRules', UNCHANGED placeVars,
         want' = want, OthersShards, NEW f \in BOOLEAN, Leaves(f) \/ StopsTenant
  PROVE  DeployInv'
  <1>1. ControlInv'
    BY LeavesKeepsControl, StopsKeepsControl DEF DeployInv
  <1>2. OthersPlanned
    BY DEF OthersPlanned, OthersShards, placeVars
  <1>3. CallData'
    BY <1>2, EndsKeepsData DEF DeployInv, CallData
  <1> QED BY <1>1, <1>3 DEF DeployInv

LEMMA ListsForKeeps ==
  ASSUME DeployInv, stage \in AtRule, WorldOK', LiveRules', UNCHANGED placeVars,
         want' = want, OthersShards, NEW f \in BOOLEAN,
         NEW why \in {"rename", "join", "leave"}, ListsFor(why, f),
         why = "rename" => old[1] = rule /\ ~Wants("delete"),
         why = "join" => Wants("deploy"),
         why = "leave" => Wants("disable"),
         ~f => /\ shard'[tenant][rule] # NoId
               /\ remote'[tenant][shard'[tenant][rule]] = Made
               /\ Wants("disable") => ~Tuning
  PROVE  DeployInv'
  <1>1. CASE Named = {} /\ Leaves(f)
    BY <1>1, EndsKeeps
  <1>2. CASE /\ GoesTo("list")
             /\ purpose' = why /\ marked' = f /\ answer' = NoId /\ UNCHANGED old
    <2>1. why \in Purposes
      BY DEF Purposes
    <2>2. ControlInv'
      BY <2>1, ListsForKeepsControl DEF DeployInv
    <2>3. /\ stage' = "list" /\ purpose' = why /\ marked' = f /\ old' = old
          /\ plan' = plan /\ rule' = rule /\ tenant' = tenant /\ listed' = listed
      BY <1>2 DEF GoesTo, placeVars
    <2>4. PlanInv'
      BY <2>3, GoesKeepsPlan DEF DeployInv, CallData, OthersPlanned, OthersShards
    <2>5. CallInv'
      BY <2>3 DEF CallInv, AtRule, Stages
    <2>6. PolicyInv'
      BY <2>3 DEF PolicyInv, Wants, Bound, Made, Name, Tuning
    <2> QED BY <2>2, <2>4, <2>5, <2>6 DEF DeployInv, CallData
  <1> QED BY <1>1, <1>2 DEF ListsFor

LEMMA WorldSame ==
  ASSUME DeployInv, UNCHANGED <<want, shard, remote, policy, lost, counters>>
  PROVE  WorldOK'
  BY DEF DeployInv, WorldOK, counters

LEMMA FaultCounted ==
  ASSUME WorldOK, Fault
  PROVE  /\ faults' \in 0 .. MaxFaults
         /\ UNCHANGED <<want, merges, runs, console, creates, left, tenant>>
  BY SysdigAssumption DEF WorldOK, Fault, placeVars

\* Calls that change nothing and end the rule: refused, stale, or a policy is missing.
LEMMA QuietEndKeeps ==
  ASSUME DeployInv, stage \in AtRule \ {"record"}, UNCHANGED placeVars,
         UNCHANGED <<want, shard, remote, policy, lost, merges, runs, console>>,
         faults' \in 0 .. MaxFaults, NEW f \in BOOLEAN, Leaves(f) \/ StopsTenant
  PROVE  DeployInv'
  <1>1. answer = NoId /\ stage \in AtRule
    BY DEF DeployInv, ControlInv, PlaceInv
  <1>2. WorldOK'
    BY DEF DeployInv, WorldOK
  <1>3. LiveRules'
    BY <1>1, LiveSame DEF DeployInv
  <1> QED BY <1>1, <1>2, <1>3, EndsKeeps DEF OthersShards

LEMMA RefusedKeeps ==
  ASSUME DeployInv, CallRefused \/ CallFails \/ ForgetFails
  PROVE  DeployInv'
  <1>1. stage \in AtRule \ {"record"} /\ Fault
        /\ UNCHANGED <<shard, remote, policy, lost>> /\ (Leaves(TRUE) \/ StopsTenant)
    BY DEF CallRefused, CallFails, ForgetFails, Calls, AtRule, Stages
  <1>2. faults' \in 0 .. MaxFaults /\ UNCHANGED <<want, merges, runs, console, placeVars>>
    BY <1>1, FaultCounted DEF DeployInv, placeVars
  <1> QED BY <1>1, <1>2, QuietEndKeeps

LEMMA NotDoneKeeps ==
  ASSUME DeployInv, RecreateRefused \/ PolicyMissing \/ \E p \in Policies : StalePolicy(p)
  PROVE  DeployInv'
  <1>1. stage \in AtRule \ {"record"} /\ UNCHANGED <<worldVars, placeVars>> /\ Leaves(TRUE)
    BY DEF RecreateRefused, PolicyMissing, StalePolicy, AtRule, Stages
  <1>2. faults' \in 0 .. MaxFaults
    BY <1>1 DEF worldVars, counters, DeployInv, WorldOK
  <1> QED BY <1>1, <1>2, QuietEndKeeps DEF worldVars, counters

-----------------------------------------------------------------------------
(***************************************************************************)
(* Create and record.                                                       *)
(***************************************************************************)
LEMMA NextIdIsUnused ==
  ASSUME Unused(tenant) # {}
  PROVE  NextId \in Unused(tenant)
  <1>1. Unused(tenant) \subseteq Nat
    BY DEF Unused, Ids
  <1>2. PICK id \in Unused(tenant) : \A other \in Unused(tenant) :
                                        <<other, id>> \notin OpToRel(<, Nat)
    BY <1>1, WFMin, NatLessThanWellFounded
  <1>3. \A other \in Unused(tenant) : id <= other
    <2> SUFFICES ASSUME NEW other \in Unused(tenant) PROVE id <= other
      OBVIOUS
    <2>1. id \in Nat /\ other \in Nat
      BY <1>1
    <2>2. <<other, id>> \notin {pair \in Nat \X Nat : pair[1] < pair[2]}
      BY <1>2 DEF OpToRel
    <2>3. ~(other < id)
      BY <2>1, <2>2
    <2> QED BY <2>1, <2>3
  <1> QED BY <1>3 DEF NextId

LEMMA MadeIsRemote ==
  ASSUME WorldOK, rule \in Rules
  PROVE  Made \in RemoteRules /\ Made # Gone
  BY NoneIsNoRule DEF WorldOK, Made, Name, RemoteRules, Gone

\* A create, answered or not, and carried out twice.
LEMMA CreateKeepsWorld ==
  ASSUME DeployInv, stage = "post", NEW made \in SUBSET Unused(tenant), made # {},
         \/ \E id \in Ids : made = {id} /\ remote' = [remote EXCEPT ![tenant][id] = Made]
         \/ \E id, other \in Ids :
               /\ made = {id, other}
               /\ remote' = [remote EXCEPT ![tenant][id] = Made, ![tenant][other] = Made]
  PROVE  /\ remote' \in [Tenants -> [Ids -> RemoteRules]]
         /\ \A t \in Tenants, id \in Ids :
               remote'[t][id] = IF t = tenant /\ id \in made THEN Made ELSE remote[t][id]
  <1>1. rule \in Rules /\ tenant \in Tenants
    BY AtCall DEF DeployInv, AtRule, Stages
  <1>2. Made \in RemoteRules
    BY <1>1, MadeIsRemote DEF DeployInv
  <1>3. ASSUME NEW id \in Ids, made = {id}, remote' = [remote EXCEPT ![tenant][id] = Made]
        PROVE  /\ remote' \in [Tenants -> [Ids -> RemoteRules]]
               /\ \A t \in Tenants, i \in Ids :
                     remote'[t][i] = IF t = tenant /\ i \in made THEN Made ELSE remote[t][i]
    BY <1>1, <1>2, <1>3 DEF DeployInv, WorldOK
  <1>4. ASSUME NEW id \in Ids, NEW other \in Ids, made = {id, other},
               remote' = [remote EXCEPT ![tenant][id] = Made, ![tenant][other] = Made]
        PROVE  /\ remote' \in [Tenants -> [Ids -> RemoteRules]]
               /\ \A t \in Tenants, i \in Ids :
                     remote'[t][i] = IF t = tenant /\ i \in made THEN Made ELSE remote[t][i]
    <2> DEFINE first == [remote EXCEPT ![tenant][id] = Made]
    <2>1. /\ first \in [Tenants -> [Ids -> RemoteRules]]
          /\ \A t \in Tenants, i \in Ids :
                first[t][i] = IF t = tenant /\ i = id THEN Made ELSE remote[t][i]
      BY <1>1, <1>2 DEF DeployInv, WorldOK
    <2>2. remote' = [first EXCEPT ![tenant][other] = Made]
      BY <1>4
    <2> HIDE DEF first
    <2>3. /\ remote' \in [Tenants -> [Ids -> RemoteRules]]
          /\ \A t \in Tenants, i \in Ids :
                remote'[t][i] = IF t = tenant /\ i = other THEN Made ELSE first[t][i]
      BY <1>1, <1>2, <2>1, <2>2
    <2> QED BY <2>1, <2>3, <1>4
  <1> QED BY <1>3, <1>4

LEMMA UnusedIds ==
  ASSUME NEW t \in Tenants, NEW id \in Unused(t)
  PROVE  /\ id \in Ids /\ remote[t][id] = Gone /\ id \notin lost[t]
         /\ \A r \in Rules : shard[t][r] # id
  BY DEF Unused

\* The answer of a create is at hand: the deploy goes on to record it.
LEMMA ToRecordKeeps ==
  ASSUME DeployInv, stage = "post", NEW made \in SUBSET Unused(tenant),
         answer' \in made, WorldOK', LiveRules', GoesTo("record"),
         \A t \in Tenants, id \in Ids :
            remote'[t][id] = IF t = tenant /\ id \in made THEN Made ELSE remote[t][id],
         UNCHANGED <<want, shard, policy, placeVars, purpose, old, marked>>
  PROVE  DeployInv'
  <1>1. stage \in AtRule /\ rule \in Rules /\ tenant \in Tenants
    BY AtCall DEF DeployInv, AtRule, Stages
  <1>2. /\ stage' = "record"
        /\ UNCHANGED <<plan, rule, listed, outcome, reports, error, creates, left, tenant>>
    BY DEF GoesTo, logVars, placeVars
  <1>3. /\ answer' \in Ids /\ answer' # NoId
        /\ \A r \in Rules : shard[tenant][r] # answer'
    BY <1>1, UnusedIds DEF NoId, Ids
  <1>4. PlaceOK'
    BY <1>2, <1>3 DEF DeployInv, ControlInv, PlaceOK, Stages
  <1>5. stage' \in AtRule /\ (answer' # NoId <=> stage' = "record")
    BY <1>2, <1>3 DEF AtRule, Stages
  <1>6. ControlInv'
    BY <1>1, <1>2, <1>4, <1>5, GoesKeepsControl DEF DeployInv, logVars
  <1>7. PlanInv'
    BY <1>2, GoesKeepsPlan DEF DeployInv, CallData, OthersPlanned
  <1>8. Bound' = Bound /\ Made' = Made /\ rule' = rule /\ tenant' = tenant
    BY <1>2 DEF Bound, Made, Name
  <1>9. Bound # NoId => remote'[tenant][Bound] = remote[tenant][Bound]
    <2> SUFFICES ASSUME Bound # NoId PROVE remote'[tenant][Bound] = remote[tenant][Bound]
      OBVIOUS
    <2>1. Bound \in Ids
      BY <1>1 DEF DeployInv, WorldOK, Bound
    <2>2. Bound \notin made
      BY <1>1 DEF Bound, Unused
    <2> QED BY <1>1, <2>1, <2>2
  <1>10. Bound = NoId \/ remote[tenant][Bound] = Gone
    BY DEF DeployInv, CallData, CallInv
  <1>11. remote'[tenant][answer'] = Made
    BY <1>1, <1>3
  <1>12. /\ purpose' = purpose /\ old' = old /\ Wants("deploy")'
         /\ purpose = "retire" => Bound # NoId
         /\ purpose = "rename" => old[1] = rule
    BY <1>2 DEF DeployInv, CallData, CallInv, Wants
  <1>13. CallInv'
    BY <1>2, <1>3, <1>8, <1>9, <1>10, <1>11, <1>12 DEF CallInv, AtRule, Stages
  <1>14. PolicyInv'
    BY <1>2 DEF PolicyInv
  <1> QED BY <1>6, <1>7, <1>13, <1>14 DEF DeployInv, CallData

LEMMA CreateRuleKeeps ==
  ASSUME DeployInv, CreateRule
  PROVE  DeployInv'
  <1>1. /\ stage = "post" /\ Unused(tenant) # {}
        /\ remote' = [remote EXCEPT ![tenant][NextId] = Made] /\ answer' = NextId
        /\ GoesTo("record")
        /\ UNCHANGED <<want, shard, policy, lost, counters, placeVars, purpose, old, marked>>
    BY DEF CreateRule
  <1>2. stage \in AtRule /\ tenant \in Tenants /\ answer = NoId
    BY <1>1, AtCall DEF DeployInv, AtRule, Stages, ControlInv, PlaceInv
  <1>3. NextId \in Unused(tenant) /\ NextId \in Ids
    BY <1>1, NextIdIsUnused DEF Unused
  <1> DEFINE made == {NextId}
  <1>4. /\ made \in SUBSET Unused(tenant) /\ made # {}
        /\ remote' \in [Tenants -> [Ids -> RemoteRules]]
        /\ \A t \in Tenants, id \in Ids :
              remote'[t][id] = IF t = tenant /\ id \in made THEN Made ELSE remote[t][id]
    <2>1. made \in SUBSET Unused(tenant) /\ made # {}
      BY <1>3
    <2>2. \E id \in Ids : made = {id} /\ remote' = [remote EXCEPT ![tenant][id] = Made]
      BY <1>1, <1>3
    <2> HIDE DEF made
    <2> QED BY <1>1, <2>1, <2>2, CreateKeepsWorld
  <1>5. WorldOK'
    BY <1>1, <1>4 DEF DeployInv, WorldOK, counters
  <1>6. answer' \in made /\ lost' = lost /\ tenant' = tenant
    BY <1>1 DEF placeVars
  <1> HIDE DEF made
  <1>7. \A id \in made : id = answer'
    BY <1>6 DEF made
  <1>8. LiveRules'
    BY <1>1, <1>2, <1>4, <1>6, <1>7, MakesKeepsLive DEF DeployInv
  <1> QED BY <1>1, <1>4, <1>5, <1>6, <1>8, ToRecordKeeps

LEMMA CreateRetriedKeeps ==
  ASSUME DeployInv, CreateRetried
  PROVE  DeployInv'
  <1>1. PICK id \in Unused(tenant) \ {NextId} :
           /\ remote' = [remote EXCEPT ![tenant][NextId] = Made, ![tenant][id] = Made]
           /\ answer' = id
    BY DEF CreateRetried
  <1>2. /\ stage = "post" /\ Fault /\ Unused(tenant) # {} /\ GoesTo("record")
        /\ lost' = [lost EXCEPT ![tenant] = @ \cup {NextId}]
        /\ UNCHANGED <<shard, policy, purpose, old, marked>>
    BY <1>1 DEF CreateRetried
  <1>3. stage \in AtRule /\ tenant \in Tenants /\ answer = NoId
    BY <1>2, AtCall DEF DeployInv, AtRule, Stages, ControlInv, PlaceInv
  <1>4. NextId \in Unused(tenant) /\ NextId \in Ids /\ id \in Ids
    BY <1>1, <1>2, NextIdIsUnused DEF Unused
  <1> DEFINE made == {NextId, id}
  <1>5. made \in SUBSET Unused(tenant) /\ made # {}
    BY <1>1, <1>4
  <1>6. /\ remote' \in [Tenants -> [Ids -> RemoteRules]]
        /\ \A t \in Tenants, i \in Ids :
              remote'[t][i] = IF t = tenant /\ i \in made THEN Made ELSE remote[t][i]
    BY <1>1, <1>2, <1>4, <1>5, CreateKeepsWorld
  <1>7. faults' \in 0 .. MaxFaults /\ UNCHANGED <<want, merges, runs, console, placeVars>>
    BY <1>2, FaultCounted DEF DeployInv, placeVars
  <1>8. /\ lost' \in [Tenants -> SUBSET Ids] /\ NextId \in lost'[tenant]
        /\ \A t \in Tenants : lost[t] \subseteq lost'[t]
    BY <1>2, <1>3, <1>4 DEF DeployInv, WorldOK
  <1>9. WorldOK'
    BY <1>2, <1>6, <1>7, <1>8 DEF DeployInv, WorldOK
  <1>10. \A i \in made : i \in lost'[tenant] \/ i = answer'
    BY <1>1, <1>8
  <1>11. LiveRules'
    BY <1>2, <1>3, <1>5, <1>6, <1>7, <1>8, <1>10, MakesKeepsLive DEF DeployInv, placeVars
  <1>12. answer' \in made
    BY <1>1
  <1> QED BY <1>2, <1>5, <1>6, <1>7, <1>9, <1>11, <1>12, ToRecordKeeps

LEMMA CreateUnansweredKeeps ==
  ASSUME DeployInv, CreateUnanswered
  PROVE  DeployInv'
  <1>1. /\ stage = "post" /\ Fault /\ Unused(tenant) # {}
        /\ remote' = [remote EXCEPT ![tenant][NextId] = Made]
        /\ lost' = [lost EXCEPT ![tenant] = @ \cup {NextId}]
        /\ Leaves(TRUE) \/ StopsTenant
        /\ UNCHANGED <<shard, policy>>
    BY DEF CreateUnanswered
  <1>2. stage \in AtRule /\ tenant \in Tenants /\ answer = NoId
    BY <1>1, AtCall DEF DeployInv, AtRule, Stages, ControlInv, PlaceInv
  <1>3. NextId \in Unused(tenant) /\ NextId \in Ids
    BY <1>1, NextIdIsUnused DEF Unused
  <1> DEFINE made == {NextId}
  <1>4. /\ made \in SUBSET Unused(tenant) /\ made # {}
        /\ remote' \in [Tenants -> [Ids -> RemoteRules]]
        /\ \A t \in Tenants, id \in Ids :
              remote'[t][id] = IF t = tenant /\ id \in made THEN Made ELSE remote[t][id]
    <2>1. made \in SUBSET Unused(tenant) /\ made # {}
      BY <1>3
    <2>2. \E id \in Ids : made = {id} /\ remote' = [remote EXCEPT ![tenant][id] = Made]
      BY <1>1, <1>3
    <2> HIDE DEF made
    <2> QED BY <1>1, <2>1, <2>2, CreateKeepsWorld
  <1>5. faults' \in 0 .. MaxFaults /\ UNCHANGED <<want, merges, runs, console, placeVars>>
    BY <1>1, FaultCounted DEF DeployInv, placeVars
  <1>6. /\ lost' \in [Tenants -> SUBSET Ids] /\ NextId \in lost'[tenant]
        /\ \A t \in Tenants : lost[t] \subseteq lost'[t]
    BY <1>1, <1>2, <1>3 DEF DeployInv, WorldOK
  <1>7. WorldOK'
    BY <1>1, <1>4, <1>5, <1>6 DEF DeployInv, WorldOK
  <1>8. (\A id \in made : id \in lost'[tenant]) /\ tenant' = tenant
    BY <1>5, <1>6 DEF placeVars
  <1> HIDE DEF made
  <1>9. LiveRules'
    BY <1>1, <1>2, <1>4, <1>6, <1>8, MakesKeepsLive DEF DeployInv
  <1> QED BY <1>1, <1>2, <1>5, <1>7, <1>9, EndsKeeps DEF OthersShards

\* What is known of the rule when the id of its create is recorded or not.
LEMMA AtRecord ==
  ASSUME DeployInv, stage = "record"
  PROVE  /\ stage \in AtRule /\ rule \in Rules /\ tenant \in Tenants /\ answer \in Ids
         /\ answer # NoId /\ Wants("deploy")
         /\ Bound = NoId \/ remote[tenant][Bound] = Gone
         /\ remote[tenant][answer] = Made
         /\ \A r \in Rules : shard[tenant][r] # answer
  <1>1. stage \in AtRule /\ rule \in Rules /\ tenant \in Tenants
    BY AtCall DEF DeployInv, AtRule, Stages
  <1>2. answer \in Ids /\ answer # NoId
    BY DEF DeployInv, ControlInv, PlaceInv, PlaceOK
  <1> QED BY <1>1, <1>2 DEF DeployInv, CallData, CallInv

LEMMA RecordCreatedKeeps ==
  ASSUME DeployInv, RecordCreated
  PROVE  DeployInv'
  <1>1. /\ stage = "record" /\ shard' = [shard EXCEPT ![tenant][rule] = answer]
        /\ ListsFor("join", FALSE)
        /\ UNCHANGED <<want, remote, policy, lost, counters, placeVars>>
    BY DEF RecordCreated, Recorded
  <1>2. WorldOK'
    <2>1. shard' \in [Tenants -> [Rules -> Ids \cup {NoId}]]
      BY <1>1, AtRecord DEF DeployInv, WorldOK
    <2> QED BY <2>1, <1>1 DEF DeployInv, WorldOK, counters
  <1>3. LiveRules'
    BY <1>1, AtRecord, RecordKeepsLive DEF DeployInv, placeVars
  <1>4. shard'[tenant][rule] = answer /\ OthersShards
    BY <1>1, AtRecord DEF DeployInv, WorldOK, OthersShards
  <1>5. Wants("deploy") /\ ~Wants("disable") /\ remote'[tenant][answer] = Made /\ answer # NoId
    BY <1>1, AtRecord DEF Wants
  <1>6. stage \in AtRule
    BY <1>1, AtRecord
  <1> QED BY <1>1, <1>2, <1>3, <1>4, <1>5, <1>6, ListsForKeeps

LEMMA RecordFailsKeeps ==
  ASSUME DeployInv, RecordFails
  PROVE  DeployInv'
  <1>1. /\ stage = "record" /\ Fault
        /\ lost' = [lost EXCEPT ![tenant] = @ \cup {answer}]
        /\ ListsFor("join", TRUE)
        /\ UNCHANGED <<shard, remote, policy>>
    BY DEF RecordFails
  <1>2. faults' \in 0 .. MaxFaults /\ UNCHANGED <<want, merges, runs, console, placeVars>>
    BY <1>1, FaultCounted DEF DeployInv, placeVars
  <1>3. /\ lost' \in [Tenants -> SUBSET Ids] /\ answer \in lost'[tenant]
        /\ \A t \in Tenants : lost[t] \subseteq lost'[t]
    BY <1>1, AtRecord DEF DeployInv, WorldOK
  <1>4. WorldOK'
    BY <1>1, <1>2, <1>3 DEF DeployInv, WorldOK
  <1>5. LiveRules'
    <2>1. LiveInv'
      BY <1>1, <1>2, <1>3 DEF DeployInv, LiveRules, LiveInv
    <2>2. ShardInv'
      BY <1>1 DEF DeployInv, LiveRules, ShardInv
    <2> QED BY <2>1, <2>2 DEF LiveRules
  <1>6. stage \in AtRule /\ Wants("deploy") /\ OthersShards
    BY <1>1, AtRecord DEF OthersShards
  <1> QED BY <1>1, <1>2, <1>4, <1>5, <1>6, ListsForKeeps

-----------------------------------------------------------------------------
(***************************************************************************)
(* Read, update, delete and forget.                                         *)
(***************************************************************************)
LEMMA AtId ==
  ASSUME DeployInv, stage \in {"get", "put", "delete", "forget"}
  PROVE  /\ stage \in AtRule /\ rule \in Rules /\ tenant \in Tenants /\ answer = NoId
         /\ Bound \in Ids /\ Bound # NoId
  <1>1. stage \in AtRule /\ rule \in Rules /\ tenant \in Tenants
    BY AtCall DEF DeployInv, AtRule, Stages
  <1>2. answer = NoId
    BY DEF DeployInv, ControlInv, PlaceInv
  <1>3. Bound # NoId
    BY DEF DeployInv, CallData, CallInv
  <1>4. Bound \in Ids
    BY <1>1, <1>3 DEF DeployInv, WorldOK, Bound
  <1> QED BY <1>1, <1>2, <1>3, <1>4

ReadOrMissing ==
    \/ ReadRule
    \/ RuleMissing

LEMMA ReadKeeps ==
  ASSUME DeployInv, ReadOrMissing
  PROVE  DeployInv'
  <1>1. /\ stage = "get" /\ stage' \in {"put", "delete", "forget", "post"}
        /\ UNCHANGED <<want, shard, remote, policy, lost, counters, placeVars, purpose, answer,
                       marked, plan, rule, listed, logVars>>
    BY DEF ReadOrMissing, ReadRule, RuleMissing, GoesTo, worldVars
  <1>2. /\ stage \in AtRule /\ rule \in Rules /\ tenant \in Tenants /\ answer = NoId
        /\ Bound \in Ids /\ Bound # NoId
    BY <1>1, AtId
  <1>3. \/ old' \in Names /\ old'[1] = rule
        \/ old' = old /\ stage' \in {"forget", "post"}
    <2>1. CASE ReadRule
      <3>1. remote[tenant][Bound] # Gone /\ old' = remote[tenant][Bound].name
        BY <2>1 DEF ReadRule
      <3>2. remote[tenant][Bound].of = rule
        BY <1>2, <3>1 DEF DeployInv, LiveRules, ShardInv, Bound
      <3>3. remote[tenant][Bound].name[1] = rule
        BY <1>2, <3>1, <3>2 DEF DeployInv, LiveRules, LiveInv
      <3>4. remote[tenant][Bound].name \in Names
        BY <1>2, <3>1 DEF DeployInv, WorldOK, RemoteRules
      <3> QED BY <3>1, <3>3, <3>4
    <2>2. CASE RuleMissing
      BY <2>2 DEF RuleMissing, GoesTo
    <2> QED BY <2>1, <2>2 DEF ReadOrMissing
  <1>4. ControlInv'
    <2>1. PlaceOK'
      BY <1>1, <1>3 DEF DeployInv, ControlInv, PlaceOK, placeVars, Stages
    <2>2. stage' \in AtRule /\ stage' # "record"
      BY <1>1 DEF AtRule, Stages
    <2> QED BY <1>1, <1>2, <2>1, <2>2, GoesKeepsControl DEF DeployInv
  <1>5. WorldOK'
    BY <1>1, WorldSame
  <1>6. LiveRules'
    BY <1>1, LiveSame DEF DeployInv, placeVars
  <1>7. PlanInv'
    BY <1>1, GoesKeepsPlan DEF DeployInv, CallData, OthersPlanned, placeVars
  <1>8. ~Wants("delete") /\ want[rule].strategy \in Strategies
    BY <1>1, <1>2 DEF DeployInv, CallData, CallInv, WorldOK
  <1>9. /\ stage' = "post" => Wants("deploy") /\ remote[tenant][Bound] = Gone
        /\ stage' = "forget" => remote[tenant][Bound] = Gone
        /\ stage' = "put" /\ Wants("disable") => ~Tuning
        /\ stage' \in {"delete", "forget"} => ~Wants("deploy")
    <2>1. CASE ReadRule
      BY <2>1 DEF ReadRule, GoesTo, Wants
    <2>2. CASE RuleMissing
      BY <2>2, <1>8 DEF RuleMissing, GoesTo, Wants, Strategies
    <2> QED BY <2>1, <2>2 DEF ReadOrMissing
  <1>10. /\ UNCHANGED <<purpose, rule, tenant, want, shard, remote, policy>>
         /\ \A strategy \in Strategies : Wants(strategy)' <=> Wants(strategy)
         /\ Bound' = Bound /\ Tuning' = Tuning
    BY <1>1 DEF placeVars, Wants, Bound, Tuning
  <1>11. /\ purpose = "retire" => Bound # NoId
         /\ stage' = "put" \/ purpose = "rename" => old'[1] = rule
    BY <1>1, <1>3 DEF DeployInv, CallData, CallInv
  <1>12. CallInv'
    BY <1>1, <1>2, <1>8, <1>9, <1>10, <1>11 DEF CallInv, AtRule, Stages, Strategies
  <1>13. PolicyInv'
    BY <1>1, <1>8, <1>10 DEF PolicyInv, Strategies
  <1> QED BY <1>4, <1>5, <1>6, <1>7, <1>12, <1>13 DEF DeployInv, CallData

LEMMA PutKeepsWorld ==
  ASSUME DeployInv, stage \in {"put", "delete"}, NEW now \in {Made, Gone},
         remote' = [remote EXCEPT ![tenant][Bound] = now]
  PROVE  remote' \in [Tenants -> [Ids -> RemoteRules]]
  <1>1. rule \in Rules /\ tenant \in Tenants /\ Bound \in Ids
    BY AtId
  <1>2. now \in RemoteRules
    BY <1>1, MadeIsRemote DEF DeployInv, RemoteRules
  <1> QED BY <1>1, <1>2 DEF DeployInv, WorldOK

LEMMA UpdateRuleKeeps ==
  ASSUME DeployInv, UpdateRule
  PROVE  DeployInv'
  <1> DEFINE why == IF old # Name THEN "rename" ELSE Last
  <1>1. /\ stage = "put" /\ remote' = [remote EXCEPT ![tenant][Bound] = Made]
        /\ ListsFor(why, FALSE)
        /\ UNCHANGED <<want, shard, policy, lost, counters, placeVars>>
    BY DEF UpdateRule
  <1>2. /\ stage \in AtRule /\ rule \in Rules /\ tenant \in Tenants /\ answer = NoId
        /\ Bound \in Ids /\ Bound # NoId
    BY <1>1, AtId
  <1>3. WorldOK'
    BY <1>1, PutKeepsWorld DEF DeployInv, WorldOK, counters
  <1>4. LiveRules' /\ remote'[tenant][Bound] = Made
    BY <1>1, <1>2, PutKeepsLive DEF DeployInv, placeVars
  <1>5. /\ old[1] = rule /\ ~Wants("delete") /\ (Wants("disable") => ~Tuning)
        /\ want[rule].strategy \in Strategies
    BY <1>1, <1>2 DEF DeployInv, CallData, CallInv, WorldOK
  <1>6. /\ why \in {"rename", "join", "leave"}
        /\ why = "join" => Wants("deploy")
        /\ why = "leave" => Wants("disable")
    BY <1>5 DEF Last, Wants, Strategies
  <1>7. /\ shard'[tenant][rule] # NoId /\ OthersShards
        /\ remote'[tenant][shard'[tenant][rule]] = Made
    BY <1>1, <1>2, <1>4 DEF Bound, OthersShards
  <1> HIDE DEF why
  <1> QED BY <1>1, <1>2, <1>3, <1>4, <1>5, <1>6, <1>7, ListsForKeeps

LEMMA PutUnansweredKeeps ==
  ASSUME DeployInv, UpdateUnanswered \/ DeleteUnanswered
  PROVE  DeployInv'
  <1>1. PICK now \in {Made, Gone} : remote' = [remote EXCEPT ![tenant][Bound] = now]
    BY DEF UpdateUnanswered, DeleteUnanswered
  <1>2. /\ stage \in {"put", "delete"} /\ Fault
        /\ Leaves(TRUE) \/ StopsTenant
        /\ UNCHANGED <<shard, policy, lost>>
    BY DEF UpdateUnanswered, DeleteUnanswered
  <1>3. /\ stage \in AtRule /\ rule \in Rules /\ tenant \in Tenants /\ answer = NoId
        /\ Bound \in Ids /\ Bound # NoId
    BY <1>2, AtId
  <1>4. faults' \in 0 .. MaxFaults /\ UNCHANGED <<want, merges, runs, console, placeVars>>
    BY <1>2, FaultCounted DEF DeployInv, placeVars
  <1>5. WorldOK'
    BY <1>1, <1>2, <1>4, PutKeepsWorld DEF DeployInv, WorldOK
  <1>6. LiveRules'
    BY <1>1, <1>2, <1>3, <1>4, PutKeepsLive DEF DeployInv, placeVars
  <1> QED BY <1>2, <1>3, <1>4, <1>5, <1>6, EndsKeeps DEF OthersShards

LEMMA DeleteRuleKeeps ==
  ASSUME DeployInv, DeleteRule
  PROVE  DeployInv'
  <1>1. /\ stage = "delete" /\ remote' = [remote EXCEPT ![tenant][Bound] = Gone]
        /\ stage' = "forget"
        /\ UNCHANGED <<want, shard, policy, lost, counters, placeVars, purpose, old, answer,
                       marked, plan, rule, listed, logVars>>
    BY DEF DeleteRule, GoesTo
  <1>2. /\ stage \in AtRule /\ rule \in Rules /\ tenant \in Tenants /\ answer = NoId
        /\ Bound \in Ids /\ Bound # NoId
    BY <1>1, AtId
  <1>3. WorldOK'
    BY <1>1, PutKeepsWorld DEF DeployInv, WorldOK, counters
  <1>4. LiveRules' /\ remote'[tenant][Bound] = Gone
    BY <1>1, <1>2, PutKeepsLive DEF DeployInv, placeVars
  <1>5. ControlInv'
    <2>1. PlaceOK'
      BY <1>1 DEF DeployInv, ControlInv, PlaceOK, placeVars, Stages
    <2>2. stage' \in AtRule
      BY <1>1 DEF AtRule, Stages
    <2> QED BY <1>1, <1>2, <2>1, <2>2, GoesKeepsControl DEF DeployInv
  <1>6. PlanInv'
    BY <1>1, GoesKeepsPlan DEF DeployInv, CallData, OthersPlanned, placeVars
  <1>7. /\ UNCHANGED <<purpose, rule, tenant, want, shard, policy, old>>
        /\ Bound' = Bound
    BY <1>1 DEF placeVars, Bound
  <1>8. CallInv'
    BY <1>1, <1>2, <1>4, <1>7 DEF DeployInv, CallData, CallInv, AtRule, Stages, Wants
  <1>9. PolicyInv'
    BY <1>1, <1>7 DEF DeployInv, CallData, PolicyInv, Wants, Named, Name
  <1> QED BY <1>3, <1>4, <1>5, <1>6, <1>8, <1>9 DEF DeployInv, CallData

LEMMA ForgetKeeps ==
  ASSUME DeployInv, Forget
  PROVE  DeployInv'
  <1>1. /\ stage = "forget" /\ shard' = [shard EXCEPT ![tenant][rule] = NoId]
        /\ Leaves(FALSE)
        /\ UNCHANGED <<want, remote, policy, lost, counters, placeVars>>
    BY DEF Forget
  <1>2. stage \in AtRule /\ rule \in Rules /\ tenant \in Tenants
    BY <1>1, AtId
  <1>3. remote[tenant][Bound] = Gone
    BY <1>1 DEF DeployInv, CallData, CallInv
  <1>4. WorldOK'
    <2>1. shard' \in [Tenants -> [Rules -> Ids \cup {NoId}]]
      BY <1>1, <1>2 DEF DeployInv, WorldOK
    <2> QED BY <2>1, <1>1 DEF DeployInv, WorldOK, counters
  <1>5. LiveRules'
    BY <1>1, <1>3, ForgetKeepsLive DEF DeployInv, placeVars
  <1>6. OthersShards
    BY <1>1, <1>2 DEF DeployInv, WorldOK, OthersShards
  <1> QED BY <1>1, <1>2, <1>4, <1>5, <1>6, EndsKeeps

-----------------------------------------------------------------------------
(***************************************************************************)
(* Policies.                                                                *)
(***************************************************************************)
LEMMA ListPoliciesKeeps ==
  ASSUME DeployInv, ListPolicies
  PROVE  DeployInv'
  <1> DEFINE names(p) == policy[tenant][p].names
  <1>1. /\ stage = "list" /\ stage' = "policy"
        /\ listed' = [p \in {q \in Named : Changed(names(q)) # names(q)} |-> names(p)]
        /\ UNCHANGED <<want, shard, remote, policy, lost, counters, placeVars, plan, rule,
                       purpose, old, answer, marked, logVars>>
    BY DEF ListPolicies, worldVars
  <1>2. stage \in AtRule /\ rule \in Rules /\ tenant \in Tenants
    BY <1>1, AtCall DEF DeployInv, AtRule, Stages
  <1>3. Named \subseteq Policies
    BY <1>2 DEF DeployInv, WorldOK, Named
  <1>4. WorldOK' /\ LiveRules'
    BY <1>1, WorldSame, LiveSame DEF DeployInv, placeVars
  <1>5. ControlInv'
    <2>1. DOMAIN listed' \subseteq Policies
          /\ \A p \in DOMAIN listed' : listed'[p] \subseteq Names \cup ConsoleNames
      BY <1>1, <1>2, <1>3 DEF DeployInv, WorldOK
    <2>2. PlaceOK'
      BY <1>1, <2>1 DEF DeployInv, ControlInv, PlaceOK, placeVars, Stages
    <2>3. stage' \in AtRule
      BY <1>1 DEF AtRule, Stages
    <2>4. answer' # NoId <=> stage' = "record"
      BY <1>1 DEF DeployInv, ControlInv, PlaceInv
    <2>5. PlaceInv'
      BY <1>1, <1>2, <2>3, <2>4 DEF DeployInv, ControlInv, PlaceInv, placeVars, AtRule
    <2>6. LogInv'
      BY <1>1, <1>2, <2>3 DEF DeployInv, ControlInv, LogInv, AtRule, placeVars, logVars, FailedOn,
                              EveryRuleReported, Reported
    <2> QED BY <1>1, <2>2, <2>5, <2>6 DEF DeployInv, ControlInv, LogOK, logVars
  <1>6. PlanInv'
    BY <1>1, GoesKeepsPlan DEF DeployInv, CallData, OthersPlanned, placeVars
  <1>7. /\ UNCHANGED <<purpose, rule, tenant, want, shard, remote, policy, old, marked>>
        /\ Bound' = Bound /\ Made' = Made /\ Named' = Named /\ Name' = Name /\ Tuning' = Tuning
    BY <1>1 DEF placeVars, Bound, Made, Named, Name, Tuning
  <1>8. CallInv'
    BY <1>1, <1>2, <1>7 DEF DeployInv, CallData, CallInv, AtRule, Stages
  <1>9. ASSUME NEW p \in Named \ DOMAIN listed'
        PROVE  /\ purpose = "join" => Name \in names(p)
               /\ purpose \in {"leave", "retire"} => Name \notin names(p)
    <2>1. Changed(names(p)) = names(p)
      BY <1>1
    <2>2. CASE purpose = "join"
      <3>1. Changed(names(p)) = names(p) \cup {Name}
        BY <2>2 DEF Changed
      <3> QED BY <2>1, <2>2, <3>1
    <2>3. CASE purpose \in {"leave", "retire"}
      <3>1. Changed(names(p)) = names(p) \ {Name}
        BY <2>3 DEF Changed, Without
      <3> QED BY <2>1, <2>3, <3>1
    <2> QED BY <2>2, <2>3
  <1>10. PolicyInv'
    BY <1>1, <1>7, <1>9 DEF DeployInv, CallData, PolicyInv, Wants
  <1> QED BY <1>4, <1>5, <1>6, <1>8, <1>10 DEF DeployInv, CallData

LEMMA ChangedNames ==
  ASSUME DeployInv, stage = "policy", NEW names \in SUBSET (Names \cup ConsoleNames)
  PROVE  /\ Changed(names) \in SUBSET (Names \cup ConsoleNames)
         /\ Others(Changed(names)) = Others(names)
         /\ purpose = "join" => Name \in Changed(names)
         /\ purpose \in {"leave", "retire"} => Name \notin Changed(names)
  <1>1. rule \in Rules
    BY AtCall DEF DeployInv, AtRule, Stages
  <1>2. Name \in Names /\ Name[1] = rule
    BY <1>1, NameIsOurs DEF DeployInv, Name
  <1>3. CASE purpose = "rename"
    <2>1. old[1] = rule
      BY <1>3 DEF DeployInv, CallData, CallInv
    <2>2. Changed(names) = IF old \in names THEN (names \ {old}) \cup {Name} ELSE names
      BY <1>3 DEF Changed
    <2>3. CASE old \in names
      <3>1. Changed(names) = (names \ {old}) \cup {Name}
        BY <2>2, <2>3
      <3>2. Others(Changed(names)) = Others(names)
        BY <1>2, <2>1, <3>1 DEF Others
      <3> QED BY <1>2, <1>3, <3>1, <3>2
    <2>4. CASE old \notin names
      BY <1>3, <2>2, <2>4
    <2> QED BY <2>3, <2>4
  <1>4. CASE purpose = "join"
    <2>1. Changed(names) = names \cup {Name}
      BY <1>4 DEF Changed
    <2> QED BY <1>2, <1>4, <2>1 DEF Others
  <1>5. CASE purpose \notin {"rename", "join"}
    <2>1. Changed(names) = names \ {Name}
      BY <1>5 DEF Changed, Without
    <2> QED BY <1>2, <1>5, <2>1 DEF Others
  <1> QED BY <1>3, <1>4, <1>5

\* What a policy names once it is written: the others stay as they are.
LEMMA WrittenPolicy ==
  ASSUME DeployInv, stage = "policy", NEW p \in DOMAIN listed, Accepts(p), policy' = Written(p)
  PROVE  /\ policy' \in [Tenants -> [Policies -> [exists : BOOLEAN,
                                                  names : SUBSET (Names \cup ConsoleNames)]]]
         /\ \A t \in Tenants, q \in Policies :
               policy'[t][q].names = IF t = tenant /\ q = p THEN Changed(listed[p])
                                     ELSE policy[t][q].names
         /\ \A t \in Tenants, q \in Policies :
               Others(policy'[t][q].names) = Others(policy[t][q].names)
         /\ p \in Policies
  <1>1. tenant \in Tenants /\ p \in Policies
    BY AtCall DEF DeployInv, AtRule, Stages, ControlInv, PlaceOK
  <1>2. listed[p] \in SUBSET (Names \cup ConsoleNames) /\ listed[p] = policy[tenant][p].names
    BY DEF Accepts, DeployInv, ControlInv, PlaceOK
  <1>3. Changed(listed[p]) \in SUBSET (Names \cup ConsoleNames)
        /\ Others(Changed(listed[p])) = Others(listed[p])
    BY <1>2, ChangedNames
  <1> DEFINE now == [exists |-> policy[tenant][p].exists, names |-> Changed(listed[p])]
  <1>4. now \in [exists : BOOLEAN, names : SUBSET (Names \cup ConsoleNames)]
    BY <1>1, <1>3 DEF DeployInv, WorldOK
  <1>5. policy[tenant][p] \in [exists : BOOLEAN, names : SUBSET (Names \cup ConsoleNames)]
    BY <1>1 DEF DeployInv, WorldOK
  <1>6. [policy[tenant][p] EXCEPT !.names = Changed(listed[p])] = now
    BY <1>5
  <1>7. policy' = [policy EXCEPT ![tenant][p] = now]
    BY <1>6, Zenon DEF Written
  <1>8. now.names = Changed(listed[p])
    OBVIOUS
  <1> HIDE DEF now
  <1>9. policy' \in [Tenants -> [Policies -> [exists : BOOLEAN,
                                               names : SUBSET (Names \cup ConsoleNames)]]]
    BY <1>1, <1>4, <1>7 DEF DeployInv, WorldOK
  <1>10. \A t \in Tenants, q \in Policies :
            policy'[t][q] = IF t = tenant /\ q = p THEN now ELSE policy[t][q]
    BY <1>1, <1>7 DEF DeployInv, WorldOK
  <1>11. \A t \in Tenants, q \in Policies :
            policy'[t][q].names = IF t = tenant /\ q = p THEN Changed(listed[p])
                                  ELSE policy[t][q].names
    BY <1>8, <1>10
  <1>12. \A t \in Tenants, q \in Policies :
            Others(policy'[t][q].names) = Others(policy[t][q].names)
    <2> SUFFICES ASSUME NEW t \in Tenants, NEW q \in Policies
                 PROVE  Others(policy'[t][q].names) = Others(policy[t][q].names)
      OBVIOUS
    <2>1. CASE t = tenant /\ q = p
      <3>1. policy'[t][q].names = Changed(listed[p]) /\ policy[t][q].names = listed[p]
        BY <1>2, <1>11, <2>1
      <3> QED BY <3>1, <1>3
    <2>2. CASE ~(t = tenant /\ q = p)
      <3>1. policy'[t][q].names = policy[t][q].names
        BY <1>11, <2>2
      <3> QED BY <3>1
    <2> QED BY <2>1, <2>2
  <1> QED BY <1>1, <1>9, <1>11, <1>12

LEMMA UpdatePolicyKeeps ==
  ASSUME DeployInv, NEW p \in Policies, UpdatePolicy(p)
  PROVE  DeployInv'
  <1>1. /\ stage = "policy" /\ p \in DOMAIN listed /\ Accepts(p) /\ policy' = Written(p)
        /\ listed' = [q \in DOMAIN listed \ {p} |-> listed[q]]
        /\ UNCHANGED <<want, shard, remote, lost, counters, placeVars, plan, rule, stage, purpose,
                       old, answer, marked, logVars>>
    BY DEF UpdatePolicy
  <1>2. stage \in AtRule /\ rule \in Rules /\ tenant \in Tenants
    BY <1>1, AtCall DEF DeployInv, AtRule, Stages
  <1>3. /\ policy' \in [Tenants -> [Policies -> [exists : BOOLEAN,
                                                 names : SUBSET (Names \cup ConsoleNames)]]]
        /\ \A t \in Tenants, q \in Policies :
              policy'[t][q].names = IF t = tenant /\ q = p THEN Changed(listed[p])
                                    ELSE policy[t][q].names
    BY <1>1, WrittenPolicy
  <1>4. WorldOK'
    BY <1>1, <1>3 DEF DeployInv, WorldOK, counters
  <1>5. LiveRules'
    BY <1>1, LiveSame DEF DeployInv, placeVars
  <1>6. ControlInv'
    <2>1. DOMAIN listed' \subseteq Policies
          /\ \A q \in DOMAIN listed' : listed'[q] \subseteq Names \cup ConsoleNames
      BY <1>1 DEF DeployInv, ControlInv, PlaceOK
    <2>2. PlaceOK'
      BY <1>1, <2>1 DEF DeployInv, ControlInv, PlaceOK, placeVars
    <2>3. PlaceInv'
      BY <1>1 DEF DeployInv, ControlInv, PlaceInv, placeVars
    <2>4. LogInv'
      BY <1>1 DEF DeployInv, ControlInv, LogInv, placeVars, logVars, FailedOn,
                  EveryRuleReported, Reported
    <2> QED BY <1>1, <2>2, <2>3, <2>4 DEF DeployInv, ControlInv, LogOK, logVars
  <1>7. /\ UNCHANGED <<purpose, rule, tenant, want, shard, remote, stage, plan, old, marked,
                       answer>>
        /\ Bound' = Bound /\ Made' = Made /\ Named' = Named /\ Name' = Name /\ Tuning' = Tuning
    BY <1>1 DEF placeVars, Bound, Made, Named, Name, Tuning
  <1>8. PlanInv' /\ CallInv'
    BY <1>7 DEF DeployInv, CallData, PlanInv, CallInv, Wants
  <1>9. ASSUME NEW q \in Named \ DOMAIN listed'
        PROVE  /\ purpose = "join" => Name \in policy'[tenant][q].names
               /\ purpose \in {"leave", "retire"} => Name \notin policy'[tenant][q].names
    <2>1. q \in Policies
      BY <1>2 DEF DeployInv, WorldOK, Named
    <2>2. CASE q = p
      <3>1. policy'[tenant][q].names = Changed(listed[p])
        BY <1>2, <1>3, <2>1, <2>2
      <3>2. listed[p] \in SUBSET (Names \cup ConsoleNames)
        BY <1>1 DEF DeployInv, ControlInv, PlaceOK
      <3> QED BY <3>1, <3>2, <1>1, ChangedNames
    <2>3. CASE q # p
      <3>1. policy'[tenant][q].names = policy[tenant][q].names /\ q \notin DOMAIN listed
        BY <1>1, <1>2, <1>3, <2>1, <2>3
      <3> QED BY <3>1, <1>1 DEF DeployInv, CallData, PolicyInv
    <2> QED BY <2>2, <2>3
  <1>10. PolicyInv'
    BY <1>1, <1>7, <1>9 DEF DeployInv, CallData, PolicyInv, Wants
  <1> QED BY <1>4, <1>5, <1>6, <1>8, <1>10 DEF DeployInv, CallData

LEMMA PolicyUnansweredKeeps ==
  ASSUME DeployInv, NEW p \in Policies, PolicyUnanswered(p)
  PROVE  DeployInv'
  <1>1. /\ stage = "policy" /\ p \in DOMAIN listed /\ Fault /\ Accepts(p)
        /\ policy' = Written(p) /\ (Leaves(TRUE) \/ StopsTenant)
        /\ UNCHANGED <<shard, remote, lost>>
    BY DEF PolicyUnanswered
  <1>2. stage \in AtRule /\ answer = NoId
    BY <1>1 DEF DeployInv, AtRule, Stages, ControlInv, PlaceInv
  <1>3. faults' \in 0 .. MaxFaults /\ UNCHANGED <<want, merges, runs, console, placeVars>>
    BY <1>1, FaultCounted DEF DeployInv, placeVars
  <1>4. WorldOK'
    BY <1>1, <1>3, WrittenPolicy DEF DeployInv, WorldOK
  <1>5. LiveRules'
    BY <1>1, <1>2, LiveSame DEF DeployInv
  <1> QED BY <1>1, <1>2, <1>3, <1>4, <1>5, EndsKeeps DEF OthersShards

LEMMA PoliciesDoneKeeps ==
  ASSUME DeployInv, PoliciesDone
  PROVE  DeployInv'
  <1>1. stage = "policy" /\ listed = Nothing /\ UNCHANGED <<worldVars, placeVars>>
    BY DEF PoliciesDone
  <1>2. /\ stage \in AtRule /\ rule \in Rules /\ tenant \in Tenants /\ answer = NoId
    BY <1>1, AtCall DEF DeployInv, AtRule, Stages, ControlInv, PlaceInv
  <1>3. /\ UNCHANGED <<want, shard, remote, policy, lost, counters, creates, left, tenant>>
        /\ WorldOK' /\ LiveRules' /\ OthersShards
    <2>1. UNCHANGED <<want, shard, remote, policy, lost, counters, creates, left, tenant>>
      BY <1>1 DEF worldVars, placeVars
    <2> QED BY <1>2, <2>1, WorldSame, LiveSame DEF DeployInv, OthersShards
  <1>4. CASE purpose = "rename" /\ ListsFor(Last, marked)
    <2>1. /\ ~Wants("delete") /\ want[rule].strategy \in Strategies /\ marked \in BOOLEAN
          /\ ~marked => /\ Bound # NoId /\ remote[tenant][Bound] = Made
                        /\ Wants("disable") => ~Tuning
      BY <1>1, <1>2, <1>4 DEF DeployInv, CallData, PolicyInv, WorldOK, ControlInv, PlaceOK
    <2>2. /\ Last \in {"join", "leave"}
          /\ Last = "join" => Wants("deploy")
          /\ Last = "leave" => Wants("disable")
      BY <2>1 DEF Last, Wants, Strategies
    <2>3. ~marked => /\ shard'[tenant][rule] # NoId
                     /\ remote'[tenant][shard'[tenant][rule]] = Made
                     /\ Wants("disable") => ~Tuning
      BY <2>1, <1>3 DEF Bound
    <2>4. Last \in {"rename", "join", "leave"} /\ Last # "rename"
      BY <2>2
    <2> QED BY <1>1, <1>2, <1>3, <1>4, <2>1, <2>2, <2>3, <2>4, ListsForKeeps
  <1>5. CASE purpose = "retire" /\ GoesTo("delete") /\ UNCHANGED <<purpose, old, answer, marked>>
    <2>1. /\ stage' = "delete"
          /\ UNCHANGED <<want, shard, remote, policy, tenant, rule, purpose, old, marked, answer,
                         plan, listed, logVars>>
          /\ Bound' = Bound /\ Named' = Named /\ Name' = Name
      BY <1>3, <1>5 DEF GoesTo, Bound, Named, Name
    <2>2. ControlInv'
      <3>1. PlaceOK'
        BY <2>1, <1>3 DEF DeployInv, ControlInv, PlaceOK, Stages
      <3>2. stage' \in AtRule
        BY <2>1 DEF AtRule, Stages
      <3> QED BY <1>1, <1>2, <2>1, <3>1, <3>2, GoesKeepsControl DEF DeployInv
    <2>3. PlanInv'
      BY <2>1, GoesKeepsPlan DEF DeployInv, CallData, OthersPlanned
    <2>4. CallInv'
      BY <2>1, <1>1, <1>5 DEF DeployInv, CallData, CallInv, PolicyInv, AtRule, Stages, Wants
    <2>5. \A p \in Named : Name \notin policy[tenant][p].names
      BY <1>1, <1>5 DEF DeployInv, CallData, PolicyInv, Nothing
    <2>6. PolicyInv'
      BY <2>1, <2>5 DEF PolicyInv
    <2> QED BY <1>3, <2>2, <2>3, <2>4, <2>6 DEF DeployInv, CallData
  <1>6. CASE Leaves(marked)
    <2>1. marked \in BOOLEAN
      BY DEF DeployInv, ControlInv, PlaceOK
    <2> QED BY <1>2, <1>1, <1>3, <1>6, <2>1, EndsKeeps
  <1> QED BY <1>4, <1>5, <1>6 DEF PoliciesDone

-----------------------------------------------------------------------------
(***************************************************************************)
(* The invariant, and what follows from it.                                 *)
(***************************************************************************)
LEMMA InitDeployInv ==
  ASSUME Init
  PROVE  DeployInv
  <1>1. WorldOK
    <2>1. want \in [Rules -> [strategy : Strategies, name : Names, policies : SUBSET Policies]]
          /\ \A r \in Rules : want[r].name[1] = r /\ (r \in Tunings => want[r].policies = {})
      BY SysdigAssumption DEF Init, Strategies, Names, Revisions
    <2>2. shard \in [Tenants -> [Rules -> Ids \cup {NoId}]]
      BY DEF Init
    <2>3. remote \in [Tenants -> [Ids -> RemoteRules]]
      BY DEF Init, RemoteRules
    <2>4. policy \in [Tenants -> [Policies -> [exists : BOOLEAN,
                                               names : SUBSET (Names \cup ConsoleNames)]]]
      BY DEF Init
    <2>5. lost \in [Tenants -> SUBSET Ids]
      BY DEF Init
    <2> QED BY <2>1, <2>2, <2>3, <2>4, <2>5, SysdigAssumption DEF Init, WorldOK
  <1>2. PlaceOK
    BY DEF Init, PlaceOK, Kinds, Stages, Purposes, Nothing
  <1>3. LogOK
    <2>1. outcome \in [Tenants -> [Rules -> Outcomes]]
      BY DEF Init, Outcomes
    <2>2. reports \in [Tenants -> [Rules -> 0 .. 1]]
      BY DEF Init
    <2> QED BY <2>1, <2>2 DEF Init, LogOK
  <1>4. PlaceInv
    BY NoneIsNoRule DEF Init, PlaceInv, AtRule
  <1>5. LogInv
    BY DEF Init, LogInv, EveryRuleReported, Reported
  <1>6. LiveRules
    BY DEF Init, LiveRules, LiveInv, ShardInv
  <1>7. CallData
    BY DEF Init, CallData, PlanInv, CallInv, PolicyInv, AtRule
  <1> QED BY <1>1, <1>2, <1>3, <1>4, <1>5, <1>6, <1>7 DEF DeployInv, ControlInv

LEMMA StutterKeeps ==
  ASSUME DeployInv, UNCHANGED vars
  PROVE  DeployInv'
  <1>1. UNCHANGED <<want, shard, remote, policy, lost, counters, runVars, logVars>>
    BY DEF vars
  <1>2. WorldOK' /\ ControlInv' /\ LiveRules'
    BY <1>1, WorldSame, ControlSame, LiveSame DEF DeployInv, runVars
  <1>3. PlanInv' /\ CallInv' /\ PolicyInv'
    BY <1>1 DEF DeployInv, CallData, PlanInv, CallInv, PolicyInv, runVars, Wants, Bound, Made,
                Named, Name, Tuning
  <1> QED BY <1>2, <1>3 DEF DeployInv, CallData

LEMMA StepKeeps ==
  ASSUME DeployInv, [Next]_vars
  PROVE  DeployInv'
  <1>1. CASE People
    BY <1>1, MergeKeeps, ConsoleEditsPolicyKeeps, ConsoleDeletesPolicyKeeps,
       ConsoleDeletesRuleKeeps DEF People
  <1>2. CASE Run
    <2>1. CASE \/ \E may \in BOOLEAN : StartRun(may)
               \/ \E t \in Tenants : ScreenTenant(t)
               \/ TenantDone \/ EndRun
               \/ \E r \in Rules : Begin(r)
      BY <2>1, StartRunKeeps, ScreenTenantKeeps, TenantDoneKeeps, EndRunKeeps, BeginKeeps
    <2>2. CASE CreateRule \/ RecordCreated \/ ReadRule \/ RuleMissing \/ RecreateRefused
               \/ UpdateRule \/ DeleteRule \/ Forget
      BY <2>2, CreateRuleKeeps, RecordCreatedKeeps, ReadKeeps, NotDoneKeeps, UpdateRuleKeeps,
         DeleteRuleKeeps, ForgetKeeps DEF ReadOrMissing
    <2>3. CASE \/ ListPolicies \/ PolicyMissing \/ PoliciesDone
               \/ \E p \in Policies : UpdatePolicy(p) \/ StalePolicy(p)
      BY <2>3, ListPoliciesKeeps, NotDoneKeeps, PoliciesDoneKeeps, UpdatePolicyKeeps
    <2> QED BY <1>2, <2>1, <2>2, <2>3 DEF Run
  <1>3. CASE Faults
    BY <1>3, KilledKeeps, RefusedKeeps, CreateUnansweredKeeps, CreateRetriedKeeps,
       PutUnansweredKeeps, PolicyUnansweredKeeps, RecordFailsKeeps DEF Faults
  <1>4. CASE UNCHANGED vars
    BY <1>4, StutterKeeps
  <1> QED BY <1>1, <1>2, <1>3, <1>4 DEF Next

(***************************************************************************)
(* At every step of a deploy, a killed, refused or unanswered one included,  *)
(* the run is where its log and its place say, no id stands in two shards,   *)
(* live rules are in their shards or lost in a create, and what the run has  *)
(* read of the tenant still bounds what it is about to write.               *)
(***************************************************************************)
THEOREM DeployInvHolds == Spec => []DeployInv
  <1>1. Init => DeployInv
    BY InitDeployInv
  <1>2. DeployInv /\ [Next]_vars => DeployInv'
    BY StepKeeps
  <1> QED BY <1>1, <1>2, PTL DEF Spec

(***************************************************************************)
(* The rules' blocks, the shards, the tenants' rules and policies and what    *)
(* the run knows have their types, and no rule is reported twice on a tenant. *)
(***************************************************************************)
THEOREM TypeCorrect == Spec => []TypeOK
  <1>1. DeployInv => TypeOK
    BY TypeParts DEF DeployInv, ControlInv
  <1> QED BY <1>1, DeployInvHolds, PTL

(***************************************************************************)
(* No way a deploy can end leaves a live rule of ours that no shard knows,    *)
(* but a create that was not answered, was sent twice or not recorded.      *)
(***************************************************************************)
THEOREM LiveRulesBound == Spec => []LiveIsBound
  <1>1. DeployInv => LiveIsBound
    BY DEF DeployInv, LiveRules, LiveInv, LiveIsBound
  <1> QED BY <1>1, DeployInvHolds, PTL

(***************************************************************************)
(* When a run ends every rule has one result on every tenant, nothing was     *)
(* left out but after a failure there, and the run fails if a rule did.      *)
(***************************************************************************)
THEOREM RulesReported == Spec => []EveryRuleReported
  <1>1. DeployInv => EveryRuleReported
    BY DEF DeployInv, ControlInv, LogInv
  <1> QED BY <1>1, DeployInvHolds, PTL

(***************************************************************************)
(* Policies are written only at UpdatePolicy, answered or not, and by people. *)
(***************************************************************************)
LEMMA PolicyChanges ==
  ASSUME [Next]_vars, console' = console, console \in Nat
  PROVE  \/ policy' = policy
         \/ \E p \in Policies : UpdatePolicy(p) \/ PolicyUnanswered(p)
  <1>1. CASE People
    BY <1>1 DEF People, Merge, ConsoleEditsPolicy, ConsoleDeletesPolicy, ConsoleDeletesRule, Console
  <1>2. CASE Run
    BY <1>2 DEF Run, StartRun, ScreenTenant, TenantDone, EndRun, Begin, CreateRule, RecordCreated,
                ReadRule, RuleMissing, RecreateRefused, UpdateRule, DeleteRule, Forget,
                ListPolicies, PolicyMissing, PoliciesDone, StalePolicy, worldVars
  <1>3. CASE Faults
    BY <1>3 DEF Faults, Killed, CallRefused, CallFails, CreateUnanswered, CreateRetried,
                UpdateUnanswered, DeleteUnanswered, RecordFails, ForgetFails
  <1>4. CASE UNCHANGED vars
    BY <1>4 DEF vars
  <1> QED BY <1>1, <1>2, <1>3, <1>4 DEF Next

(***************************************************************************)
(* A deploy changes no other name in a policy: what people add or remove      *)
(* while it runs stays as it is.                                            *)
(***************************************************************************)
THEOREM PoliciesKeepOthers == Spec => OthersNamesKept
  <1> DEFINE Kept == console' = console =>
                        \A t \in Tenants, p \in Policies :
                            Others(policy'[t][p].names) = Others(policy[t][p].names)
  <1>1. DeployInv /\ [Next]_vars => Kept
    <2> SUFFICES ASSUME DeployInv, [Next]_vars, console' = console
                 PROVE  \A t \in Tenants, p \in Policies :
                            Others(policy'[t][p].names) = Others(policy[t][p].names)
      OBVIOUS
    <2>1. console \in Nat
      BY SysdigAssumption DEF DeployInv, WorldOK
    <2>2. CASE policy' = policy
      BY <2>2
    <2>3. CASE \E p \in Policies : UpdatePolicy(p) \/ PolicyUnanswered(p)
      <3>1. PICK p \in DOMAIN listed : stage = "policy" /\ Accepts(p) /\ policy' = Written(p)
        BY <2>3 DEF UpdatePolicy, PolicyUnanswered
      <3> QED BY <3>1, WrittenPolicy
    <2> QED BY <2>1, <2>2, <2>3, PolicyChanges
  <1>2. DeployInv /\ [Next]_vars => [Kept]_vars
    BY <1>1
  <1> QED BY <1>2, DeployInvHolds, PTL DEF Spec, OthersNamesKept

-----------------------------------------------------------------------------
(***************************************************************************)
(* A rule is newly deployed when its own scope is left unmarked, and by no     *)
(* other step; every such step is one after which the rule is as its block   *)
(* wants it.                                                               *)
(***************************************************************************)
Newly(t, r) == ~Deployed(t, r) /\ Deployed(t, r)'

LEMMA NewlyAtLeave ==
  ASSUME DeployInv, NEW f \in BOOLEAN, Leaves(f), NEW t \in Tenants, NEW r \in Rules, Newly(t, r)
  PROVE  t = tenant /\ r = rule /\ ~f
  BY DEF Leaves, DeployInv, ControlInv, LogOK, Newly, Deployed

LEMMA NewlyAtStop ==
  ASSUME DeployInv, StopsTenant, NEW t \in Tenants, NEW r \in Rules
  PROVE  ~Newly(t, r)
  BY DEF StopsTenant, DeployInv, ControlInv, LogOK, Newly, Deployed

LEMMA NewlyAtRun ==
  ASSUME DeployInv, NEW t \in Tenants, NEW r \in Rules,
         \/ \E may \in BOOLEAN : StartRun(may)
         \/ \E s \in Tenants : ScreenTenant(s)
         \/ EndRun \/ Killed
         \/ UNCHANGED outcome
  PROVE  ~Newly(t, r)
  <1>1. CASE (\E may \in BOOLEAN : StartRun(may)) \/ Killed
    <2>1. outcome' = [s \in Tenants |-> [q \in Rules |-> "none"]]
      BY <1>1 DEF StartRun, Killed
    <2> QED BY <2>1 DEF Newly, Deployed
  <1>2. ASSUME NEW s \in Tenants, ScreenTenant(s)
        PROVE  ~Newly(t, r)
    <2>1. outcome'[t][r] \in {outcome[t][r], "none", "skipped", "failed"}
      BY <1>2 DEF ScreenTenant, DeployInv, ControlInv, LogOK
    <2> QED BY <2>1 DEF Newly, Deployed
  <1>3. CASE EndRun
    <2>1. outcome'[t][r] \in {outcome[t][r], "not_attempted"}
      BY <1>3 DEF EndRun, Settled, Unheard
    <2> QED BY <2>1 DEF Newly, Deployed
  <1>4. CASE UNCHANGED outcome
    BY <1>4 DEF Newly, Deployed
  <1> QED BY <1>1, <1>2, <1>3, <1>4

LEMMA RecordedEnforced ==
  ASSUME DeployInv, RecordCreated, NEW t \in Tenants, NEW r \in Rules, Newly(t, r)
  PROVE  Enforced(t, r)'
  <1>1. /\ stage = "record" /\ shard' = [shard EXCEPT ![tenant][rule] = answer]
        /\ ListsFor("join", FALSE)
        /\ UNCHANGED <<want, remote, policy>>
    BY DEF RecordCreated, Recorded
  <1>2. Named = {} /\ Leaves(FALSE)
    BY <1>1, NewlyAtRun DEF ListsFor, GoesTo, logVars
  <1>3. t = tenant /\ r = rule
    BY <1>2, NewlyAtLeave
  <1>4. shard'[t][r] = answer /\ remote'[t][answer] = Made /\ answer # NoId /\ Wants("deploy")
    BY <1>1, <1>3, AtRecord DEF DeployInv, WorldOK
  <1> QED BY <1>1, <1>2, <1>3, <1>4 DEF Enforced, Made, Name, Named, Wants

\* A rule that is put as its block wants it, and whose policies are all written.
LEMMA PutEnforced ==
  ASSUME NEW t \in Tenants, NEW r \in Rules, t = tenant, r = rule, ~Wants("delete"),
         want[rule].strategy \in Strategies, UNCHANGED <<want, shard>>,
         Bound # NoId, remote'[tenant][Bound] = Made, Wants("disable") => ~Tuning,
         \A p \in Named : /\ Wants("deploy") => Name \in policy'[tenant][p].names
                          /\ Wants("disable") => Name \notin policy'[tenant][p].names
  PROVE  Enforced(t, r)'
  <1>1. CASE want[r].strategy = "deploy"
    BY <1>1 DEF Enforced, Bound, Made, Name, Named, Wants
  <1>2. CASE want[r].strategy = "disable"
    BY <1>2 DEF Enforced, Bound, Name, Named, Wants, Tuning
  <1> QED BY <1>1, <1>2 DEF Wants, Strategies

LEMMA UpdatedEnforced ==
  ASSUME DeployInv, UpdateRule, NEW t \in Tenants, NEW r \in Rules, Newly(t, r)
  PROVE  Enforced(t, r)'
  <1>1. /\ stage = "put" /\ remote' = [remote EXCEPT ![tenant][Bound] = Made]
        /\ \E why \in Purposes : ListsFor(why, FALSE)
        /\ UNCHANGED <<want, shard, policy, lost, counters, placeVars>>
    BY DEF UpdateRule, Last, Purposes
  <1>2. Named = {} /\ Leaves(FALSE)
    BY <1>1, NewlyAtRun DEF ListsFor, GoesTo, logVars
  <1>3. t = tenant /\ r = rule
    BY <1>2, NewlyAtLeave
  <1>4. Bound # NoId /\ remote'[tenant][Bound] = Made
    BY <1>1, AtId, PutKeepsLive DEF DeployInv, placeVars
  <1>5. /\ ~Wants("delete") /\ (Wants("disable") => ~Tuning)
        /\ want[rule].strategy \in Strategies
    BY <1>1, AtId DEF DeployInv, CallData, CallInv, WorldOK
  <1> QED BY <1>1, <1>2, <1>3, <1>4, <1>5, PutEnforced

LEMMA ForgottenEnforced ==
  ASSUME DeployInv, Forget, NEW t \in Tenants, NEW r \in Rules, Newly(t, r)
  PROVE  Enforced(t, r)'
  <1>1. /\ stage = "forget" /\ shard' = [shard EXCEPT ![tenant][rule] = NoId]
        /\ Leaves(FALSE) /\ UNCHANGED <<want, policy>>
    BY DEF Forget
  <1>2. t = tenant /\ r = rule
    BY <1>1, NewlyAtLeave
  <1>3. shard'[t][r] = NoId
    BY <1>1, <1>2 DEF DeployInv, WorldOK
  <1>4. /\ want[r].strategy \in {"disable", "delete"}
        /\ want[r].strategy = "delete" =>
              \A p \in want[r].policies : want[r].name \notin policy[t][p].names
    <2>1. /\ ~Wants("deploy") /\ want[rule].strategy \in Strategies
          /\ Wants("delete") => \A p \in Named : Name \notin policy[tenant][p].names
      BY <1>1, AtId DEF DeployInv, CallData, CallInv, PolicyInv, WorldOK
    <2> QED BY <2>1, <1>2 DEF Wants, Strategies, Named, Name
  <1>5. CASE want[r].strategy = "disable"
    BY <1>1, <1>3, <1>5 DEF Enforced
  <1>6. CASE want[r].strategy = "delete"
    BY <1>1, <1>3, <1>4, <1>6 DEF Enforced
  <1> QED BY <1>4, <1>5, <1>6

LEMMA PoliciesDoneEnforced ==
  ASSUME DeployInv, PoliciesDone, NEW t \in Tenants, NEW r \in Rules, Newly(t, r)
  PROVE  Enforced(t, r)'
  <1>1. /\ stage = "policy" /\ listed = Nothing
        /\ UNCHANGED <<want, shard, remote, policy>>
    BY DEF PoliciesDone, worldVars
  <1>2. Leaves(marked) /\ ((Named = {} /\ purpose = "rename") \/ purpose \in {"join", "leave"})
    BY NewlyAtRun DEF PoliciesDone, ListsFor, GoesTo, logVars
  <1>3. t = tenant /\ r = rule /\ ~marked
    <2>1. marked \in BOOLEAN
      BY DEF DeployInv, ControlInv, PlaceOK
    <2> QED BY <1>2, <2>1, NewlyAtLeave
  <1>4. /\ Bound # NoId /\ remote[tenant][Bound] = Made /\ (Wants("disable") => ~Tuning)
        /\ purpose = "rename" => ~Wants("delete")
        /\ purpose = "join" => Wants("deploy")
        /\ purpose = "leave" => Wants("disable")
        /\ \A p \in Named : /\ purpose = "join" => Name \in policy[tenant][p].names
                            /\ purpose = "leave" => Name \notin policy[tenant][p].names
    BY <1>1, <1>2, <1>3 DEF DeployInv, CallData, PolicyInv, Nothing
  <1>5. want[rule].strategy \in Strategies
    BY <1>3 DEF DeployInv, WorldOK
  <1>6. /\ ~Wants("delete")
        /\ \A p \in Named : /\ Wants("deploy") => Name \in policy'[tenant][p].names
                            /\ Wants("disable") => Name \notin policy'[tenant][p].names
    BY <1>1, <1>2, <1>4 DEF Wants
  <1> QED BY <1>1, <1>3, <1>4, <1>5, <1>6, PutEnforced

(***************************************************************************)
(* Whatever the runs before it left half done, a rule is reported as         *)
(* deployed, disabled or deleted only when it is.                           *)
(***************************************************************************)
THEOREM DeployedMeansEnforced == Spec => DeployedIsEnforced
  <1> DEFINE Enforces == \A t \in Tenants, r \in Rules :
                        ~Deployed(t, r) /\ Deployed(t, r)' => Enforced(t, r)'
  <1>1. ASSUME DeployInv, [Next]_vars, NEW t \in Tenants, NEW r \in Rules, Newly(t, r)
        PROVE  Enforced(t, r)'
    <2>1. CASE People \/ UNCHANGED vars
      <3>1. UNCHANGED outcome
        BY <2>1 DEF People, Merge, ConsoleEditsPolicy, ConsoleDeletesPolicy, ConsoleDeletesRule,
                    Console, logVars, vars
      <3> QED BY <3>1, <1>1, NewlyAtRun
    <2>2. CASE Run
      <3>1. CASE RecordCreated
        BY <3>1, <1>1, RecordedEnforced
      <3>2. CASE UpdateRule
        BY <3>2, <1>1, UpdatedEnforced
      <3>3. CASE Forget
        BY <3>3, <1>1, ForgottenEnforced
      <3>4. CASE PoliciesDone
        BY <3>4, <1>1, PoliciesDoneEnforced
      <3>5. CASE RecreateRefused \/ PolicyMissing \/ \E p \in Policies : StalePolicy(p)
        <4>1. Leaves(TRUE)
          BY <3>5 DEF RecreateRefused, PolicyMissing, StalePolicy
        <4> QED BY <4>1, <1>1, NewlyAtLeave
      <3>6. CASE \/ \E may \in BOOLEAN : StartRun(may)
                 \/ \E s \in Tenants : ScreenTenant(s)
                 \/ EndRun
        BY <3>6, <1>1, NewlyAtRun
      <3>7. CASE \/ TenantDone \/ (\E q \in Rules : Begin(q)) \/ CreateRule \/ ReadRule
                 \/ RuleMissing \/ DeleteRule \/ ListPolicies
                 \/ \E p \in Policies : UpdatePolicy(p)
        <4>1. UNCHANGED outcome
          BY <3>7 DEF TenantDone, Begin, CreateRule, ReadRule, RuleMissing, DeleteRule,
                      ListPolicies, UpdatePolicy, GoesTo, logVars
        <4> QED BY <4>1, <1>1, NewlyAtRun
      <3> QED BY <2>2, <3>1, <3>2, <3>3, <3>4, <3>5, <3>6, <3>7 DEF Run
    <2>3. CASE Faults
      <3>1. CASE Killed
        BY <3>1, <1>1, NewlyAtRun
      <3>2. CASE CreateRetried
        BY <3>2, <1>1, NewlyAtRun DEF CreateRetried, GoesTo, logVars
      <3>3. CASE RecordFails
        <4>1. Leaves(TRUE) \/ UNCHANGED outcome
          BY <3>3 DEF RecordFails, ListsFor, GoesTo, logVars
        <4> QED BY <4>1, <1>1, NewlyAtLeave, NewlyAtRun
      <3>4. CASE \/ CallRefused \/ CallFails \/ CreateUnanswered \/ UpdateUnanswered
                 \/ DeleteUnanswered \/ ForgetFails \/ \E p \in Policies : PolicyUnanswered(p)
        <4>1. Leaves(TRUE) \/ StopsTenant
          BY <3>4 DEF CallRefused, CallFails, CreateUnanswered, UpdateUnanswered,
                      DeleteUnanswered, ForgetFails, PolicyUnanswered
        <4> QED BY <4>1, <1>1, NewlyAtLeave, NewlyAtStop
      <3> QED BY <2>3, <3>1, <3>2, <3>3, <3>4 DEF Faults
    <2> QED BY <1>1, <2>1, <2>2, <2>3 DEF Next
  <1>2. DeployInv /\ [Next]_vars => [Enforces]_vars
    BY <1>1 DEF Newly
  <1> QED BY <1>2, DeployInvHolds, PTL DEF Spec, DeployedIsEnforced
=============================================================================
