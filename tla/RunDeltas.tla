------------------------------ MODULE RunDeltas ------------------------------
(***************************************************************************)
(* What the default branch may expect of the jobs that write to it: a job   *)
(* takes the branch's shards, changes some bindings of its copy, and lands  *)
(* changes of its own copy on whatever the branch has become by then. No    *)
(* commits, pushes, retries, rebases or replays: those are how it is done.  *)
(***************************************************************************)
EXTENDS Shards

CONSTANT Runners    \* the jobs

VARIABLES
    branch,     \* the shards of the default branch
    base,       \* base[j]: the shards job j took
    work        \* work[j]: the same with the job's changes

vars == <<branch, base, work>>

Init ==
    /\ branch = NoShards
    /\ base = [j \in Runners |-> NoShards]
    /\ work = [j \in Runners |-> NoShards]

Take(j) ==
    /\ base' = [base EXCEPT ![j] = branch]
    /\ work' = [work EXCEPT ![j] = branch]
    /\ UNCHANGED branch

\* A binding is added, or removed; the copy's other bindings stay.
Change(j, b, id) ==
    /\ base[j][b] = NoId \/ id = NoId
    /\ work' = [work EXCEPT ![j] = Bind(@, b, id)]
    /\ UNCHANGED <<branch, base>>

Own(j) == {b \in Bindings : base[j][b] # work[j][b]}

Lands(j, some) == branch' = [b \in Bindings |-> IF b \in some THEN work[j][b] ELSE branch[b]]

Leaves(j) ==
    /\ base' = [base EXCEPT ![j] = NoShards]
    /\ work' = [work EXCEPT ![j] = NoShards]

\* Landing is all or nothing of what the branch does not have already.
Land(j) == Lands(j, Own(j)) /\ (Leaves(j) \/ UNCHANGED <<base, work>>)

Leave(j) == Leaves(j) /\ UNCHANGED branch

\* An operator's merge.
Edit(b, id) == branch' = Bind(branch, b, id) /\ UNCHANGED <<base, work>>

Next ==
    \/ \E j \in Runners : Take(j) \/ Land(j) \/ Leave(j)
    \/ \E j \in Runners, b \in Bindings, id \in MaybeId : Change(j, b, id)
    \/ \E b \in Bindings, id \in MaybeId : Edit(b, id)

Spec == Init /\ [][Next]_vars
=============================================================================
