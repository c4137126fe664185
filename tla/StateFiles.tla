----------------------------- MODULE StateFiles -----------------------------
(***************************************************************************)
(* The files that hold vendor ids, in one checkout, and the commands that     *)
(* change them: deploy migrate-state, which moves ids from rule files into    *)
(* shards, and a deploy or an import, which binds or forgets one tenant.     *)
(*                                                                         *)
(* Every file is written by write_durable: a temporary file is filled and     *)
(* flushed, renamed over the file, and the directory flushed. A command may   *)
(* be killed anywhere, and the power may fail: what was not flushed is then   *)
(* there or not. Commands come one after another.                           *)
(***************************************************************************)
EXTENDS Naturals, Sequences

CONSTANTS
    Files,          \* rule files
    Uuids,          \* the uuids of their rules
    UuidOf,         \* UuidOf[f]; two files may have one by mistake
    Tenants,        \* tenants of platforms whose ids are migrated
    MaxIds,         \* bound: vendor ids
    MaxCommands,    \* bound: commands
    MaxFaults       \* bound: failed writes, kills and power failures

ASSUME StateFilesAssumption ==
    /\ UuidOf \in [Files -> Uuids]
    /\ Files \cap Uuids = {}
    /\ {MaxIds, MaxCommands, MaxFaults} \subseteq Nat

VARIABLES
    file,       \* file[p]: what a reader of the path p finds
    after,      \* after[p]: what may be there once the power has failed
    todo,       \* the paths the command is to write, the one at hand first
    temporary,  \* the temporary file of that: what is in it, and whether it is flushed
    ignored,    \* git ignores the shards
    command,
    stage,
    left,       \* rule files migrate-state has not come to
    rule,       \* the rule file at hand
    state,      \* the shard in memory
    failed,     \* the command reports an error
    report,     \* how the last command ended
    given,      \* history: <<uuid, tenant, id>> that was on a rule or recorded, and not forgotten
    cut,        \* history: paths whose last rename no command saw flushed
    clean,      \* history: no write of the command failed
    commands, faults

fileVars == <<file, after, todo, temporary>>
history == <<given, cut, clean>>
vars == <<fileVars, ignored, command, stage, left, rule, state, failed, report, history,
          commands, faults>>

-----------------------------------------------------------------------------
Paths == Files \cup Uuids
NoPath == "none"
Ids == 1 .. MaxIds
NoId == 0
IdMaps == [Tenants -> Ids \cup {NoId}]
NoIds == [t \in Tenants |-> NoId]

(***************************************************************************)
(* A file. A rule has the ids of its legacy keys, perhaps an id of a platform *)
(* that never reads one, and a layout whose keys can be cut out or not. A     *)
(* shard has ids only, and one without any does not exist.                  *)
(***************************************************************************)
Contents == [whole : BOOLEAN, ids : IdMaps, unused : BOOLEAN, editable : BOOLEAN]
Shard(ids) == [whole |-> TRUE, ids |-> ids, unused |-> FALSE, editable |-> TRUE]
NoShard == Shard(NoIds)
Torn == [NoShard EXCEPT !.whole = FALSE]
Stripped(content) == [content EXCEPT !.ids = NoIds, !.unused = FALSE]
HasKeys(content) == content.ids # NoIds \/ content.unused

Stages == {"idle", "rule", "open", "fill", "flush", "rename", "settle", "unlink"}
Commands == {"none", "migrate", "record", "forget"}

TypeOK ==
    /\ file \in [Paths -> Contents] /\ after \in [Paths -> SUBSET Contents]
    /\ \A p \in Paths : file[p] \in after[p]
    /\ todo \in Seq(Paths) /\ Len(todo) <= 2 /\ (stage \in Stages \ {"idle", "rule"} => todo # <<>>)
    /\ temporary \in [content : Contents, flushed : BOOLEAN]
    /\ ignored \in BOOLEAN /\ command \in Commands /\ stage \in Stages
    /\ left \subseteq Files /\ rule \in Files \cup {NoPath} /\ state \in IdMaps
    /\ failed \in BOOLEAN /\ report \in {"none", "completed", "failed", "refused"}
    /\ given \subseteq Uuids \X Tenants \X Ids
    /\ cut \subseteq Paths /\ clean \in BOOLEAN
    /\ commands \in 0 .. MaxCommands /\ faults \in 0 .. MaxFaults

Empty == [content |-> NoShard, flushed |-> FALSE]

Init ==
    /\ file \in [Paths -> {c \in Contents : c.whole}]
    /\ \A u \in Uuids : file[u] = NoShard
    /\ \A f \in Files : ~file[f].editable => HasKeys(file[f])
    /\ after = [p \in Paths |-> {file[p]}]
    /\ todo = <<>> /\ temporary = Empty
    /\ ignored \in BOOLEAN
    /\ command = "none" /\ stage = "idle" /\ left = {} /\ rule = NoPath /\ state = NoIds
    /\ failed = FALSE /\ report = "none"
    /\ given = {g \in Uuids \X Tenants \X Ids :
                   \E f \in Files : UuidOf[f] = g[1] /\ file[f].ids[g[2]] = g[3]}
    /\ cut = {} /\ clean = TRUE
    /\ commands = 0 /\ faults = 0

-----------------------------------------------------------------------------
(***************************************************************************)
(* write_durable(path, content), and save when a shard has no id left. The    *)
(* temporary file is renamed over the path; until the directory is flushed a   *)
(* power failure may undo that, and what was never flushed is torn.         *)
(***************************************************************************)
\* handle.flush and os.fsync. Broken: neither.
StillUnflushed == FALSE
Flushed == TRUE

\* _fsync_directory. Broken: it does nothing.
OldAndNew(p) == after[p]
Settled(p) == {file[p]}

writing == Head(todo)
Content == IF writing \in Files THEN Stripped(file[writing]) ELSE Shard(state)

whileWriting == <<todo, ignored, command, left, rule, state, failed, report, history,
                  commands, faults>>

OpenTemporary ==
    /\ stage = "open"
    /\ temporary' = [content |-> Torn, flushed |-> FALSE]
    /\ stage' = "fill"
    /\ UNCHANGED <<file, after, whileWriting>>

Fill ==
    /\ stage = "fill"
    /\ temporary' = [content |-> Content, flushed |-> FALSE]
    /\ stage' = "flush"
    /\ UNCHANGED <<file, after, whileWriting>>

Flush ==
    /\ stage = "flush"
    /\ temporary' = [temporary EXCEPT !.flushed = Flushed]
    /\ stage' = "rename"
    /\ UNCHANGED <<file, after, whileWriting>>

Installs(content) ==
    /\ file' = [file EXCEPT ![writing] = content]
    /\ after' = [after EXCEPT ![writing] =
                    @ \cup {content} \cup IF temporary.flushed \/ stage = "unlink" THEN {} ELSE {Torn}]
    /\ temporary' = Empty
    /\ stage' = "settle"

Rename ==
    /\ stage = "rename"
    /\ Installs(temporary.content)
    /\ UNCHANGED whileWriting

Unlink ==
    /\ stage = "unlink"
    /\ Installs(NoShard)
    /\ UNCHANGED whileWriting

-----------------------------------------------------------------------------
(***************************************************************************)
(* The end of a command, of one rule of migrate-state, of a write.          *)
(***************************************************************************)
Ends(how) ==
    /\ command' = "none" /\ stage' = "idle" /\ left' = {} /\ rule' = NoPath
    /\ state' = NoIds /\ todo' = <<>> /\ temporary' = Empty /\ failed' = FALSE
    /\ report' = how

RuleDone(error) ==
    /\ stage' = "rule" /\ rule' = NoPath /\ state' = NoIds
    /\ todo' = <<>> /\ temporary' = Empty
    /\ failed' = (failed \/ error)
    /\ UNCHANGED <<command, left, report>>

WriteDone ==
    \/ /\ Len(todo) > 1
       /\ todo' = Tail(todo) /\ stage' = "open"
       /\ UNCHANGED <<command, left, rule, state, temporary, failed, report>>
    \/ Len(todo) = 1 /\ command = "migrate" /\ RuleDone(FALSE)
    \/ Len(todo) = 1 /\ command # "migrate" /\ Ends("completed")

\* The id of a record is promised from here on.
Promised ==
    IF command = "record"
    THEN given \cup {<<writing, t, state[t]>> : t \in {x \in Tenants : state[x] # NoId}}
    ELSE given

FlushDirectory ==
    /\ stage = "settle"
    /\ after' = [after EXCEPT ![writing] = Settled(writing)]
    /\ cut' = cut \ {writing}
    /\ given' = Promised
    /\ WriteDone
    /\ UNCHANGED <<file, ignored, clean, commands, faults>>

-----------------------------------------------------------------------------
(***************************************************************************)
(* record_external_id and forget_external_id. A deploy binds a tenant that    *)
(* has no id, of a rule without legacy keys, in a folder git sees; an import   *)
(* binds any.                                                              *)
(***************************************************************************)
Idle == stage = "idle" /\ commands < MaxCommands

Starts(what, path) ==
    /\ Idle
    /\ commands' = commands + 1
    /\ command' = what /\ clean' = TRUE /\ report' = "none"
    /\ todo' = path
    /\ UNCHANGED <<file, after, temporary, ignored, rule, failed, cut, faults>>

Record(u, t, id) ==
    /\ Starts("record", <<u>>)
    /\ file[u].whole
    /\ state' = [file[u].ids EXCEPT ![t] = id]
    /\ stage' = "open"
    /\ given' = {g \in given : <<g[1], g[2]>> # <<u, t>> \/ g[3] = id}
    /\ UNCHANGED left

DeployRecords(u, t, id) ==
    /\ file[u].ids[t] = NoId /\ ~ignored
    /\ \A f \in Files : UuidOf[f] = u => ~HasKeys(file[f])
    /\ Record(u, t, id)

ImportRecords(u, t, id) == Record(u, t, id)

\* forget_external_id saves nothing if the tenant has no id.
Forget(u, t) ==
    /\ file[u].ids[t] # NoId
    /\ \A f \in Files : UuidOf[f] = u => ~HasKeys(file[f])
    /\ Starts("forget", <<u>>)
    /\ file[u].whole
    /\ state' = [file[u].ids EXCEPT ![t] = NoId]
    /\ stage' = IF state' = NoIds THEN "unlink" ELSE "open"
    /\ given' = {g \in given : <<g[1], g[2]>> # <<u, t>>}
    /\ UNCHANGED left

-----------------------------------------------------------------------------
(***************************************************************************)
(* run_migrate_state.                                                      *)
(***************************************************************************)
StartMigrate ==
    /\ Starts("migrate", <<>>)
    /\ ~ignored
    /\ left' = Files /\ stage' = "rule"
    /\ UNCHANGED <<state, given>>

\* deployment_state_ignored: nothing is edited. Then somebody changes the ignore line.
MigrateRefused ==
    /\ Idle /\ ignored
    /\ commands' = commands + 1
    /\ report' = "refused"
    /\ clean' = TRUE
    /\ UNCHANGED <<fileVars, ignored, command, stage, left, rule, state, failed, given, cut, faults>>

AdoptIgnoreLine ==
    /\ stage = "idle" /\ ignored
    /\ ignored' = FALSE
    /\ UNCHANGED <<fileVars, command, stage, left, rule, state, failed, report, history, commands,
                   faults>>

\* _check_shard: an id on the rule that is not the one in the shard. Broken: any id there.
Known(f, t) == file[UuidOf[f]].ids[t] # NoId
Differs(f, t) == Known(f, t) /\ file[UuidOf[f]].ids[t] # file[f].ids[t]

Refused(f) ==
    \/ ~file[f].whole \/ ~file[f].editable
    \/ \E t \in Tenants : file[f].ids[t] # NoId /\ (~file[UuidOf[f]].whole \/ Differs(f, t))

Takes(f) ==
    /\ stage = "rule" /\ f \in left
    /\ left' = left \ {f}
    /\ UNCHANGED <<file, after, temporary, ignored, command, report, given, cut, clean, commands,
                   faults>>

NothingToMove(f) ==
    /\ Takes(f)
    /\ ~HasKeys(file[f])
    /\ UNCHANGED <<stage, todo, rule, state, failed>>

CannotMove(f) ==
    /\ Takes(f)
    /\ HasKeys(file[f]) /\ Refused(f)
    /\ failed' = TRUE
    /\ UNCHANGED <<stage, todo, rule, state>>

\* What is written for a rule: its shard if that changes, then the rule. Broken: the rule,
\* then its shard.
RuleFirst(f) == <<f, UuidOf[f]>>
ShardFirst(f) == <<UuidOf[f], f>>

Move(f) ==
    LET shard == file[UuidOf[f]].ids
        moved == [t \in Tenants |-> IF file[f].ids[t] # NoId THEN file[f].ids[t] ELSE shard[t]]
    IN  /\ Takes(f)
        /\ HasKeys(file[f]) /\ ~Refused(f)
        /\ rule' = f /\ state' = moved
        /\ todo' = IF moved # shard THEN ShardFirst(f) ELSE <<f>>
        /\ stage' = "open"
        /\ UNCHANGED failed

EndMigrate ==
    /\ stage = "rule" /\ left = {}
    /\ Ends(IF failed THEN "failed" ELSE "completed")
    /\ UNCHANGED <<file, after, ignored, history, commands, faults>>

-----------------------------------------------------------------------------
(***************************************************************************)
(* What goes wrong. A write fails; a directory is not flushed, which the code *)
(* does not report; the command is killed; the power fails.                *)
(***************************************************************************)
Fault == faults < MaxFaults /\ faults' = faults + 1
Writing == {"open", "fill", "flush", "rename", "unlink"}

WriteFails ==
    /\ stage \in Writing /\ Fault
    /\ clean' = FALSE
    /\ \/ command = "migrate" /\ RuleDone(TRUE)
       \/ command # "migrate" /\ Ends("failed")
    /\ UNCHANGED <<file, after, ignored, given, cut, commands>>

\* No command sees the last rename of the path flushed: its ids are promised no more.
Unflushed ==
    /\ cut' = cut \cup {writing}
    /\ given' = {g \in given : g[1] # writing}

DirectoryNotFlushed ==
    /\ stage = "settle" /\ Fault
    /\ Unflushed
    /\ WriteDone
    /\ UNCHANGED <<file, after, ignored, clean, commands>>

Killed ==
    /\ stage # "idle" /\ Fault
    /\ IF stage = "settle" THEN Unflushed ELSE UNCHANGED <<given, cut>>
    /\ Ends("none")
    /\ UNCHANGED <<file, after, ignored, clean, commands>>

PowerFails ==
    /\ Fault
    /\ file' \in [Paths -> UNION {after[p] : p \in Paths}]
    /\ \A p \in Paths : file'[p] \in after[p]
    /\ after' = [p \in Paths |-> {file'[p]}]
    /\ Ends(IF stage = "idle" THEN report ELSE "none")
    /\ UNCHANGED <<ignored, history, commands>>

-----------------------------------------------------------------------------
Next ==
    \/ \E u \in Uuids, t \in Tenants, id \in Ids :
          DeployRecords(u, t, id) \/ ImportRecords(u, t, id)
    \/ \E u \in Uuids, t \in Tenants : Forget(u, t)
    \/ StartMigrate \/ MigrateRefused \/ AdoptIgnoreLine \/ EndMigrate
    \/ \E f \in Files : NothingToMove(f) \/ CannotMove(f) \/ Move(f)
    \/ OpenTemporary \/ Fill \/ Flush \/ Rename \/ Unlink \/ FlushDirectory
    \/ WriteFails \/ DirectoryNotFlushed \/ Killed \/ PowerFails

Spec == Init /\ [][Next]_vars
-----------------------------------------------------------------------------
(***************************************************************************)
(* An id is never in neither place: one that was on a rule, or recorded, is   *)
(* on the rule or in its shard, whenever a command is killed or the power      *)
(* fails, until it is forgotten or another takes its place. Left out are the   *)
(* ids of a shard from when a command leaves its rename unflushed.          *)
(***************************************************************************)
Held(u, t, id) ==
    \/ file[u].ids[t] = id
    \/ \E f \in Files : UuidOf[f] = u /\ file[f].ids[t] = id

IdsSurvive ==
    \A g \in given : Held(g[1], g[2], g[3])

(***************************************************************************)
(* What a reader finds, at any time and after any failure, is a whole file.   *)
(***************************************************************************)
WholeFiles == \A p \in Paths : file[p].whole

(***************************************************************************)
(* A migration that completed left no key on any rule, also after a power      *)
(* failure.                                                                *)
(***************************************************************************)
CompletedIsDone ==
    [][report' = "completed" /\ command = "migrate" =>
          \A f \in Files : f \in cut \/ \A c \in after'[f] : ~HasKeys(c)]_vars

(***************************************************************************)
(* What an earlier run left half done does not fail the next: it fails of a   *)
(* write of its own, of a rule that has to be edited by hand, or of two        *)
(* different ids for one tenant.                                           *)
(***************************************************************************)
Disputed(f) ==
    \E t \in Tenants : /\ file[f].ids[t] # NoId
                       /\ file[UuidOf[f]].ids[t] \notin {NoId, file[f].ids[t]}

FailsForCause ==
    [][report' = "failed" /\ command = "migrate" =>
          ~clean \/ \E f \in Files : ~file[f].editable \/ Disputed(f)]_vars
=============================================================================
