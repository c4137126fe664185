------------------------------- MODULE Registry -------------------------------
(***************************************************************************)
(* The workspace registry of an opentide serve process, over its runs.      *)
(*                                                                         *)
(* A command builds a registry from the workspace's files and reads objects  *)
(* from it. Between runs the server keeps the registry a read-only command  *)
(* built, with a fingerprint of the files that were about to be read. It is *)
(* used again while they look the same and no invalidate dropped it.        *)
(* Anyone may edit a file at any time, a build's reads included; a cancel    *)
(* may end a command anywhere.                                              *)
(***************************************************************************)
EXTENDS Naturals, Sequences

CONSTANTS
    Workspaces,     \* retention keys: roots, working directory and OPENTIDE_ variables
    MaxRuns,        \* bound: runs asked for
    MaxEdits,       \* bound: edits of files
    MaxInvalidates, \* bound: invalidate notifications
    MaxBuilds       \* bound: registries built

ASSUME RegistryAssumption ==
    MaxRuns \in Nat /\ MaxEdits \in Nat /\ MaxInvalidates \in Nat /\ MaxBuilds \in Nat

VARIABLES
    watched,    \* watched[w]: version of the files w's fingerprint covers
    outside,    \* version of a file that configurations point at, in no workspace
    edits,
    queue,      \* requests and invalidates, in the order they came
    asked,      \* runs asked for so far
    invalidates,
    job,        \* the run being carried out
    stage,
    intent,     \* what the registry is being loaded for
    kept,       \* kept[w]: CommandRunner.snapshots
    cache,      \* IndexManager._cache
    index,      \* Opentide._index
    typed,      \* the registry the typed objects were loaded from
    print,      \* the fingerprint taken before the build
    builds,
    due,        \* history: the version of outside that was last made known
    least       \* history: the versions the run has to read at least

diskVars == <<watched, outside, edits>>
clientVars == <<queue, asked, invalidates>>
registryVars == <<cache, index, typed, print, builds>>
vars == <<diskVars, clientVars, job, stage, intent, kept, registryVars, due, least>>

-----------------------------------------------------------------------------
Versions == 0 .. MaxEdits
\* READ_ONLY_COMMANDS without --fix, or any other command.
Commands == {"reads", "writes"}
Jobs == [workspace : Workspaces, command : Commands]
NoJob == [workspace |-> "none", command |-> "none"]

\* A registry: which build, of what, from which versions; print is kept with it.
Registries == [build : 1 .. MaxBuilds, workspace : Workspaces, watched : Versions,
               outside : Versions, print : Versions]
None == [build |-> 0, workspace |-> "none", watched |-> 0, outside |-> 0, print |-> 0]
MaybeRegistry == Registries \cup {None}

Messages == [kind : {"run"}, job : Jobs, drops : {{}}, seen : {0}]
            \cup [kind : {"invalidate"}, job : {NoJob}, drops : SUBSET Workspaces, seen : Versions]

TypeOK ==
    /\ watched \in [Workspaces -> Versions] /\ outside \in Versions /\ edits \in Versions
    /\ queue \in Seq(Messages)
    /\ asked \in 0 .. MaxRuns /\ invalidates \in 0 .. MaxInvalidates
    /\ job \in Jobs \cup {NoJob} /\ (job = NoJob <=> stage = "idle")
    /\ stage \in {"idle", "command", "loading", "building", "built"}
    /\ intent \in {"none", "initialise", "reload"}
    /\ intent # "none" <=> stage \in {"loading", "building", "built"}
    /\ kept \in [Workspaces -> MaybeRegistry]
    /\ cache \in MaybeRegistry /\ index \in MaybeRegistry /\ typed \in MaybeRegistry
    /\ print \in Versions /\ builds \in 0 .. MaxBuilds
    /\ due \in Versions /\ least \in [watched : Versions, outside : Versions]

Init ==
    /\ watched = [w \in Workspaces |-> 0] /\ outside = 0 /\ edits = 0
    /\ queue = <<>> /\ asked = 0 /\ invalidates = 0
    /\ job = NoJob /\ stage = "idle" /\ intent = "none"
    /\ kept = [w \in Workspaces |-> None]
    /\ cache = None /\ index = None /\ typed = None
    /\ print = 0 /\ builds = 0
    /\ due = 0 /\ least = [watched |-> 0, outside |-> 0]

-----------------------------------------------------------------------------
\* A file changes, and its modification time or size with it.
Changes ==
    /\ edits < MaxEdits
    /\ edits' = edits + 1
    /\ \/ \E w \in Workspaces : watched' = [watched EXCEPT ![w] = @ + 1] /\ UNCHANGED outside
       \/ outside' = outside + 1 /\ UNCHANGED watched

Edit ==
    /\ Changes
    /\ UNCHANGED <<clientVars, job, stage, intent, kept, registryVars, due, least>>

Ask(request) ==
    /\ asked < MaxRuns
    /\ asked' = asked + 1
    /\ queue' = Append(queue, [kind |-> "run", job |-> request, drops |-> {}, seen |-> 0])
    /\ UNCHANGED <<diskVars, invalidates, job, stage, intent, kept, registryVars, due, least>>

\* An invalidate whose paths are in the workspaces drops, or, of the file outside, in none.
Invalidate(drops) ==
    /\ invalidates < MaxInvalidates
    /\ invalidates' = invalidates + 1
    /\ queue' = Append(queue, [kind |-> "invalidate", job |-> NoJob, drops |-> drops,
                               seen |-> IF drops = {} THEN outside ELSE 0])
    /\ UNCHANGED <<diskVars, asked, job, stage, intent, kept, registryVars, due, least>>

\* CommandRunner.invalidate: the snapshots of those workspaces go, or, if there is none
\* of them, all. Broken: only those.
MatchedOnly(drops) == drops
Dropped(drops) == IF \E w \in drops : kept[w] # None THEN drops ELSE Workspaces

Later(a, b) == IF a > b THEN a ELSE b

TakeInvalidate ==
    LET message == Head(queue) IN
    /\ stage = "idle" /\ queue # <<>>
    /\ message.kind = "invalidate"
    /\ queue' = Tail(queue)
    /\ kept' = [w \in Workspaces |-> IF w \in Dropped(message.drops) THEN None ELSE kept[w]]
    /\ due' = Later(due, message.seen)
    /\ UNCHANGED <<diskVars, asked, invalidates, job, stage, intent, registryVars, least>>

-----------------------------------------------------------------------------
(***************************************************************************)
(* A run. _reset_process_caches and the root callback forget the registry    *)
(* of the run before. Broken: the objects' registry is not forgotten.       *)
(***************************************************************************)
LeftOver == index
Forgotten == None

BeginRun ==
    LET request == Head(queue).job IN
    /\ stage = "idle" /\ queue # <<>>
    /\ Head(queue).kind = "run"
    /\ queue' = Tail(queue)
    /\ job' = request
    /\ stage' = "command"
    /\ cache' = None /\ index' = Forgotten /\ typed' = None
    /\ least' = [watched |-> watched[request.workspace], outside |-> due]
    /\ UNCHANGED <<diskVars, asked, invalidates, intent, kept, print, builds, due>>

\* IndexManager._retained is there for a command that only reads.
Keeps == job.command = "reads"
Kept == kept[job.workspace]

\* Opentide.initialise asks for the registry, Opentide.reload for a new one.
AskRegistry(why) ==
    /\ stage = "command"
    /\ stage' = "loading"
    /\ intent' = why
    /\ cache' = IF why = "reload" THEN None ELSE cache
    /\ UNCHANGED <<diskVars, clientVars, job, kept, index, typed, print, builds, due, least>>

(***************************************************************************)
(* What initialise and reload do with the registry r. The objects loaded     *)
(* from another one go. Broken: initialise keeps them.                      *)
(***************************************************************************)
KeepsObjects(r) == IF intent = "reload" THEN None ELSE typed
ObjectsOf(r) == IF intent = "reload" \/ (index # None /\ r.build # index.build) THEN None ELSE typed

Settle(r) ==
    /\ cache' = r
    /\ index' = r
    /\ typed' = ObjectsOf(r)
    /\ intent' = "none"
    /\ stage' = "command"

LoadCached ==
    /\ stage = "loading"
    /\ cache # None
    /\ Settle(cache)
    /\ UNCHANGED <<diskVars, clientVars, job, kept, print, builds, due, least>>

\* The fingerprint of what was kept. Broken: nobody compares.
AnyKept == Kept # None
Fits == Kept # None /\ Kept.print = watched[job.workspace]

LoadKept ==
    /\ stage = "loading"
    /\ cache = None
    /\ Keeps /\ Fits
    /\ Settle(Kept)
    /\ UNCHANGED <<diskVars, clientVars, job, kept, print, builds, due, least>>

\* _fingerprint_before_build; what was kept has been popped.
Fingerprint ==
    /\ stage = "loading"
    /\ cache = None
    /\ ~(Keeps /\ Fits)
    /\ kept' = IF Keeps THEN [kept EXCEPT ![job.workspace] = None] ELSE kept
    /\ print' = watched[job.workspace]
    /\ stage' = "building"
    /\ UNCHANGED <<diskVars, clientVars, job, intent, cache, index, typed, builds, due, least>>

\* build_registry reads the files.
Build ==
    /\ stage = "building"
    /\ builds < MaxBuilds
    /\ builds' = builds + 1
    /\ cache' = [build |-> builds + 1, workspace |-> job.workspace,
                 watched |-> watched[job.workspace], outside |-> outside, print |-> 0]
    /\ stage' = "built"
    /\ UNCHANGED <<diskVars, clientVars, job, intent, kept, index, typed, print, due, least>>

\* It is kept with the fingerprint. Broken: with that of the files as they are now.
PrintNow == watched[job.workspace]
PrintBefore == print

Keep ==
    /\ stage = "built"
    /\ kept' = IF Keeps THEN [kept EXCEPT ![job.workspace] = [cache EXCEPT !.print = PrintBefore]]
               ELSE kept
    /\ print' = 0
    /\ Settle(cache)
    /\ UNCHANGED <<diskVars, clientVars, job, builds, due, least>>

\* Opentide.Rules: the objects are loaded once, from the index at hand.
LoadObjects ==
    /\ stage = "command"
    /\ index # None
    /\ typed = None
    /\ typed' = index
    /\ UNCHANGED <<diskVars, clientVars, job, stage, intent, kept, cache, index, print, builds,
                   due, least>>

\* IndexManager._cache = None, by code that changes the workspace it works on.
DropCache ==
    /\ stage = "command"
    /\ cache # None
    /\ cache' = None
    /\ UNCHANGED <<diskVars, clientVars, job, stage, intent, kept, index, typed, print, builds,
                   due, least>>

Write ==
    /\ stage = "command"
    /\ ~Keeps
    /\ Changes
    /\ UNCHANGED <<clientVars, job, stage, intent, kept, registryVars, due, least>>

(***************************************************************************)
(* The command returns, or a cancel ends it wherever it is: run's finally    *)
(* drops every snapshot unless the command only reads. Broken: only that of  *)
(* its own workspace.                                                       *)
(***************************************************************************)
OwnCleared(w) == IF Keeps \/ w # job.workspace THEN kept[w] ELSE None
KeptAfter(w) == IF Keeps THEN kept[w] ELSE None

Leave ==
    /\ kept' = [w \in Workspaces |-> KeptAfter(w)]
    /\ due' = IF Keeps THEN due ELSE outside
    /\ cache' = None
    /\ print' = 0
    /\ intent' = "none"
    /\ job' = NoJob
    /\ stage' = "idle"
    /\ UNCHANGED <<diskVars, clientVars, index, typed, builds, least>>

Return == stage = "command" /\ Leave
Interrupted == stage \in {"loading", "building", "built"} /\ Leave

-----------------------------------------------------------------------------
Next ==
    \/ Edit
    \/ \E request \in Jobs : Ask(request)
    \/ \E drops \in SUBSET Workspaces : Invalidate(drops)
    \/ TakeInvalidate
    \/ BeginRun
    \/ AskRegistry("initialise") \/ AskRegistry("reload")
    \/ LoadCached \/ LoadKept \/ Fingerprint \/ Build \/ Keep
    \/ LoadObjects \/ DropCache \/ Write
    \/ Return \/ Interrupted

Spec == Init /\ [][Next]_vars
-----------------------------------------------------------------------------
Running == stage # "idle"

(***************************************************************************)
(* The registry a run works with is of its own workspace, and no older than  *)
(* the files were when the run began: the files the fingerprint sees, edited  *)
(* before, while or after a registry was built from them, and the file        *)
(* outside, as the last invalidate or command that may write left it.        *)
(***************************************************************************)
FreshRegistry ==
    Running /\ index # None =>
        /\ index.workspace = job.workspace
        /\ index.watched >= least.watched
        /\ index.outside >= least.outside

(***************************************************************************)
(* Rules and Index describe one catalogue: the objects a run has loaded come *)
(* from the index it has, however often the registry was dropped, asked for  *)
(* or reloaded in between.                                                  *)
(***************************************************************************)
ObjectsMatchIndex == Running /\ typed # None => typed.build = index.build
=============================================================================
