--------------------------- MODULE RegistryProofs ---------------------------
(***************************************************************************)
(* Theorems of Registry: types, that a run never works with a registry older *)
(* than the files were when it began, and that the objects it has loaded are *)
(* those of its index, for any workspaces, runs, edits, invalidates, builds. *)
(***************************************************************************)
EXTENDS Registry, SequenceTheorems, TLAPS

(***************************************************************************)
(* Types. TypeOK alone is not inductive: versions stay within the bound since *)
(* each is at most the number of edits, a fingerprint is put on a registry    *)
(* only.                                                                   *)
(***************************************************************************)
Counted ==
    /\ \A w \in Workspaces : watched[w] <= edits
    /\ outside <= edits

Built == stage = "built" => cache # None

Typed == TypeOK /\ Counted /\ Built

LEMMA NoneIsNoRegistry ==
    /\ None \notin Registries
    /\ \A r \in MaybeRegistry : r # None => r \in Registries
    /\ NoJob \notin Jobs
BY DEF None, Registries, MaybeRegistry, NoJob, Jobs, Commands

LEMMA Bounds == 0 \in Versions /\ Versions \subseteq Nat
BY RegistryAssumption DEF Versions

LEMMA InitTyped == Init => Typed
<1> SUFFICES ASSUME Init PROVE Typed
  OBVIOUS
<1>1. watched \in [Workspaces -> Versions] /\ outside \in Versions /\ edits \in Versions
  BY Bounds DEF Init
<1>2. queue \in Seq(Messages)
  BY EmptySeq DEF Init
<1>3. kept \in [Workspaces -> MaybeRegistry] /\ {cache, index, typed} \subseteq MaybeRegistry
  BY DEF Init, MaybeRegistry
<1>4. /\ asked \in 0 .. MaxRuns /\ invalidates \in 0 .. MaxInvalidates
      /\ builds \in 0 .. MaxBuilds
  BY RegistryAssumption DEF Init
<1>5. print \in Versions /\ due \in Versions /\ least \in [watched : Versions, outside : Versions]
  BY Bounds DEF Init
<1>6. Counted /\ Built
  BY DEF Init, Counted, Built
<1> QED
  BY <1>1, <1>2, <1>3, <1>4, <1>5, <1>6 DEF Init, TypeOK, Typed

\* The versions of a well-typed state are numbers, at most the number of edits.
LEMMA Numbers ==
    ASSUME Typed
    PROVE  /\ edits \in Nat /\ edits <= MaxEdits
           /\ outside \in Nat /\ outside <= edits
           /\ \A w \in Workspaces : watched[w] \in Nat /\ watched[w] <= edits
<1>1. /\ \A w \in Workspaces : watched[w] \in Versions
      /\ outside \in Versions /\ edits \in Versions
  BY DEF Typed, TypeOK
<1>2. \A n \in Versions : n \in Nat /\ n <= MaxEdits
  BY RegistryAssumption DEF Versions
<1> QED
  BY <1>1, <1>2 DEF Typed, Counted

LEMMA ChangesTyped ==
    ASSUME Typed, Changes
    PROVE  /\ watched' \in [Workspaces -> Versions] /\ outside' \in Versions
           /\ edits' \in Versions /\ Counted'
           /\ outside <= outside' /\ \A w \in Workspaces : watched[w] <= watched'[w]
<1> USE Numbers
<1>1. edits' = edits + 1 /\ edits' \in Versions
  BY RegistryAssumption DEF Changes, Versions
<1>2. \A n \in Nat : n <= edits' => n \in Versions
  BY <1>1, RegistryAssumption DEF Versions
<1>3. CASE \E w \in Workspaces : watched' = [watched EXCEPT ![w] = @ + 1] /\ UNCHANGED outside
  <2>1. PICK w \in Workspaces : watched' = [watched EXCEPT ![w] = @ + 1]
    BY <1>3
  <2>2. watched' = [v \in Workspaces |-> IF v = w THEN watched[w] + 1 ELSE watched[v]]
    BY <2>1 DEF Typed, TypeOK
  <2>3. \A v \in Workspaces : /\ watched[v] <= watched'[v]
                              /\ watched'[v] \in Nat /\ watched'[v] <= edits'
    BY <1>1, <2>2
  <2>4. watched' \in [Workspaces -> Versions]
    BY <1>2, <2>2, <2>3
  <2>5. outside' = outside /\ outside <= edits'
    BY <1>1, <1>3
  <2> QED
    BY <1>1, <1>2, <2>3, <2>4, <2>5 DEF Counted
<1>4. CASE outside' = outside + 1 /\ UNCHANGED watched
  <2>1. \A w \in Workspaces : watched'[w] <= edits' /\ watched[w] <= watched'[w]
    BY <1>1, <1>4
  <2>2. outside' <= edits' /\ outside <= outside' /\ outside' \in Nat
    BY <1>1, <1>4
  <2> QED
    BY <1>1, <1>2, <1>4, <2>1, <2>2 DEF Counted, Typed, TypeOK
<1> QED
  BY <1>3, <1>4 DEF Changes

LEMMA HeadMessage ==
    ASSUME Typed, queue # <<>>
    PROVE  /\ Head(queue) \in Messages /\ Tail(queue) \in Seq(Messages)
           /\ Head(queue).kind = "run" => Head(queue).job \in Jobs
           /\ Head(queue).drops \subseteq Workspaces /\ Head(queue).seen \in Versions
<1>1. Head(queue) \in Messages /\ Tail(queue) \in Seq(Messages)
  BY HeadTailProperties DEF Typed, TypeOK
<1> QED
  BY <1>1, Bounds DEF Messages

LEMMA SettleTypes ==
    ASSUME Typed, NEW r \in Registries, Settle(r)
    PROVE  /\ {cache', index', typed'} \subseteq MaybeRegistry
           /\ intent' = "none" /\ stage' = "command"
BY DEF Settle, ObjectsOf, Typed, TypeOK, MaybeRegistry

LEMMA LeaveTyped ==
    ASSUME Typed, stage # "idle", Leave
    PROVE  Typed'
<1>1. kept' \in [Workspaces -> MaybeRegistry]
  BY DEF Leave, KeptAfter, Keeps, Typed, TypeOK, MaybeRegistry
<1>2. UNCHANGED <<diskVars, clientVars, index, typed, builds, least>>
  BY DEF Leave
<1>3. /\ cache' = None /\ print' = 0 /\ intent' = "none" /\ job' = NoJob /\ stage' = "idle"
      /\ due' \in Versions
  BY DEF Leave, Typed, TypeOK
<1> QED
  BY <1>1, <1>2, <1>3, Bounds DEF Typed, TypeOK, Counted, Built, diskVars, clientVars, MaybeRegistry

LEMMA NextTyped == Typed /\ [Next]_vars => Typed'
<1> SUFFICES ASSUME Typed, [Next]_vars PROVE Typed'
  OBVIOUS
<1> USE NoneIsNoRegistry, Bounds DEF diskVars, clientVars, registryVars
<1>1. CASE Edit
  BY <1>1, ChangesTyped DEF Edit, Typed, TypeOK, Built
<1>2. ASSUME NEW request \in Jobs, Ask(request) PROVE Typed'
  <2> DEFINE message == [kind |-> "run", job |-> request, drops |-> {}, seen |-> 0]
  <2>1. message \in Messages
    BY DEF Messages
  <2>2. queue' \in Seq(Messages)
    BY <1>2, <2>1, AppendProperties DEF Ask, Typed, TypeOK
  <2>3. asked' \in 0 .. MaxRuns
    BY <1>2, RegistryAssumption DEF Ask, Typed, TypeOK
  <2> QED
    BY <1>2, <2>2, <2>3 DEF Ask, Typed, TypeOK, Counted, Built
<1>3. ASSUME NEW drops \in SUBSET Workspaces, Invalidate(drops) PROVE Typed'
  <2> DEFINE message == [kind |-> "invalidate", job |-> NoJob, drops |-> drops,
                         seen |-> IF drops = {} THEN outside ELSE 0]
  <2>1. message \in Messages
    BY DEF Messages, Typed, TypeOK
  <2>2. queue' \in Seq(Messages)
    BY <1>3, <2>1, AppendProperties DEF Invalidate, Typed, TypeOK
  <2>3. invalidates' \in 0 .. MaxInvalidates
    BY <1>3, RegistryAssumption DEF Invalidate, Typed, TypeOK
  <2> QED
    BY <1>3, <2>2, <2>3 DEF Invalidate, Typed, TypeOK, Counted, Built
<1>4. CASE TakeInvalidate
  <2>1. queue # <<>>
    BY <1>4 DEF TakeInvalidate
  <2>2. queue' \in Seq(Messages) /\ due' \in Versions
    BY <1>4, <2>1, HeadMessage DEF TakeInvalidate, Later, Typed, TypeOK
  <2>3. kept' \in [Workspaces -> MaybeRegistry]
    BY <1>4 DEF TakeInvalidate, Typed, TypeOK, MaybeRegistry
  <2> QED
    BY <1>4, <2>2, <2>3 DEF TakeInvalidate, Typed, TypeOK, Counted, Built
<1>5. CASE BeginRun
  <2>1. queue # <<>> /\ Head(queue).kind = "run"
    BY <1>5 DEF BeginRun
  <2>2. queue' \in Seq(Messages) /\ job' \in Jobs
    BY <1>5, <2>1, HeadMessage DEF BeginRun
  <2>3. job'.workspace \in Workspaces
    BY <2>2 DEF Jobs
  <2>4. least' \in [watched : Versions, outside : Versions]
    BY <1>5, <2>3 DEF BeginRun, Typed, TypeOK
  <2>5. cache' \in MaybeRegistry /\ index' \in MaybeRegistry /\ typed' \in MaybeRegistry
    BY <1>5 DEF BeginRun, Forgotten, MaybeRegistry
  <2>6. stage' = "command" /\ intent' = "none"
    BY <1>5 DEF BeginRun, Typed, TypeOK
  <2> QED
    BY <1>5, <2>2, <2>4, <2>5, <2>6 DEF BeginRun, Typed, TypeOK, Counted, Built
<1>6. ASSUME NEW why \in {"initialise", "reload"}, AskRegistry(why) PROVE Typed'
  BY <1>6 DEF AskRegistry, Typed, TypeOK, Counted, Built, MaybeRegistry
<1>7. CASE LoadCached
  <2>1. cache \in Registries /\ Settle(cache)
    BY <1>7 DEF LoadCached, Typed, TypeOK
  <2> QED
    BY <1>7, <2>1, SettleTypes DEF LoadCached, Typed, TypeOK, Counted, Built
<1>8. CASE LoadKept
  <2>1. job \in Jobs
    BY <1>8 DEF LoadKept, Typed, TypeOK
  <2>2. Kept \in Registries /\ Settle(Kept)
    BY <1>8, <2>1 DEF LoadKept, Kept, Fits, Typed, TypeOK, Jobs
  <2> QED
    BY <1>8, <2>2, SettleTypes DEF LoadKept, Typed, TypeOK, Counted, Built
<1>9. CASE Fingerprint
  <2>1. job \in Jobs
    BY <1>9 DEF Fingerprint, Typed, TypeOK
  <2>2. print' \in Versions
    BY <1>9, <2>1 DEF Fingerprint, Typed, TypeOK, Jobs
  <2>3. kept' \in [Workspaces -> MaybeRegistry]
    BY <1>9 DEF Fingerprint, Typed, TypeOK, MaybeRegistry
  <2> QED
    BY <1>9, <2>2, <2>3 DEF Fingerprint, Typed, TypeOK, Counted, Built
<1>10. CASE Build
  <2>1. job \in Jobs
    BY <1>10 DEF Build, Typed, TypeOK
  <2>2. builds' \in 1 .. MaxBuilds
    BY <1>10, RegistryAssumption DEF Build, Typed, TypeOK
  <2>3. cache' \in Registries
    BY <1>10, <2>1, <2>2 DEF Build, Registries, Typed, TypeOK, Jobs
  <2> QED
    BY <1>10, <2>2, <2>3 DEF Build, Typed, TypeOK, Counted, Built, MaybeRegistry
<1>11. CASE Keep
  <2>1. cache \in Registries /\ Settle(cache)
    BY <1>11 DEF Keep, Typed, TypeOK, Built
  <2>2. [cache EXCEPT !.print = print] \in Registries
    BY <2>1 DEF Typed, TypeOK, Registries
  <2>3. kept' \in [Workspaces -> MaybeRegistry]
    BY <1>11, <2>2 DEF Keep, PrintBefore, Typed, TypeOK, MaybeRegistry
  <2> QED
    BY <1>11, <2>1, <2>3, SettleTypes DEF Keep, Typed, TypeOK, Counted, Built
<1>12. CASE LoadObjects
  BY <1>12 DEF LoadObjects, Typed, TypeOK, Counted, Built
<1>13. CASE DropCache
  BY <1>13 DEF DropCache, Typed, TypeOK, Counted, Built, MaybeRegistry
<1>14. CASE Write
  BY <1>14, ChangesTyped DEF Write, Typed, TypeOK, Built
<1>15. CASE Return \/ Interrupted
  BY <1>15, LeaveTyped DEF Return, Interrupted
<1>16. CASE UNCHANGED vars
  BY <1>16 DEF vars, Typed, TypeOK, Counted, Built
<1> QED
  BY <1>1, <1>2, <1>3, <1>4, <1>5, <1>6, <1>7, <1>8, <1>9, <1>10, <1>11, <1>12, <1>13, <1>14,
     <1>15, <1>16 DEF Next

(***************************************************************************)
(* Every reachable state of the registry component is well typed.           *)
(***************************************************************************)
THEOREM TypeCorrect == Spec => []TypeOK
<1>1. Init => Typed
  BY InitTyped
<1>2. Typed /\ [Next]_vars => Typed'
  BY NextTyped
<1>3. Typed => TypeOK
  BY DEF Typed
<1> QED
  BY <1>1, <1>2, <1>3, PTL DEF Spec

(***************************************************************************)
(* What the registries at hand are made of. A message that drops snapshots    *)
(* makes nothing outside known; what it makes known is there.               *)
(***************************************************************************)
QueueInv ==
    \A i \in 1 .. Len(queue) : /\ queue[i].seen <= outside
                               /\ queue[i].drops # {} => queue[i].seen = 0

\* A registry was read from files between the fingerprint's and the present ones.
KeptInv ==
    \A w \in Workspaces :
        kept[w] # None => /\ kept[w].workspace = w
                          /\ kept[w].print <= kept[w].watched
                          /\ kept[w].watched <= watched[w]
                          /\ due <= kept[w].outside

LeastInv ==
    /\ due <= outside
    /\ stage # "idle" => /\ least.watched <= watched[job.workspace]
                         /\ least.outside = due
                         /\ least.outside <= outside

\* The run's own: fresh enough, and of its workspace.
Fresh(r) ==
    r # None => /\ r.workspace = job.workspace
                /\ least.watched <= r.watched /\ r.watched <= watched[job.workspace]
                /\ least.outside <= r.outside

RunInv ==
    stage # "idle" => Fresh(cache) /\ Fresh(index)

PrintInv ==
    /\ stage = "building" => print <= watched[job.workspace]
    /\ stage = "built" => print <= cache.watched

ObjectsInv == typed # None => index # None /\ typed.build = index.build

IInv == Typed /\ QueueInv /\ KeptInv /\ LeastInv /\ RunInv /\ PrintInv /\ ObjectsInv

LEMMA InitIInv == Init => IInv
<1> SUFFICES ASSUME Init PROVE IInv
  OBVIOUS
<1>1. Typed
  BY InitTyped
<1>2. Len(queue) = 0
  BY DEF Init
<1>3. QueueInv
  BY <1>2 DEF QueueInv
<1>4. KeptInv /\ LeastInv /\ RunInv /\ PrintInv /\ ObjectsInv
  BY DEF Init, KeptInv, LeastInv, RunInv, PrintInv, ObjectsInv
<1> QED
  BY <1>1, <1>3, <1>4 DEF IInv

\* Nothing makes a version smaller.
LEMMA VersionsGrow ==
    ASSUME Typed, [Next]_vars
    PROVE  /\ outside <= outside' /\ outside' \in Nat
           /\ \A w \in Workspaces : watched[w] <= watched'[w] /\ watched'[w] \in Nat
<1> USE Numbers DEF diskVars
<1>1. CASE Edit \/ Write
  <2>1. Changes
    BY <1>1 DEF Edit, Write
  <2>2. Typed'
    BY NextTyped
  <2>3. outside' \in Nat /\ \A w \in Workspaces : watched'[w] \in Nat
    BY <2>2, Bounds DEF Typed, TypeOK
  <2> QED
    BY <2>1, <2>3, ChangesTyped
<1>2. CASE UNCHANGED diskVars
  BY <1>2
<1>3. CASE Return \/ Interrupted
  BY <1>2, <1>3 DEF Return, Interrupted, Leave
<1> QED
  BY <1>1, <1>2, <1>3 DEF Next, Ask, Invalidate, TakeInvalidate, BeginRun, AskRegistry,
       LoadCached, LoadKept, Fingerprint, Build, Keep, LoadObjects, DropCache, vars

LEMMA NextQueue == IInv /\ [Next]_vars => QueueInv'
<1> SUFFICES ASSUME IInv, [Next]_vars PROVE QueueInv'
  OBVIOUS
<1>1. Typed /\ QueueInv /\ outside <= outside' /\ outside' \in Nat /\ outside \in Nat
  BY VersionsGrow, Numbers DEF IInv
<1>2. /\ queue \in Seq(Messages) /\ Len(queue) \in Nat
      /\ \A i \in 1 .. Len(queue) : queue[i].seen \in Nat
  <2>1. queue \in Seq(Messages)
    BY <1>1 DEF Typed, TypeOK
  <2>2. \A m \in Messages : m.seen \in Nat
    BY Bounds DEF Messages
  <2> QED
    BY <2>1, <2>2, ElementOfSeq, LenProperties
<1>3. CASE UNCHANGED queue
  <2>1. ASSUME NEW i \in 1 .. Len(queue)
        PROVE  /\ queue[i].seen <= outside'
               /\ queue[i].drops # {} => queue[i].seen = 0
    <3>1. queue[i].seen \in Nat /\ queue[i].seen <= outside
      BY <1>1, <1>2, <2>1 DEF QueueInv
    <3>2. queue[i].drops # {} => queue[i].seen = 0
      BY <1>1, <1>2, <2>1 DEF QueueInv
    <3> QED
      BY <1>1, <3>1, <3>2
  <2> QED
    BY <1>3, <2>1 DEF QueueInv
<1>4. ASSUME NEW m \in Messages, queue' = Append(queue, m), m.seen <= outside,
             m.drops # {} => m.seen = 0, UNCHANGED outside
      PROVE  QueueInv'
  <2>1. /\ Len(queue') = Len(queue) + 1 /\ queue'[Len(queue) + 1] = m
        /\ \A i \in 1 .. Len(queue) : queue'[i] = queue[i]
    BY <1>2, <1>4, AppendProperties
  <2>2. Len(queue) \in Nat
    BY <1>2, LenProperties
  <2>3. \A i \in 1 .. Len(queue') : i \in 1 .. Len(queue) \/ i = Len(queue) + 1
    BY <2>1, <2>2
  <2> QED
    BY <1>1, <1>4, <2>1, <2>3 DEF QueueInv
<1>5. ASSUME NEW request \in Jobs, Ask(request) PROVE QueueInv'
  <2> DEFINE m == [kind |-> "run", job |-> request, drops |-> {}, seen |-> 0]
  <2>1. m \in Messages /\ m.seen <= outside /\ m.drops = {}
    BY <1>1 DEF Messages
  <2>2. queue' = Append(queue, m) /\ UNCHANGED outside
    BY <1>5 DEF Ask, diskVars
  <2> QED
    BY <1>4, <2>1, <2>2
<1>6. ASSUME NEW drops \in SUBSET Workspaces, Invalidate(drops) PROVE QueueInv'
  <2> DEFINE m == [kind |-> "invalidate", job |-> NoJob, drops |-> drops,
                   seen |-> IF drops = {} THEN outside ELSE 0]
  <2>1. m \in Messages /\ m.seen <= outside /\ (m.drops # {} => m.seen = 0)
    BY <1>1, Bounds DEF Messages, Typed, TypeOK
  <2>2. queue' = Append(queue, m) /\ UNCHANGED outside
    BY <1>6 DEF Invalidate, diskVars
  <2> QED
    BY <1>4, <2>1, <2>2
<1>7. CASE TakeInvalidate \/ BeginRun
  <2>1. queue # <<>> /\ queue' = Tail(queue) /\ UNCHANGED outside
    BY <1>7 DEF TakeInvalidate, BeginRun, diskVars
  <2>2. /\ Len(queue') = Len(queue) - 1
        /\ \A i \in 1 .. Len(queue') : queue'[i] = queue[i + 1]
    BY <1>2, <2>1, HeadTailProperties
  <2>3. Len(queue) \in Nat
    BY <1>2, LenProperties
  <2>4. \A i \in 1 .. Len(queue') : i + 1 \in 1 .. Len(queue)
    BY <2>2, <2>3
  <2> QED
    BY <1>1, <2>1, <2>2, <2>4 DEF QueueInv
<1>8. CASE Return \/ Interrupted
  BY <1>3, <1>8 DEF Return, Interrupted, Leave, clientVars
<1> QED
  BY <1>3, <1>5, <1>6, <1>7, <1>8 DEF Next, Edit, AskRegistry, LoadCached, LoadKept, Fingerprint,
       Build, Keep, LoadObjects, DropCache, Write, clientVars, vars

(***************************************************************************)
(* The three parts about registries. What a run has at hand, and what is     *)
(* kept, changes in few actions; the versions only grow under them.         *)
(***************************************************************************)
LEMMA RunWorkspace ==
    ASSUME Typed, stage # "idle"
    PROVE  job \in Jobs /\ job.workspace \in Workspaces
BY DEF Typed, TypeOK, Jobs

LEMMA RegistryNumbers ==
    ASSUME NEW r \in Registries
    PROVE  r.watched \in Nat /\ r.outside \in Nat /\ r.print \in Nat
BY Bounds DEF Registries

LEMMA StateNumbers ==
    ASSUME Typed
    PROVE  /\ due \in Nat /\ print \in Nat /\ least.watched \in Nat /\ least.outside \in Nat
           /\ \A r \in {cache, index, typed} : r = None \/ r \in Registries
           /\ \A w \in Workspaces : kept[w] = None \/ kept[w] \in Registries
<1>1. due \in Versions /\ print \in Versions /\ least.watched \in Versions
      /\ least.outside \in Versions
  BY DEF Typed, TypeOK
<1>2. {cache, index, typed} \subseteq MaybeRegistry /\ \A w \in Workspaces : kept[w] \in MaybeRegistry
  BY DEF Typed, TypeOK
<1> QED
  BY <1>1, <1>2, Bounds DEF MaybeRegistry

\* A change of files leaves all of it true.
LEMMA GrowthKeeps ==
    ASSUME IInv, [Next]_vars,
           UNCHANGED <<job, stage, intent, kept, registryVars, due, least>>
    PROVE  KeptInv' /\ LeastInv' /\ RunInv' /\ PrintInv' /\ ObjectsInv'
<1> USE DEF registryVars
<1>1. /\ Typed
      /\ outside <= outside' /\ outside' \in Nat /\ outside \in Nat
      /\ \A w \in Workspaces : /\ watched[w] <= watched'[w]
                               /\ watched'[w] \in Nat /\ watched[w] \in Nat
  BY VersionsGrow, Numbers DEF IInv
<1>2. KeptInv'
  <2>1. ASSUME NEW w \in Workspaces, kept[w] # None
        PROVE  /\ kept[w].workspace = w /\ kept[w].print <= kept[w].watched
               /\ kept[w].watched <= watched'[w] /\ due <= kept[w].outside
    <3>1. kept[w].watched \in Nat
      BY <1>1, <2>1, StateNumbers, RegistryNumbers
    <3>2. /\ kept[w].workspace = w /\ kept[w].print <= kept[w].watched
          /\ kept[w].watched <= watched[w] /\ due <= kept[w].outside
      BY <2>1 DEF IInv, KeptInv
    <3> QED
      BY <1>1, <3>1, <3>2
  <2> QED
    BY <2>1 DEF KeptInv
<1>3. LeastInv'
  <2>1. due \in Nat /\ least.watched \in Nat /\ least.outside \in Nat
    BY <1>1, StateNumbers
  <2>2. due <= outside'
    BY <1>1, <2>1 DEF IInv, LeastInv
  <2>3. ASSUME stage # "idle"
        PROVE  /\ least.watched <= watched'[job.workspace] /\ least.outside = due
               /\ least.outside <= outside'
    BY <1>1, <2>1, <2>3, RunWorkspace DEF IInv, LeastInv
  <2> QED
    BY <2>2, <2>3 DEF LeastInv
<1>4. RunInv'
  <2>1. ASSUME stage # "idle", NEW r \in {cache, index}, r # None
        PROVE  /\ r.workspace = job.workspace
               /\ least.watched <= r.watched /\ r.watched <= watched'[job.workspace]
               /\ least.outside <= r.outside
    <3>1. r.watched \in Nat
      BY <1>1, <2>1, StateNumbers, RegistryNumbers
    <3>2. /\ r.workspace = job.workspace
          /\ least.watched <= r.watched /\ r.watched <= watched[job.workspace]
          /\ least.outside <= r.outside
      BY <2>1 DEF IInv, RunInv, Fresh
    <3> QED
      BY <1>1, <2>1, <3>1, <3>2, RunWorkspace
  <2> QED
    BY <2>1 DEF RunInv, Fresh
<1>5. PrintInv'
  <2>1. print \in Nat
    BY <1>1, StateNumbers
  <2>2. stage = "building" => print <= watched'[job.workspace]
    BY <1>1, <2>1, RunWorkspace DEF IInv, PrintInv
  <2> QED
    BY <2>2 DEF PrintInv, IInv
<1>6. ObjectsInv'
  BY DEF ObjectsInv, IInv
<1> QED
  BY <1>2, <1>3, <1>4, <1>5, <1>6

\* initialise and reload leave a run with a registry that is fresh if r is, and with no
\* objects of another one.
LEMMA SettleKeeps ==
    ASSUME IInv, NEW r \in Registries, Fresh(r), stage # "idle", Settle(r),
           UNCHANGED <<diskVars, job, due, least>>
    PROVE  LeastInv' /\ RunInv' /\ PrintInv' /\ ObjectsInv'
<1> USE DEF diskVars
<1>1. cache' = r /\ index' = r /\ r # None /\ stage' = "command" /\ typed' = ObjectsOf(r)
  BY NoneIsNoRegistry DEF Settle
<1>2. LeastInv' /\ PrintInv'
  BY <1>1 DEF LeastInv, PrintInv, IInv
<1>3. RunInv'
  BY <1>1 DEF RunInv, Fresh
<1>4. typed' # None => typed' = typed /\ (index # None => r.build = index.build)
  BY <1>1 DEF ObjectsOf
<1>5. ObjectsInv'
  BY <1>1, <1>4 DEF ObjectsInv, IInv
<1> QED
  BY <1>2, <1>3, <1>5

LEMMA LeaveKeeps ==
    ASSUME IInv, stage # "idle", Leave
    PROVE  KeptInv' /\ LeastInv' /\ RunInv' /\ PrintInv' /\ ObjectsInv'
<1>1. /\ stage' = "idle" /\ UNCHANGED <<watched, outside, index, typed>>
      /\ due' = IF Keeps THEN due ELSE outside
      /\ kept' = [w \in Workspaces |-> KeptAfter(w)]
  BY DEF Leave, diskVars
<1>2. KeptInv'
  <2>1. CASE Keeps
    BY <1>1, <2>1 DEF KeptInv, IInv, KeptAfter
  <2>2. CASE ~Keeps
    BY <1>1, <2>2 DEF KeptInv, KeptAfter
  <2> QED
    BY <2>1, <2>2
<1>3. LeastInv'
  <2>1. outside \in Nat /\ due <= outside
    BY Numbers DEF IInv, LeastInv
  <2> QED
    BY <1>1, <2>1 DEF LeastInv
<1>4. RunInv' /\ PrintInv' /\ ObjectsInv'
  BY <1>1 DEF RunInv, PrintInv, ObjectsInv, IInv
<1> QED
  BY <1>2, <1>3, <1>4

LEMMA NextIInv == IInv /\ [Next]_vars => IInv'
<1> SUFFICES ASSUME IInv, [Next]_vars
             PROVE  KeptInv' /\ LeastInv' /\ RunInv' /\ PrintInv' /\ ObjectsInv'
  BY NextTyped, NextQueue DEF IInv
<1> USE DEF diskVars, clientVars, registryVars
<1>1. CASE \/ Edit \/ Write \/ UNCHANGED vars
           \/ \E request \in Jobs : Ask(request)
           \/ \E drops \in SUBSET Workspaces : Invalidate(drops)
  BY <1>1, GrowthKeeps DEF Edit, Write, Ask, Invalidate, vars
<1>2. CASE TakeInvalidate
  <2> DEFINE m == Head(queue)
  <2>1. /\ stage = "idle" /\ queue # <<>> /\ due' = Later(due, m.seen)
        /\ UNCHANGED <<watched, outside, stage, job, cache, index, typed, print, least>>
        /\ kept' = [w \in Workspaces |-> IF w \in Dropped(m.drops) THEN None ELSE kept[w]]
    BY <1>2 DEF TakeInvalidate
  <2>2. m.seen \in Nat /\ m.seen <= outside /\ (m.drops # {} => m.seen = 0)
    <3>1. queue \in Seq(Messages) /\ Len(queue) \in Nat \ {0}
      BY <2>1, EmptySeq DEF IInv, Typed, TypeOK
    <3>2. m = queue[1] /\ 1 \in 1 .. Len(queue)
      BY <3>1
    <3>3. m.seen \in Nat
      BY <2>1, HeadMessage, Bounds DEF IInv
    <3> QED
      BY <3>2, <3>3 DEF IInv, QueueInv
  <2>3. due \in Nat /\ outside \in Nat /\ due <= outside
    BY StateNumbers, Numbers DEF IInv, LeastInv
  <2>4. KeptInv'
    <3>1. CASE m.drops = {}
      <4>1. \A w \in Workspaces : kept'[w] = None
        BY <2>1, <3>1 DEF Dropped
      <4> QED
        BY <4>1 DEF KeptInv
    <3>2. CASE m.drops # {}
      <4>1. due' = due
        BY <2>1, <2>2, <2>3, <3>2 DEF Later
      <4>2. \A w \in Workspaces : kept'[w] = None \/ kept'[w] = kept[w]
        BY <2>1
      <4> QED
        BY <2>1, <4>1, <4>2 DEF KeptInv, IInv
    <3> QED
      BY <3>1, <3>2
  <2>5. LeastInv'
    BY <2>1, <2>2, <2>3 DEF LeastInv, Later
  <2> QED
    BY <2>1, <2>4, <2>5 DEF RunInv, PrintInv, ObjectsInv, IInv
<1>3. CASE BeginRun
  <2>1. /\ stage' = "command" /\ UNCHANGED <<watched, outside, kept, due>>
        /\ cache' = None /\ index' = None /\ typed' = None
        /\ least' = [watched |-> watched[job'.workspace], outside |-> due]
    BY <1>3 DEF BeginRun, Forgotten
  <2>2. queue # <<>> /\ Head(queue).kind = "run" /\ job' = Head(queue).job
    BY <1>3 DEF BeginRun
  <2>3. job'.workspace \in Workspaces
    BY <2>2, HeadMessage DEF IInv, Jobs
  <2>4. watched[job'.workspace] \in Nat
    BY <2>3, Numbers DEF IInv
  <2>5. LeastInv'
    BY <2>1, <2>4 DEF LeastInv, IInv
  <2> QED
    BY <2>1, <2>5 DEF KeptInv, RunInv, Fresh, PrintInv, ObjectsInv, IInv
<1>4. ASSUME NEW why \in {"initialise", "reload"}, AskRegistry(why)
      PROVE  KeptInv' /\ LeastInv' /\ RunInv' /\ PrintInv' /\ ObjectsInv'
  BY <1>4 DEF AskRegistry, KeptInv, LeastInv, RunInv, Fresh, PrintInv, ObjectsInv, IInv
<1>5. CASE LoadCached
  <2>1. cache \in Registries /\ Fresh(cache) /\ stage # "idle" /\ Settle(cache)
    BY <1>5, NoneIsNoRegistry DEF LoadCached, IInv, Typed, TypeOK, RunInv
  <2>2. UNCHANGED <<diskVars, job, due, least, kept>>
    BY <1>5 DEF LoadCached
  <2> QED
    BY <2>1, <2>2, SettleKeeps DEF KeptInv, IInv
<1>6. CASE LoadKept
  <2>1. stage # "idle" /\ Settle(Kept) /\ Fits /\ UNCHANGED <<diskVars, job, due, least, kept>>
    BY <1>6 DEF LoadKept
  <2>2. job.workspace \in Workspaces
    BY <2>1, RunWorkspace DEF IInv
  <2>3. Kept \in Registries
    BY <2>1, <2>2, StateNumbers DEF IInv, Kept, Fits
  <2>4. Kept.watched = watched[job.workspace]
    BY <2>1, <2>2, <2>3, RegistryNumbers, Numbers DEF IInv, KeptInv, Kept, Fits
  <2>5. Fresh(Kept)
    BY <2>1, <2>2, <2>3, <2>4, Numbers DEF Fresh, IInv, KeptInv, LeastInv, Kept, Fits
  <2> QED
    BY <2>1, <2>3, <2>5, SettleKeeps DEF KeptInv, IInv
<1>7. CASE Fingerprint
  <2>1. /\ stage' = "building" /\ print' = watched[job.workspace]
        /\ UNCHANGED <<diskVars, job, due, least, cache, index, typed>> /\ stage # "idle"
        /\ \A w \in Workspaces : kept'[w] = None \/ kept'[w] = kept[w]
    BY <1>7 DEF Fingerprint, IInv, Typed, TypeOK
  <2>2. watched[job.workspace] \in Nat
    BY <2>1, RunWorkspace, Numbers DEF IInv
  <2>3. KeptInv'
    BY <2>1 DEF KeptInv, IInv
  <2> QED
    BY <2>1, <2>2, <2>3 DEF LeastInv, RunInv, Fresh, PrintInv, ObjectsInv, IInv
<1>8. CASE Build
  <2>1. /\ stage = "building" /\ stage' = "built"
        /\ UNCHANGED <<diskVars, job, due, least, index, typed, kept, print>>
        /\ cache' = [build |-> builds + 1, workspace |-> job.workspace,
                     watched |-> watched[job.workspace], outside |-> outside, print |-> 0]
    BY <1>8 DEF Build
  <2>2. watched[job.workspace] \in Nat
    BY <2>1, RunWorkspace, Numbers DEF IInv
  <2>3. RunInv'
    BY <2>1, <2>2 DEF RunInv, Fresh, LeastInv, IInv
  <2>4. PrintInv'
    BY <2>1 DEF PrintInv, IInv
  <2> QED
    BY <2>1, <2>3, <2>4 DEF KeptInv, LeastInv, ObjectsInv, IInv
<1>9. CASE Keep
  <2>1. /\ stage = "built" /\ Settle(cache) /\ UNCHANGED <<diskVars, job, due, least>>
        /\ kept' = IF Keeps THEN [kept EXCEPT ![job.workspace] = [cache EXCEPT !.print = print]]
                   ELSE kept
    BY <1>9 DEF Keep, PrintBefore
  <2>2. cache \in Registries /\ Fresh(cache)
    BY <2>1, NoneIsNoRegistry DEF IInv, Typed, TypeOK, Built, RunInv
  <2>3. KeptInv'
    <3> DEFINE r == [cache EXCEPT !.print = print]
    <3>1. /\ r.workspace = job.workspace /\ r.print <= r.watched
          /\ r.watched <= watched[job.workspace] /\ due <= r.outside
      <4>1. /\ r.workspace = cache.workspace /\ r.print = print
            /\ r.watched = cache.watched /\ r.outside = cache.outside
        BY <2>2 DEF Registries
      <4> QED
        BY <2>1, <2>2, <4>1, NoneIsNoRegistry DEF Fresh, PrintInv, LeastInv, IInv
    <3>2. \A w \in Workspaces : kept'[w] = kept[w] \/ (w = job.workspace /\ kept'[w] = r)
      BY <2>1 DEF IInv, Typed, TypeOK
    <3> QED
      BY <2>1, <3>1, <3>2 DEF KeptInv, IInv
  <2> QED
    BY <2>1, <2>2, <2>3, SettleKeeps
<1>10. CASE LoadObjects
  <2>1. /\ index # None /\ typed' = index
        /\ UNCHANGED <<diskVars, job, stage, kept, cache, index, print, due, least>>
    BY <1>10 DEF LoadObjects
  <2> QED
    BY <2>1 DEF KeptInv, LeastInv, RunInv, Fresh, PrintInv, ObjectsInv, IInv
<1>11. CASE DropCache
  BY <1>11 DEF DropCache, KeptInv, LeastInv, RunInv, Fresh, PrintInv, ObjectsInv, IInv
<1>12. CASE Return \/ Interrupted
  BY <1>12, LeaveKeeps DEF Return, Interrupted
<1> QED
  BY <1>1, <1>2, <1>3, <1>4, <1>5, <1>6, <1>7, <1>8, <1>9, <1>10, <1>11, <1>12 DEF Next

(***************************************************************************)
(* A run never works with another workspace's registry, nor with one older   *)
(* than the files were when it began, or, of files outside, than the last     *)
(* invalidate or writing command made known: IndexManager and CommandRunner.  *)
(***************************************************************************)
THEOREM RegistriesAreFresh == Spec => []FreshRegistry
<1>1. Init => IInv
  BY InitIInv
<1>2. IInv /\ [Next]_vars => IInv'
  BY NextIInv
<1>3. IInv => FreshRegistry
  <2> SUFFICES ASSUME IInv, stage # "idle", index # None
               PROVE  /\ index.workspace = job.workspace
                      /\ index.watched >= least.watched /\ index.outside >= least.outside
    BY DEF FreshRegistry, Running
  <2>1. index \in Registries
    BY StateNumbers DEF IInv
  <2>2. /\ index.watched \in Nat /\ index.outside \in Nat
        /\ least.watched \in Nat /\ least.outside \in Nat
    BY <2>1, RegistryNumbers, StateNumbers DEF IInv
  <2> QED
    BY <2>2 DEF IInv, RunInv, Fresh
<1> QED
  BY <1>1, <1>2, <1>3, PTL DEF Spec

(***************************************************************************)
(* Rules and Index of a run describe one catalogue, however often the         *)
(* registry is dropped, asked for and reloaded.                             *)
(***************************************************************************)
THEOREM ObjectsAreTheIndex == Spec => []ObjectsMatchIndex
<1>1. IInv => ObjectsMatchIndex
  BY DEF IInv, ObjectsInv, ObjectsMatchIndex
<1> QED
  BY <1>1, InitIInv, NextIInv, PTL DEF Spec
=============================================================================
