-------------------------- MODULE StateFilesProofs --------------------------
(***************************************************************************)
(* Theorems of StateFiles: types, that a reader always finds whole files, that *)
(* no promised id is ever in neither place, and how a migration ends, for any  *)
(* rules, tenants, ids, commands, failed writes, kills and power failures.   *)
(***************************************************************************)
EXTENDS StateFiles, SequenceTheorems, TLAPS

Writes == Writing \cup {"settle"}

\* What a command is writing: migrate-state a rule, before that perhaps its shard, the
\* others one shard.
Shape ==
    /\ stage \in {"idle", "rule"} => todo = <<>>
    /\ stage = "rule" => command = "migrate"
    /\ stage \in Writes =>
          \/ command = "migrate" /\ rule \in Files /\ todo \in {<<rule>>, <<UuidOf[rule], rule>>}
          \/ command \in {"record", "forget"} /\ \E u \in Uuids : todo = <<u>>
    /\ stage = "unlink" => command = "forget" /\ state = NoIds

Typed == TypeOK /\ Shape

\* The temporary file has what is to be written, flushed before it is renamed.
TemporaryInv ==
    /\ stage \in {"flush", "rename"} => temporary.content = Content
    /\ stage = "rename" => temporary.flushed

\* What a power failure may leave is whole.
WholeInv == \A p \in Paths : \A c \in after[p] : c.whole

\* A path that is not being renamed is as certain as the last flush of its directory.
CertainInv ==
    \A p \in Paths : p \notin cut /\ ~(stage = "settle" /\ writing = p) => after[p] = {file[p]}

GivenInv == \A g \in given : g[1] \notin cut

\* The shard in memory keeps what the shard and the rule have, and once its directory is
\* to be flushed it is the shard's file.
MovingInv ==
    /\ stage \in Writes /\ command = "migrate" =>
          /\ \A t \in Tenants : file[rule].ids[t] # NoId => state[t] = file[rule].ids[t]
          /\ writing \in Files => file[UuidOf[rule]].ids = state
    /\ stage \in Writes /\ writing \in Uuids =>
          \A g \in given : g[1] = writing /\ file[writing].ids[g[2]] = g[3] => state[g[2]] = g[3]
    /\ stage = "settle" /\ writing \in Uuids => file[writing] = Shard(state)

\* The path p has the id whatever a power failure leaves of it.
Sure(p, t, id) == \A c \in after[p] : c.ids[t] = id

SafeInv ==
    \A g \in given : \/ Sure(g[1], g[2], g[3])
                     \/ \E f \in Files : UuidOf[f] = g[1] /\ Sure(f, g[2], g[3])

IInv == Typed /\ TemporaryInv /\ WholeInv /\ CertainInv /\ GivenInv /\ MovingInv /\ SafeInv

(***************************************************************************)
(* Types.                                                                   *)
(***************************************************************************)
LEMMA ContentTypes ==
    /\ NoIds \in IdMaps /\ NoShard \in Contents /\ Torn \in Contents
    /\ \A ids \in IdMaps : Shard(ids) \in Contents
    /\ \A c \in Contents : Stripped(c) \in Contents
    /\ Empty \in [content : Contents, flushed : BOOLEAN]
<1>1. NoIds \in IdMaps
  BY DEF NoIds, IdMaps
<1>2. \A ids \in IdMaps : Shard(ids) \in Contents
  BY DEF Shard, Contents
<1>3. NoShard \in Contents /\ Torn \in Contents
  BY <1>1, <1>2 DEF NoShard, Torn, Shard, Contents
<1>4. \A c \in Contents : Stripped(c) \in Contents
  BY <1>1 DEF Stripped, Contents
<1> QED
  BY <1>1, <1>2, <1>3, <1>4 DEF Empty

LEMMA UuidsAreNoFiles ==
    /\ \A f \in Files : UuidOf[f] \in Uuids /\ UuidOf[f] \in Paths /\ f \in Paths
    /\ \A f \in Files : f \notin Uuids
    /\ \A u \in Uuids : u \in Paths /\ u \notin Files
    /\ \A p \in Paths : p \in Files \/ p \in Uuids
BY StateFilesAssumption DEF Paths

\* The path at hand.
LEMMA WritingPath ==
    ASSUME Typed, stage \in Writes
    PROVE  /\ writing \in Paths /\ todo # <<>>
           /\ \/ /\ command = "migrate" /\ rule \in Files
                 /\ \/ todo = <<rule>> /\ writing = rule
                    \/ todo = <<UuidOf[rule], rule>> /\ writing = UuidOf[rule]
              \/ command \in {"record", "forget"} /\ writing \in Uuids /\ todo = <<writing>>
<1>1. CASE command = "migrate" /\ rule \in Files /\ todo \in {<<rule>>, <<UuidOf[rule], rule>>}
  BY <1>1, UuidsAreNoFiles DEF writing
<1>2. CASE command \in {"record", "forget"} /\ \E u \in Uuids : todo = <<u>>
  BY <1>2, UuidsAreNoFiles DEF writing
<1> QED
  BY <1>1, <1>2 DEF Typed, Shape

LEMMA ContentType ==
    ASSUME Typed, stage \in Writes
    PROVE  Content \in Contents
BY ContentTypes, WritingPath DEF Content, Typed, TypeOK

LEMMA InitTyped == Init => Typed
<1> SUFFICES ASSUME Init PROVE Typed
  OBVIOUS
<1>1. file \in [Paths -> Contents] /\ after \in [Paths -> SUBSET Contents]
  BY DEF Init, Contents
<1>2. \A p \in Paths : file[p] \in after[p]
  BY <1>1 DEF Init
<1>3. given \subseteq Uuids \X Tenants \X Ids
  BY DEF Init
<1>4. commands \in 0 .. MaxCommands /\ faults \in 0 .. MaxFaults
  BY StateFilesAssumption DEF Init
<1>5. todo = <<>> /\ todo \in Seq(Paths) /\ Len(todo) <= 2
  BY DEF Init
<1> QED
  BY <1>1, <1>2, <1>3, <1>4, <1>5, ContentTypes
  DEF Init, Typed, TypeOK, Shape, Stages, Commands, Writes, Writing

\* The variables of files and of the command at hand.
FileTypes ==
    /\ file \in [Paths -> Contents] /\ after \in [Paths -> SUBSET Contents]
    /\ \A p \in Paths : file[p] \in after[p]

CommandTypes ==
    /\ todo \in Seq(Paths) /\ Len(todo) <= 2
    /\ (stage \in Stages \ {"idle", "rule"} => todo # <<>>)
    /\ temporary \in [content : Contents, flushed : BOOLEAN]
    /\ command \in Commands /\ stage \in Stages
    /\ left \subseteq Files /\ rule \in Files \cup {NoPath} /\ state \in IdMaps
    /\ failed \in BOOLEAN /\ report \in {"none", "completed", "failed", "refused"}
    /\ Shape

CountTypes == commands \in 0 .. MaxCommands /\ faults \in 0 .. MaxFaults /\ ignored \in BOOLEAN

HistoryTypes == given \subseteq Uuids \X Tenants \X Ids /\ cut \subseteq Paths /\ clean \in BOOLEAN

LEMMA TypedParts ==
    ASSUME FileTypes', CommandTypes', CountTypes', HistoryTypes'
    PROVE  Typed'
BY DEF Typed, TypeOK, FileTypes, CommandTypes, CountTypes, HistoryTypes

LEMMA EndsTypes ==
    ASSUME Typed, NEW how \in {"none", "completed", "failed", "refused"}, Ends(how)
    PROVE  CommandTypes'
<1>1. /\ command' = "none" /\ stage' = "idle" /\ left' = {} /\ rule' = NoPath /\ state' = NoIds
      /\ todo' = <<>> /\ temporary' = Empty /\ failed' = FALSE /\ report' = how
  BY DEF Ends
<1>2. <<>> \in Seq(Paths) /\ Len(<<>>) <= 2
  OBVIOUS
<1> QED
  BY <1>1, <1>2, ContentTypes DEF CommandTypes, Shape, Stages, Commands, Writes, Writing

LEMMA RuleDoneTypes ==
    ASSUME Typed, command = "migrate", NEW error \in BOOLEAN, RuleDone(error)
    PROVE  CommandTypes'
<1>1. /\ stage' = "rule" /\ rule' = NoPath /\ state' = NoIds
      /\ todo' = <<>> /\ temporary' = Empty /\ failed' = (failed \/ error)
      /\ UNCHANGED <<command, left, report>>
  BY DEF RuleDone
<1>2. <<>> \in Seq(Paths) /\ Len(<<>>) <= 2
  OBVIOUS
<1> QED
  BY <1>1, <1>2, ContentTypes
  DEF CommandTypes, Typed, TypeOK, Shape, Stages, Commands, Writes, Writing

LEMMA TailOfPair ==
    ASSUME NEW p, NEW q
    PROVE  Tail(<<p, q>>) = <<q>>
<1> DEFINE s == <<p, q>>
           rest == Tail(s)
<1>1. s \in Seq({p, q}) /\ s # <<>> /\ Len(s) = 2 /\ s[2] = q /\ <<q>> \in Seq({p, q})
  OBVIOUS
<1>2. rest \in Seq({p, q}) /\ Len(rest) = 1 /\ \A i \in 1 .. Len(rest) : rest[i] = s[i + 1]
  BY <1>1, HeadTailProperties
<1>3. Len(<<q>>) = 1 /\ <<q>>[1] = q
  OBVIOUS
<1> HIDE DEF s, rest
<1>4. rest[1] = q
  BY <1>1, <1>2
<1> DEFINE single == <<q>>
<1>5. single \in Seq({p, q}) /\ Len(single) = 1 /\ single[1] = q
  BY <1>1, <1>3
<1> HIDE DEF single
<1>6. rest = single
  BY <1>2, <1>4, <1>5, SeqEqual
<1> QED
  BY <1>6 DEF s, rest, single

\* A write that ends leads to the rule of the shard that was written, to the next rule, or
\* to the end of the command.
LEMMA WriteDoneCases ==
    ASSUME Typed, stage = "settle", WriteDone
    PROVE  \/ /\ command = "migrate" /\ rule \in Files
              /\ todo = <<UuidOf[rule], rule>> /\ todo' = <<rule>> /\ stage' = "open"
              /\ UNCHANGED <<command, left, rule, state, temporary, failed, report>>
           \/ command = "migrate" /\ RuleDone(FALSE)
           \/ Ends("completed")
<1>1. stage \in Writes
  BY DEF Writes
<1>2. CASE Len(todo) > 1
  <2>1. command = "migrate" /\ rule \in Files /\ todo = <<UuidOf[rule], rule>>
    <3>1. ASSUME NEW p, todo = <<p>> PROVE FALSE
      <4>1. Len(<<p>>) = 1
        OBVIOUS
      <4>2. Len(todo) = 1
        BY <3>1, <4>1
      <4> QED
        BY <1>2, <4>2
    <3> QED
      BY <1>1, <3>1, WritingPath
  <2>2. Tail(<<UuidOf[rule], rule>>) = <<rule>>
    BY TailOfPair
  <2> QED
    BY <1>2, <2>1, <2>2 DEF WriteDone
<1>3. CASE ~(Len(todo) > 1)
  BY <1>3 DEF WriteDone
<1> QED
  BY <1>2, <1>3

LEMMA WriteDoneTypes ==
    ASSUME Typed, stage = "settle", WriteDone
    PROVE  CommandTypes'
<1>1. ASSUME command = "migrate", rule \in Files, todo' = <<rule>>, stage' = "open",
             UNCHANGED <<command, left, rule, state, temporary, failed, report>>
      PROVE  CommandTypes'
  <2>1. todo' \in Seq(Paths) /\ Len(todo') <= 2 /\ todo' # <<>>
    BY <1>1, UuidsAreNoFiles
  <2> QED
    BY <1>1, <2>1 DEF CommandTypes, Typed, TypeOK, Shape, Stages, Writes, Writing
<1> QED
  BY <1>1, WriteDoneCases, RuleDoneTypes, EndsTypes

(***************************************************************************)
(* Types, action by action.                                                *)
(***************************************************************************)
LEMMA FileSame == ASSUME Typed, UNCHANGED <<file, after>> PROVE FileTypes'
BY DEF FileTypes, Typed, TypeOK

LEMMA SetAfter ==
    ASSUME Typed, NEW p \in Paths, NEW c \in SUBSET Contents, file[p] \in c,
           file' = file, after' = [after EXCEPT ![p] = c]
    PROVE  FileTypes'
BY DEF FileTypes, Typed, TypeOK

LEMMA StepTypes ==
    ASSUME Typed, stage \in Writes, stage' \in Writing, stage' # "unlink" \/ stage = "unlink",
           UNCHANGED <<todo, command, left, rule, state, failed, report>>,
           temporary' \in [content : Contents, flushed : BOOLEAN]
    PROVE  CommandTypes'
BY DEF Typed, TypeOK, CommandTypes, Shape, Stages, Writes, Writing

LEMMA InstallTypes ==
    ASSUME Typed, stage \in {"rename", "unlink"}, NEW c \in Contents, Installs(c),
           UNCHANGED whileWriting
    PROVE  FileTypes' /\ CommandTypes'
<1>1. writing \in Paths /\ stage \in Writes
  BY WritingPath DEF Writes, Writing
<1>2. file' = [file EXCEPT ![writing] = c]
  BY DEF Installs
<1> DEFINE rest == IF temporary.flushed \/ stage = "unlink" THEN {} ELSE {Torn}
<1>3. after' = [after EXCEPT ![writing] = @ \cup {c} \cup rest]
  BY DEF Installs
<1>4. rest \subseteq Contents
  BY ContentTypes
<1> HIDE DEF rest
<1>5. FileTypes'
  BY <1>1, <1>2, <1>3, <1>4 DEF FileTypes, Typed, TypeOK
<1>6. temporary' = Empty /\ stage' = "settle"
  BY DEF Installs
<1>7. CommandTypes'
  BY <1>1, <1>6, ContentTypes
  DEF whileWriting, CommandTypes, Typed, TypeOK, Shape, Stages, Writes, Writing
<1> QED
  BY <1>5, <1>7

LEMMA WritingTypes ==
    ASSUME Typed, OpenTemporary \/ Fill \/ Flush \/ Rename \/ Unlink
    PROVE  Typed'
<1> USE DEF whileWriting, history
<1>1. CountTypes' /\ HistoryTypes'
  BY DEF OpenTemporary, Fill, Flush, Rename, Unlink, CountTypes, HistoryTypes, Typed, TypeOK
<1>2. CASE OpenTemporary
  BY <1>1, <1>2, ContentTypes, FileSame, StepTypes, TypedParts
  DEF OpenTemporary, Writes, Writing
<1>3. CASE Fill
  <2>1. stage \in Writes /\ stage' \in Writing /\ stage' # "unlink"
    BY <1>3 DEF Fill, Writes, Writing
  <2>2. temporary' \in [content : Contents, flushed : BOOLEAN]
    BY <1>3, <2>1, ContentType DEF Fill
  <2> QED
    BY <1>1, <1>3, <2>1, <2>2, FileSame, StepTypes, TypedParts DEF Fill
<1>4. CASE Flush
  <2>1. stage \in Writes /\ stage' \in Writing /\ stage' # "unlink"
    BY <1>4 DEF Flush, Writes, Writing
  <2>2. temporary' \in [content : Contents, flushed : BOOLEAN]
    BY <1>4 DEF Flush, Flushed, Typed, TypeOK
  <2> QED
    BY <1>1, <1>4, <2>1, <2>2, FileSame, StepTypes, TypedParts DEF Flush
<1>5. CASE Rename
  <2>1. temporary.content \in Contents
    BY DEF Typed, TypeOK
  <2> QED
    BY <1>1, <1>5, <2>1, InstallTypes, TypedParts DEF Rename
<1>6. CASE Unlink
  BY <1>1, <1>6, ContentTypes, InstallTypes, TypedParts DEF Unlink
<1> QED
  BY <1>2, <1>3, <1>4, <1>5, <1>6

LEMMA SettleTypes ==
    ASSUME Typed, FlushDirectory \/ DirectoryNotFlushed
    PROVE  Typed'
<1>1. stage = "settle" /\ WriteDone /\ stage \in Writes
  BY DEF FlushDirectory, DirectoryNotFlushed, Writes
<1>2. CommandTypes'
  BY <1>1, WriteDoneTypes
<1>3. writing \in Paths
  BY <1>1, WritingPath
<1>4. CASE FlushDirectory
  <2>1. FileTypes'
    <3>1. file' = file /\ after' = [after EXCEPT ![writing] = {file[writing]}]
      BY <1>4 DEF FlushDirectory, Settled
    <3>2. {file[writing]} \in SUBSET Contents
      BY <1>3 DEF Typed, TypeOK
    <3> QED
      BY <1>3, <3>1, <3>2, SetAfter
  <2>2. command = "record" => writing \in Uuids
    BY <1>1, WritingPath
  <2>3. HistoryTypes'
    <3>1. given' \subseteq Uuids \X Tenants \X Ids
      BY <1>4, <2>2 DEF FlushDirectory, Promised, Typed, TypeOK, IdMaps
    <3> QED
      BY <1>4, <3>1 DEF FlushDirectory, HistoryTypes, Typed, TypeOK
  <2>4. CountTypes'
    BY <1>4 DEF FlushDirectory, CountTypes, Typed, TypeOK
  <2> QED
    BY <1>2, <2>1, <2>3, <2>4, TypedParts
<1>5. CASE DirectoryNotFlushed
  <2>1. FileTypes' /\ HistoryTypes'
    BY <1>3, <1>5, FileSame DEF DirectoryNotFlushed, Unflushed, HistoryTypes, Typed, TypeOK
  <2>2. CountTypes'
    BY <1>5, StateFilesAssumption DEF DirectoryNotFlushed, Fault, CountTypes, Typed, TypeOK
  <2> QED
    BY <1>2, <2>1, <2>2, TypedParts
<1> QED
  BY <1>4, <1>5

LEMMA StartTypes ==
    ASSUME Typed, NEW u \in Uuids, NEW t \in Tenants,
           Forget(u, t) \/ \E id \in Ids : Record(u, t, id)
    PROVE  Typed'
<1>1. stage = "idle" /\ commands' \in 0 .. MaxCommands
  BY StateFilesAssumption DEF Forget, Record, Starts, Idle, Typed, TypeOK
<1>2. /\ todo' = <<u>> /\ command' \in {"record", "forget"} /\ report' = "none" /\ clean' = TRUE
      /\ UNCHANGED <<file, after, temporary, ignored, rule, failed, cut, faults, left>>
      /\ given' \subseteq given
      /\ stage' = "open" \/ (stage' = "unlink" /\ command' = "forget" /\ state' = NoIds)
  BY DEF Forget, Record, Starts
<1>3. state' \in IdMaps
  BY DEF Forget, Record, Typed, TypeOK, Contents, IdMaps, Paths
<1>4. todo' \in Seq(Paths) /\ Len(todo') <= 2 /\ todo' # <<>>
  BY <1>2, UuidsAreNoFiles
<1>5. CommandTypes'
  BY <1>2, <1>3, <1>4 DEF CommandTypes, Typed, TypeOK, Shape, Stages, Commands, Writes, Writing
<1>6. FileTypes' /\ CountTypes' /\ HistoryTypes'
  BY <1>1, <1>2, FileSame DEF CountTypes, HistoryTypes, Typed, TypeOK
<1> QED
  BY <1>5, <1>6, TypedParts

LEMMA StartMigrateTypes == ASSUME Typed, StartMigrate PROVE Typed'
<1>1. commands' \in 0 .. MaxCommands
  BY StateFilesAssumption DEF StartMigrate, Starts, Idle, Typed, TypeOK
<1>2. /\ todo' = <<>> /\ command' = "migrate" /\ report' = "none" /\ clean' = TRUE
      /\ left' = Files /\ stage' = "rule"
      /\ UNCHANGED <<file, after, temporary, ignored, rule, failed, cut, faults, state, given>>
  BY DEF StartMigrate, Starts
<1>3. todo' \in Seq(Paths) /\ Len(todo') <= 2
  BY <1>2
<1>4. CommandTypes'
  BY <1>2, <1>3 DEF CommandTypes, Typed, TypeOK, Shape, Stages, Commands, Writes, Writing
<1>5. FileTypes' /\ CountTypes' /\ HistoryTypes'
  BY <1>1, <1>2, FileSame DEF CountTypes, HistoryTypes, Typed, TypeOK
<1> QED
  BY <1>4, <1>5, TypedParts

LEMMA IgnoreTypes == ASSUME Typed, MigrateRefused \/ AdoptIgnoreLine PROVE Typed'
<1>1. UNCHANGED <<fileVars, command, stage, left, rule, state, failed, given, cut, faults>>
  BY DEF MigrateRefused, AdoptIgnoreLine, history
<1>2. CASE MigrateRefused
  <2>1. commands' \in 0 .. MaxCommands /\ ignored' = ignored
    BY <1>2, StateFilesAssumption DEF MigrateRefused, Idle, Typed, TypeOK
  <2>2. report' = "refused" /\ clean' = TRUE
    BY <1>2 DEF MigrateRefused
  <2>3. FileTypes' /\ CountTypes' /\ HistoryTypes'
    BY <1>1, <2>1, <2>2, FileSame DEF fileVars, CountTypes, HistoryTypes, Typed, TypeOK
  <2>4. CommandTypes'
    BY <1>1, <2>2 DEF fileVars, CommandTypes, Typed, TypeOK, Shape
  <2> QED
    BY <2>3, <2>4, TypedParts
<1>3. CASE AdoptIgnoreLine
  <2>1. ignored' = FALSE /\ UNCHANGED <<report, history, commands>>
    BY <1>3 DEF AdoptIgnoreLine
  <2>3. FileTypes' /\ CountTypes' /\ HistoryTypes'
    BY <1>1, <2>1, FileSame DEF fileVars, history, CountTypes, HistoryTypes, Typed, TypeOK
  <2>4. CommandTypes'
    BY <1>1, <2>1 DEF fileVars, CommandTypes, Typed, TypeOK, Shape
  <2> QED
    BY <2>3, <2>4, TypedParts
<1> QED
  BY <1>2, <1>3

\* The shard in memory once the ids of the rule f are in it.
Moved(f) ==
    [t \in Tenants |-> IF file[f].ids[t] # NoId THEN file[f].ids[t] ELSE file[UuidOf[f]].ids[t]]

LEMMA MoveFacts ==
    ASSUME Typed, NEW f \in Files, Move(f)
    PROVE  /\ stage = "rule" /\ command' = command /\ file' = file /\ after' = after
           /\ temporary' = temporary /\ UNCHANGED history
           /\ rule' = f /\ state' = Moved(f) /\ Moved(f) \in IdMaps /\ stage' = "open"
           /\ \/ todo' = <<UuidOf[f], f>>
              \/ todo' = <<f>> /\ file[UuidOf[f]].ids = Moved(f)
           /\ \A t \in Tenants : file[f].ids[t] # NoId => ~Differs(f, t)
<1>1. Moved(f) \in IdMaps
  BY UuidsAreNoFiles DEF Moved, Typed, TypeOK, Contents, IdMaps
<1>2. /\ stage = "rule" /\ command' = command /\ file' = file /\ after' = after
      /\ temporary' = temporary /\ UNCHANGED history
      /\ rule' = f /\ state' = Moved(f) /\ stage' = "open"
      /\ \/ todo' = <<UuidOf[f], f>>
         \/ todo' = <<f>> /\ file[UuidOf[f]].ids = Moved(f)
  BY DEF Move, Takes, Moved, ShardFirst, history
<1>3. \A t \in Tenants : file[f].ids[t] # NoId => ~Differs(f, t)
  BY DEF Move, Refused
<1> QED
  BY <1>1, <1>2, <1>3

LEMMA TakesTypes ==
    ASSUME Typed, NEW f \in Files, NothingToMove(f) \/ CannotMove(f) \/ Move(f)
    PROVE  Typed'
<1>1. Takes(f) /\ command = "migrate"
  BY DEF NothingToMove, CannotMove, Move, Takes, Typed, Shape
<1>2. FileTypes' /\ CountTypes' /\ HistoryTypes'
  BY <1>1, FileSame DEF Takes, CountTypes, HistoryTypes, Typed, TypeOK
<1>3. CASE NothingToMove(f) \/ CannotMove(f)
  <2>1. /\ UNCHANGED <<stage, todo, rule, state, temporary, command, report>>
        /\ left' \subseteq Files /\ failed' \in BOOLEAN
    BY <1>1, <1>3 DEF NothingToMove, CannotMove, Takes, Typed, TypeOK
  <2>2. CommandTypes'
    BY <2>1 DEF CommandTypes, Typed, TypeOK, Shape
  <2> QED
    BY <1>2, <2>2, TypedParts
<1>4. CASE Move(f)
  <2>1. todo' \in Seq(Paths) /\ Len(todo') <= 2 /\ todo' # <<>>
    <3>1. CASE todo' = <<UuidOf[f], f>>
      BY <3>1, UuidsAreNoFiles
    <3>2. CASE todo' = <<f>>
      BY <3>2, UuidsAreNoFiles
    <3> QED
      BY <1>4, <3>1, <3>2, MoveFacts
  <2>2. /\ UNCHANGED <<temporary, command, report, failed>>
        /\ left' \subseteq Files
    BY <1>1, <1>4 DEF Move, Takes, Typed, TypeOK
  <2>3. CommandTypes'
    BY <1>4, <2>1, <2>2, MoveFacts
    DEF CommandTypes, Typed, TypeOK, Shape, Stages, Writes, Writing
  <2> QED
    BY <1>2, <2>3, TypedParts
<1> QED
  BY <1>3, <1>4

LEMMA FaultCount == ASSUME Typed, Fault PROVE faults' \in 0 .. MaxFaults
BY StateFilesAssumption DEF Fault, Typed, TypeOK

LEMMA EndTypes ==
    ASSUME Typed, EndMigrate \/ WriteFails \/ Killed \/ PowerFails
    PROVE  Typed'
<1>1. CASE EndMigrate
  <2>1. CommandTypes'
    BY <1>1, EndsTypes DEF EndMigrate
  <2>2. FileTypes' /\ CountTypes' /\ HistoryTypes'
    BY <1>1, FileSame DEF EndMigrate, history, CountTypes, HistoryTypes, Typed, TypeOK
  <2> QED
    BY <2>1, <2>2, TypedParts
<1>2. CASE WriteFails
  <2>1. CommandTypes'
    BY <1>2, EndsTypes, RuleDoneTypes DEF WriteFails
  <2>2. FileTypes' /\ CountTypes' /\ HistoryTypes'
    <3>1. faults' \in 0 .. MaxFaults
      BY <1>2, FaultCount DEF WriteFails
    <3>2. clean' = FALSE /\ UNCHANGED <<file, after, ignored, given, cut, commands>>
      BY <1>2 DEF WriteFails
    <3> QED
      BY <3>1, <3>2, FileSame DEF CountTypes, HistoryTypes, Typed, TypeOK
  <2> QED
    BY <2>1, <2>2, TypedParts
<1>3. CASE Killed
  <2>1. CommandTypes'
    BY <1>3, EndsTypes DEF Killed
  <2>2. stage = "settle" => writing \in Paths
    BY WritingPath DEF Writes
  <2>3. FileTypes' /\ CountTypes' /\ HistoryTypes'
    BY <1>3, <2>2, FileSame, StateFilesAssumption
    DEF Killed, Unflushed, Fault, CountTypes, HistoryTypes, Typed, TypeOK
  <2> QED
    BY <2>1, <2>3, TypedParts
<1>4. CASE PowerFails
  <2>1. CommandTypes'
    BY <1>4, EndsTypes DEF PowerFails, Typed, TypeOK
  <2>2. CountTypes' /\ HistoryTypes'
    BY <1>4, StateFilesAssumption
    DEF PowerFails, Fault, history, CountTypes, HistoryTypes, Typed, TypeOK
  <2>3. FileTypes'
    BY <1>4 DEF PowerFails, FileTypes, Typed, TypeOK
  <2> QED
    BY <2>1, <2>2, <2>3, TypedParts
<1> QED
  BY <1>1, <1>2, <1>3, <1>4

LEMMA NextTyped == Typed /\ [Next]_vars => Typed'
<1> SUFFICES ASSUME Typed, [Next]_vars PROVE Typed'
  OBVIOUS
<1>1. CASE UNCHANGED vars
  <2>1. FileTypes' /\ CountTypes' /\ HistoryTypes'
    BY <1>1, FileSame DEF vars, fileVars, history, CountTypes, HistoryTypes, Typed, TypeOK
  <2>2. CommandTypes'
    BY <1>1 DEF vars, fileVars, CommandTypes, Typed, TypeOK, Shape
  <2> QED
    BY <2>1, <2>2, TypedParts
<1>2. CASE \E u \in Uuids, t \in Tenants :
              Forget(u, t) \/ \E id \in Ids : DeployRecords(u, t, id) \/ ImportRecords(u, t, id)
  BY <1>2, StartTypes DEF DeployRecords, ImportRecords
<1>3. CASE StartMigrate
  BY <1>3, StartMigrateTypes
<1>4. CASE MigrateRefused \/ AdoptIgnoreLine
  BY <1>4, IgnoreTypes
<1>5. CASE EndMigrate \/ WriteFails \/ Killed \/ PowerFails
  BY <1>5, EndTypes
<1>6. CASE \E f \in Files : NothingToMove(f) \/ CannotMove(f) \/ Move(f)
  BY <1>6, TakesTypes
<1>7. CASE OpenTemporary \/ Fill \/ Flush \/ Rename \/ Unlink
  BY <1>7, WritingTypes
<1>8. CASE FlushDirectory \/ DirectoryNotFlushed
  BY <1>8, SettleTypes
<1> QED
  BY <1>1, <1>2, <1>3, <1>4, <1>5, <1>6, <1>7, <1>8 DEF Next

\* Every reachable state of the id files and the commands on them is well typed.
THEOREM TypeCorrect == Spec => []TypeOK
<1>1. Typed => TypeOK
  BY DEF Typed
<1> QED
  BY <1>1, InitTyped, NextTyped, PTL DEF Spec

(***************************************************************************)
(* The invariant.                                                           *)
(***************************************************************************)
LEMMA InitIInv == Init => IInv
<1> SUFFICES ASSUME Init PROVE IInv
  OBVIOUS
<1>1. Typed
  BY InitTyped
<1>2. after = [p \in Paths |-> {file[p]}] /\ stage = "idle" /\ cut = {}
  BY DEF Init
<1>3. \A p \in Paths : after[p] = {file[p]} /\ file[p].whole
  BY <1>2 DEF Init
<1>4. TemporaryInv /\ WholeInv /\ CertainInv /\ GivenInv
  BY <1>2, <1>3 DEF TemporaryInv, WholeInv, CertainInv, GivenInv
<1>5. MovingInv
  BY <1>2 DEF MovingInv, Writes, Writing
<1>6. SafeInv
  <2>1. ASSUME NEW g \in given
        PROVE  \E f \in Files : UuidOf[f] = g[1] /\ Sure(f, g[2], g[3])
    <3>1. PICK f \in Files : UuidOf[f] = g[1] /\ file[f].ids[g[2]] = g[3]
      BY <2>1 DEF Init
    <3> QED
      BY <1>3, <3>1, UuidsAreNoFiles DEF Sure
  <2> QED
    BY <2>1 DEF SafeInv
<1> QED
  BY <1>1, <1>4, <1>5, <1>6 DEF IInv

\* A step that renames nothing and flushes no directory.
LEMMA StillSafe ==
    ASSUME IInv, stage # "settle", stage' # "settle", UNCHANGED <<file, after, cut>>,
           given' \subseteq given
    PROVE  WholeInv' /\ CertainInv' /\ GivenInv' /\ SafeInv'
<1>1. WholeInv'
  BY DEF IInv, WholeInv
<1>2. CertainInv'
  BY DEF IInv, CertainInv
<1>3. GivenInv'
  BY DEF IInv, GivenInv
<1>4. SafeInv'
  BY DEF IInv, SafeInv, Sure
<1> QED
  BY <1>1, <1>2, <1>3, <1>4

\* Between writes.
LEMMA NotWriting ==
    ASSUME stage' \in {"idle", "rule"}
    PROVE  TemporaryInv' /\ MovingInv'
BY DEF TemporaryInv, MovingInv, Writes, Writing

LEMMA QuietSteps ==
    ASSUME IInv,
           \/ StartMigrate \/ MigrateRefused \/ AdoptIgnoreLine \/ EndMigrate \/ WriteFails
           \/ \E f \in Files : NothingToMove(f) \/ CannotMove(f)
    PROVE  TemporaryInv' /\ WholeInv' /\ CertainInv' /\ GivenInv' /\ MovingInv' /\ SafeInv'
<1>1. stage # "settle" /\ stage' \in {"idle", "rule"}
  BY DEF StartMigrate, MigrateRefused, AdoptIgnoreLine, EndMigrate, WriteFails, NothingToMove,
         CannotMove, Starts, Idle, Ends, RuleDone, Takes, Writing
<1>2. UNCHANGED <<file, after, cut, given>>
  BY DEF StartMigrate, MigrateRefused, AdoptIgnoreLine, EndMigrate, WriteFails, NothingToMove,
         CannotMove, Starts, Takes, fileVars, history
<1> QED
  BY <1>1, <1>2, StillSafe, NotWriting

LEMMA StartSteps ==
    ASSUME IInv, NEW u \in Uuids, NEW t \in Tenants,
           Forget(u, t) \/ \E id \in Ids : Record(u, t, id)
    PROVE  TemporaryInv' /\ WholeInv' /\ CertainInv' /\ GivenInv' /\ MovingInv' /\ SafeInv'
<1>1. /\ stage = "idle" /\ stage' \in {"open", "unlink"} /\ todo' = <<u>>
      /\ command' \in {"record", "forget"} /\ UNCHANGED <<file, after, cut>>
      /\ given' \subseteq given
  BY DEF Forget, Record, Starts, Idle
<1>2. TemporaryInv'
  BY <1>1 DEF TemporaryInv
<1>3. writing' = u
  BY <1>1 DEF writing
<1>4. file[u].ids \in IdMaps /\ given \subseteq Uuids \X Tenants \X Ids
  BY UuidsAreNoFiles DEF IInv, Typed, TypeOK, Contents
<1>5. ASSUME NEW g \in given', g[1] = u, file[u].ids[g[2]] = g[3]
      PROVE  state'[g[2]] = g[3]
  <2>1. g[2] \in Tenants
    BY <1>1, <1>4
  <2>2. CASE g[2] # t
    BY <1>4, <1>5, <2>1, <2>2 DEF Forget, Record, IdMaps
  <2>3. CASE g[2] = t
    <3>1. ~Forget(u, t)
      BY <1>5, <2>3 DEF Forget
    <3>2. PICK id \in Ids : Record(u, t, id)
      BY <3>1
    <3>3. state' = [file[u].ids EXCEPT ![t] = id] /\ g[3] = id
      BY <1>5, <2>3, <3>2 DEF Record
    <3> QED
      BY <1>4, <2>3, <3>3 DEF IdMaps
  <2> QED
    BY <2>2, <2>3
<1>6. MovingInv'
  BY <1>1, <1>3, <1>5, UuidsAreNoFiles DEF MovingInv
<1> QED
  BY <1>1, <1>2, <1>6, StillSafe

LEMMA MoveSteps ==
    ASSUME IInv, NEW f \in Files, Move(f)
    PROVE  TemporaryInv' /\ WholeInv' /\ CertainInv' /\ GivenInv' /\ MovingInv' /\ SafeInv'
<1>1. /\ stage = "rule" /\ stage' = "open" /\ UNCHANGED <<file, after, cut, given>>
      /\ rule' = f /\ state' = Moved(f)
      /\ \/ todo' = <<UuidOf[f], f>>
         \/ todo' = <<f>> /\ file[UuidOf[f]].ids = Moved(f)
      /\ \A t \in Tenants : file[f].ids[t] # NoId => ~Differs(f, t)
  BY MoveFacts DEF IInv, history
<1>2. TemporaryInv'
  BY <1>1 DEF TemporaryInv
<1>3. \/ writing' = UuidOf[f]
      \/ writing' = f /\ file[UuidOf[f]].ids = Moved(f)
  BY <1>1 DEF writing
<1>4. \A t \in Tenants : file[f].ids[t] # NoId => Moved(f)[t] = file[f].ids[t]
  BY DEF Moved
<1>5. ASSUME NEW g \in given, g[1] = UuidOf[f], file[UuidOf[f]].ids[g[2]] = g[3]
      PROVE  Moved(f)[g[2]] = g[3]
  <2>1. g[2] \in Tenants /\ g[3] # NoId
    BY <1>5 DEF IInv, Typed, TypeOK, Ids, NoId
  <2>2. file[f].ids[g[2]] # NoId => file[UuidOf[f]].ids[g[2]] = file[f].ids[g[2]]
    BY <1>1, <1>5, <2>1 DEF Differs, Known
  <2> QED
    BY <1>5, <2>1, <2>2 DEF Moved
<1>6. MovingInv'
  BY <1>1, <1>3, <1>4, <1>5, UuidsAreNoFiles DEF MovingInv
<1> QED
  BY <1>1, <1>2, <1>6, StillSafe

\* The temporary file is opened, filled, flushed.
LEMMA FillingSteps ==
    ASSUME IInv, OpenTemporary \/ Fill \/ Flush
    PROVE  TemporaryInv' /\ WholeInv' /\ CertainInv' /\ GivenInv' /\ MovingInv' /\ SafeInv'
<1>1. /\ stage \in Writing /\ stage' \in Writing
      /\ UNCHANGED <<file, after, todo, command, rule, state, given, cut>>
  BY DEF OpenTemporary, Fill, Flush, Writing, whileWriting, history
<1>2. writing' = writing /\ Content' = Content
  BY <1>1 DEF writing, Content
<1>3. TemporaryInv'
  <2>1. CASE OpenTemporary
    BY <2>1 DEF OpenTemporary, TemporaryInv
  <2>2. CASE Fill
    BY <1>2, <2>2 DEF Fill, TemporaryInv
  <2>3. CASE Flush
    <3>1. temporary.content = Content /\ temporary \in [content : Contents, flushed : BOOLEAN]
      BY <2>3 DEF Flush, IInv, TemporaryInv, Typed, TypeOK
    <3>2. temporary' = [temporary EXCEPT !.flushed = TRUE]
      BY <2>3 DEF Flush, Flushed
    <3> QED
      BY <1>2, <3>1, <3>2 DEF TemporaryInv
  <2> QED
    BY <2>1, <2>2, <2>3
<1>4. MovingInv'
  BY <1>1, <1>2 DEF IInv, MovingInv, Writes, Writing
<1>5. stage # "settle" /\ stage' # "settle"
  BY <1>1 DEF Writing
<1> QED
  BY <1>1, <1>3, <1>4, <1>5, StillSafe

\* A rename, or an unlink, puts what is to be written into the place of the file.
LEMMA InstallFacts ==
    ASSUME IInv, Rename \/ Unlink
    PROVE  /\ stage \in Writing /\ stage' = "settle"
           /\ file' = [file EXCEPT ![writing] = Content]
           /\ after' = [after EXCEPT ![writing] = @ \cup {Content}]
           /\ UNCHANGED <<todo, command, rule, state, given, cut>>
           /\ writing' = writing /\ writing \in Paths
<1>1. /\ stage \in Writing /\ stage' = "settle"
      /\ UNCHANGED <<todo, command, rule, state, given, cut>>
  BY DEF Rename, Unlink, Installs, Writing, whileWriting, history
<1>2. writing' = writing /\ writing \in Paths
  BY <1>1, WritingPath DEF IInv, writing, Writes
<1>3. CASE Rename
  <2>1. temporary.content = Content /\ temporary.flushed
    BY <1>3 DEF Rename, IInv, TemporaryInv
  <2>2. /\ file' = [file EXCEPT ![writing] = Content]
        /\ after' = [after EXCEPT ![writing] = @ \cup {Content} \cup {}]
    BY <1>3, <2>1 DEF Rename, Installs
  <2> QED
    BY <1>1, <1>2, <2>2
<1>4. CASE Unlink
  <2>1. stage = "unlink" /\ command = "forget" /\ state = NoIds
    BY <1>4 DEF Unlink, IInv, Typed, Shape
  <2>2. writing \in Uuids /\ writing \notin Files
    BY <1>1, <2>1, WritingPath, UuidsAreNoFiles DEF IInv, Writes
  <2>3. Content = NoShard
    BY <2>1, <2>2 DEF Content, NoShard
  <2>4. /\ file' = [file EXCEPT ![writing] = Content]
        /\ after' = [after EXCEPT ![writing] = @ \cup {Content} \cup {}]
    BY <1>4, <2>1, <2>3 DEF Unlink, Installs
  <2> QED
    BY <1>1, <1>2, <2>4
<1> QED
  BY <1>3, <1>4

LEMMA ContentWhole ==
    ASSUME IInv, stage \in Writes
    PROVE  /\ Content.whole
           /\ writing \in Files => \A t \in Tenants : Content.ids[t] = NoId
           /\ writing \in Uuids => Content = Shard(state)
<1>1. writing \in Paths
  BY WritingPath DEF IInv
<1>2. CASE writing \in Files
  <2>1. Content = Stripped(file[writing]) /\ writing \notin Uuids
    BY <1>2, UuidsAreNoFiles DEF Content
  <2>2. file[writing].whole /\ file[writing] \in Contents
    BY <1>1 DEF IInv, WholeInv, Typed, TypeOK
  <2>3. Content.whole /\ Content.ids = NoIds
    BY <2>1, <2>2 DEF Stripped, Contents
  <2> QED
    BY <2>1, <2>3 DEF NoIds
<1>3. CASE writing \in Uuids
  <2>1. Content = Shard(state) /\ writing \notin Files
    BY <1>3, UuidsAreNoFiles DEF Content
  <2> QED
    BY <2>1 DEF Shard
<1> QED
  BY <1>1, <1>2, <1>3, UuidsAreNoFiles

LEMMA InstallSteps ==
    ASSUME IInv, Rename \/ Unlink
    PROVE  TemporaryInv' /\ WholeInv' /\ CertainInv' /\ GivenInv' /\ MovingInv' /\ SafeInv'
<1>1. /\ stage \in Writing /\ stage \in Writes /\ stage # "settle" /\ stage' = "settle"
      /\ file' = [file EXCEPT ![writing] = Content]
      /\ after' = [after EXCEPT ![writing] = @ \cup {Content}]
      /\ UNCHANGED <<todo, command, rule, state, given, cut>>
      /\ writing' = writing /\ writing \in Paths
  BY InstallFacts DEF Writes, Writing
<1>2. /\ Content.whole
      /\ writing \in Files => \A t \in Tenants : Content.ids[t] = NoId
      /\ writing \in Uuids => Content = Shard(state)
  BY <1>1, ContentWhole
<1>3. /\ file \in [Paths -> Contents] /\ after \in [Paths -> SUBSET Contents]
      /\ \A p \in Paths : file[p] \in after[p]
      /\ given \subseteq Uuids \X Tenants \X Ids
  BY DEF IInv, Typed, TypeOK
<1>4. /\ \A p \in Paths : p # writing => file'[p] = file[p] /\ after'[p] = after[p]
      /\ file'[writing] = Content /\ after'[writing] = after[writing] \cup {Content}
  BY <1>1, <1>3
<1>5. writing \in Files => writing = rule /\ command = "migrate"
  BY <1>1, WritingPath, UuidsAreNoFiles DEF IInv
<1>6. command = "migrate" =>
          rule \in Files /\ UuidOf[rule] \in Paths /\ writing \in {rule, UuidOf[rule]}
  BY <1>1, WritingPath, UuidsAreNoFiles DEF IInv
<1>7. TemporaryInv'
  BY <1>1 DEF TemporaryInv
<1>8. WholeInv'
  BY <1>2, <1>4 DEF IInv, WholeInv
<1>9. CertainInv'
  BY <1>1, <1>4 DEF IInv, CertainInv
<1>10. GivenInv'
  BY <1>1 DEF IInv, GivenInv
<1>11. MovingInv'
  <2>1. ASSUME command = "migrate", NEW t \in Tenants, file'[rule].ids[t] # NoId
        PROVE  state[t] = file'[rule].ids[t]
    <3>1. writing # rule
      BY <1>2, <1>4, <1>6, <2>1
    <3>2. file'[rule] = file[rule]
      BY <1>4, <1>6, <2>1, <3>1, UuidsAreNoFiles
    <3> QED
      BY <1>1, <2>1, <3>2 DEF IInv, MovingInv
  <2>2. ASSUME command = "migrate", writing \in Files
        PROVE  file'[UuidOf[rule]].ids = state
    BY <1>1, <1>4, <1>5, <1>6, <2>2, UuidsAreNoFiles DEF IInv, MovingInv
  <2>3. ASSUME writing \in Uuids PROVE file'[writing] = Shard(state) /\ Shard(state).ids = state
    BY <1>2, <1>4, <2>3 DEF Shard
  <2> QED
    BY <1>1, <2>1, <2>2, <2>3 DEF MovingInv
<1>12. SafeInv'
  <2>1. ASSUME NEW g \in given
        PROVE  \/ Sure(g[1], g[2], g[3])'
               \/ \E f \in Files : UuidOf[f] = g[1] /\ Sure(f, g[2], g[3])'
    <3>1. g[1] \in Uuids /\ g[1] \in Paths /\ g[2] \in Tenants /\ g[3] # NoId
      BY <1>3, <2>1, UuidsAreNoFiles DEF Ids, NoId
    <3>2. CASE Sure(g[1], g[2], g[3])
      <4>1. CASE g[1] # writing
        BY <1>4, <3>1, <3>2, <4>1 DEF Sure
      <4>2. CASE g[1] = writing
        <5>1. file[writing].ids[g[2]] = g[3]
          BY <1>1, <1>3, <3>2, <4>2 DEF Sure
        <5>2. state[g[2]] = g[3]
          BY <1>1, <2>1, <3>1, <4>2, <5>1 DEF IInv, MovingInv
        <5>3. Content.ids = state
          BY <1>2, <3>1, <4>2 DEF Shard
        <5> QED
          BY <1>4, <3>2, <4>2, <5>2, <5>3 DEF Sure
      <4> QED
        BY <4>1, <4>2
    <3>3. CASE \E f \in Files : UuidOf[f] = g[1] /\ Sure(f, g[2], g[3])
      <4>1. PICK f \in Files : UuidOf[f] = g[1] /\ Sure(f, g[2], g[3])
        BY <3>3
      <4>2. CASE f # writing
        BY <1>4, <4>1, <4>2, UuidsAreNoFiles DEF Sure
      <4>3. CASE f = writing
        <5>1. f = rule /\ command = "migrate" /\ g[1] # writing
          BY <1>5, <3>1, <4>3, UuidsAreNoFiles
        <5>2. file[f].ids[g[2]] = g[3]
          BY <1>3, <4>1, UuidsAreNoFiles DEF Sure
        <5>3. state[g[2]] = g[3] /\ file[g[1]].ids = state
          BY <1>1, <3>1, <4>1, <4>3, <5>1, <5>2 DEF IInv, MovingInv
        <5>4. after[g[1]] = {file[g[1]]}
          BY <1>1, <2>1, <3>1 DEF IInv, GivenInv, CertainInv
        <5>5. after'[g[1]] = after[g[1]]
          BY <1>4, <3>1, <5>1
        <5> QED
          BY <5>3, <5>4, <5>5 DEF Sure
      <4> QED
        BY <4>2, <4>3
    <3> QED
      BY <2>1, <3>2, <3>3 DEF IInv, SafeInv
  <2> QED
    BY <1>1, <2>1 DEF SafeInv
<1> QED
  BY <1>7, <1>8, <1>9, <1>10, <1>11, <1>12

\* When a write is done the next has the shard's file in memory.
LEMMA NextWrite ==
    ASSUME IInv, stage = "settle", WriteDone, file' = file
    PROVE  TemporaryInv' /\ MovingInv' /\ stage' # "settle"
<1>1. stage \in Writes
  BY DEF Writes
<1>2. CASE /\ command = "migrate" /\ rule \in Files
           /\ todo = <<UuidOf[rule], rule>> /\ todo' = <<rule>> /\ stage' = "open"
           /\ UNCHANGED <<command, left, rule, state, temporary, failed, report>>
  <2>1. writing = UuidOf[rule] /\ writing' = rule
    BY <1>2 DEF writing
  <2>2. file[UuidOf[rule]].ids = state
    BY <1>1, <1>2, <2>1, UuidsAreNoFiles DEF IInv, MovingInv, Shard
  <2>3. TemporaryInv'
    BY <1>2 DEF TemporaryInv
  <2>4. \A t \in Tenants : file[rule].ids[t] # NoId => state[t] = file[rule].ids[t]
    BY <1>1, <1>2 DEF IInv, MovingInv
  <2>5. MovingInv'
    BY <1>2, <2>1, <2>2, <2>4, UuidsAreNoFiles DEF MovingInv
  <2> QED
    BY <1>2, <2>3, <2>5
<1>3. CASE RuleDone(FALSE) \/ Ends("completed")
  <2>1. stage' \in {"idle", "rule"}
    BY <1>3 DEF RuleDone, Ends
  <2> QED
    BY <2>1, NotWriting
<1> QED
  BY <1>2, <1>3, WriteDoneCases DEF IInv

LEMMA FlushSteps ==
    ASSUME IInv, FlushDirectory
    PROVE  TemporaryInv' /\ WholeInv' /\ CertainInv' /\ GivenInv' /\ MovingInv' /\ SafeInv'
<1>1. /\ stage = "settle" /\ WriteDone /\ file' = file
      /\ after' = [after EXCEPT ![writing] = {file[writing]}]
      /\ cut' = cut \ {writing} /\ given' = Promised
  BY DEF FlushDirectory, Settled
<1>2. stage \in Writes /\ writing \in Paths
  BY <1>1, WritingPath DEF IInv, Writes
<1>3. TemporaryInv' /\ MovingInv' /\ stage' # "settle"
  BY <1>1, NextWrite
<1>4. /\ after \in [Paths -> SUBSET Contents]
      /\ \A p \in Paths : file[p] \in after[p]
  BY DEF IInv, Typed, TypeOK
<1>5. /\ after'[writing] = {file[writing]}
      /\ \A p \in Paths : p # writing => after'[p] = after[p]
      /\ \A p \in Paths : after'[p] \subseteq after[p]
  BY <1>1, <1>2, <1>4
<1>6. WholeInv'
  BY <1>5 DEF IInv, WholeInv
<1>7. CertainInv'
  BY <1>1, <1>3, <1>5 DEF IInv, CertainInv
\* What is promised now is in the shard that was written.
<1>8. ASSUME NEW g \in given', g \notin given
      PROVE  g[1] = writing /\ writing \in Uuids /\ file[writing].ids[g[2]] = g[3]
  <2>1. command = "record"
    BY <1>1, <1>8 DEF Promised
  <2>2. PICK t \in Tenants : g = <<writing, t, state[t]>>
    BY <1>1, <1>8, <2>1 DEF Promised
  <2>3. writing \in Uuids
    BY <1>2, <2>1, WritingPath DEF IInv
  <2>4. file[writing].ids = state
    BY <1>1, <1>2, <2>3 DEF IInv, MovingInv, Shard
  <2> QED
    BY <2>2, <2>3, <2>4
<1>9. GivenInv'
  BY <1>1, <1>8 DEF IInv, GivenInv
<1>10. SafeInv'
  <2>1. ASSUME NEW g \in given'
        PROVE  \/ Sure(g[1], g[2], g[3])'
               \/ \E f \in Files : UuidOf[f] = g[1] /\ Sure(f, g[2], g[3])'
    <3>1. CASE g \notin given
      BY <1>5, <1>8, <2>1, <3>1 DEF Sure
    <3>2. CASE g \in given
      <4>1. g[1] \in Paths
        BY <3>2, UuidsAreNoFiles DEF IInv, Typed, TypeOK
      <4>2. CASE Sure(g[1], g[2], g[3])
        BY <1>5, <4>1, <4>2 DEF Sure
      <4>3. CASE \E f \in Files : UuidOf[f] = g[1] /\ Sure(f, g[2], g[3])
        BY <1>5, <4>3, UuidsAreNoFiles DEF Sure
      <4> QED
        BY <3>2, <4>2, <4>3 DEF IInv, SafeInv
    <3> QED
      BY <3>1, <3>2
  <2> QED
    BY <2>1 DEF SafeInv
<1> QED
  BY <1>3, <1>6, <1>7, <1>9, <1>10

\* A command leaves a rename unflushed.
LEMMA LeftUnflushed ==
    ASSUME IInv, stage' # "settle", Unflushed, UNCHANGED <<file, after>>
    PROVE  WholeInv' /\ CertainInv' /\ GivenInv' /\ SafeInv'
<1>1. WholeInv'
  BY DEF IInv, WholeInv
<1>2. CertainInv'
  BY DEF IInv, CertainInv, Unflushed
<1>3. GivenInv'
  BY DEF IInv, GivenInv, Unflushed
<1>4. SafeInv'
  BY DEF IInv, SafeInv, Sure, Unflushed
<1> QED
  BY <1>1, <1>2, <1>3, <1>4

LEMMA UnflushedSteps ==
    ASSUME IInv, DirectoryNotFlushed \/ Killed
    PROVE  TemporaryInv' /\ WholeInv' /\ CertainInv' /\ GivenInv' /\ MovingInv' /\ SafeInv'
<1>1. CASE DirectoryNotFlushed
  <2>1. stage = "settle" /\ WriteDone /\ Unflushed /\ UNCHANGED <<file, after>>
    BY <1>1 DEF DirectoryNotFlushed
  <2> QED
    BY <2>1, NextWrite, LeftUnflushed
<1>2. CASE Killed
  <2>1. stage' = "idle" /\ UNCHANGED <<file, after>>
    BY <1>2 DEF Killed, Ends
  <2>2. CASE stage = "settle"
    BY <1>2, <2>1, <2>2, LeftUnflushed, NotWriting DEF Killed
  <2>3. CASE stage # "settle"
    BY <1>2, <2>1, <2>3, StillSafe, NotWriting DEF Killed
  <2> QED
    BY <2>2, <2>3
<1> QED
  BY <1>1, <1>2

LEMMA PowerSteps ==
    ASSUME IInv, PowerFails
    PROVE  TemporaryInv' /\ WholeInv' /\ CertainInv' /\ GivenInv' /\ MovingInv' /\ SafeInv'
<1>1. /\ \A p \in Paths : file'[p] \in after[p]
      /\ after' = [p \in Paths |-> {file'[p]}]
      /\ stage' = "idle" /\ UNCHANGED <<given, cut>>
  BY DEF PowerFails, Ends, history
<1>2. \A p \in Paths : after'[p] = {file'[p]} /\ after'[p] \subseteq after[p]
  BY <1>1
<1>3. WholeInv'
  BY <1>2 DEF IInv, WholeInv
<1>4. CertainInv' /\ GivenInv'
  BY <1>1, <1>2 DEF IInv, CertainInv, GivenInv
<1>5. SafeInv'
  <2>1. \A g \in given : g[1] \in Paths
    BY UuidsAreNoFiles DEF IInv, Typed, TypeOK
  <2> QED
    BY <1>1, <1>2, <2>1, UuidsAreNoFiles DEF IInv, SafeInv, Sure
<1> QED
  BY <1>1, <1>3, <1>4, <1>5, NotWriting

LEMMA NextIInv == IInv /\ [Next]_vars => IInv'
<1> SUFFICES ASSUME IInv, [Next]_vars PROVE IInv'
  OBVIOUS
<1>1. SUFFICES TemporaryInv' /\ WholeInv' /\ CertainInv' /\ GivenInv' /\ MovingInv' /\ SafeInv'
  BY NextTyped DEF IInv
<1>2. CASE UNCHANGED vars
  <2>1. writing' = writing /\ Content' = Content
    BY <1>2 DEF vars, fileVars, writing, Content
  <2>2. TemporaryInv' /\ WholeInv' /\ CertainInv' /\ GivenInv'
    BY <1>2, <2>1
    DEF vars, fileVars, history, IInv, TemporaryInv, WholeInv, CertainInv, GivenInv
  <2>3. MovingInv' /\ SafeInv'
    BY <1>2, <2>1 DEF vars, fileVars, history, IInv, MovingInv, SafeInv, Sure
  <2> QED
    BY <2>2, <2>3
<1>3. CASE \E u \in Uuids, t \in Tenants :
              Forget(u, t) \/ \E id \in Ids : DeployRecords(u, t, id) \/ ImportRecords(u, t, id)
  BY <1>3, StartSteps DEF DeployRecords, ImportRecords
<1>4. CASE \/ StartMigrate \/ MigrateRefused \/ AdoptIgnoreLine \/ EndMigrate \/ WriteFails
           \/ \E f \in Files : NothingToMove(f) \/ CannotMove(f)
  BY <1>4, QuietSteps
<1>5. CASE \E f \in Files : Move(f)
  BY <1>5, MoveSteps
<1>6. CASE OpenTemporary \/ Fill \/ Flush
  BY <1>6, FillingSteps
<1>7. CASE Rename \/ Unlink
  BY <1>7, InstallSteps
<1>8. CASE FlushDirectory
  BY <1>8, FlushSteps
<1>9. CASE DirectoryNotFlushed \/ Killed
  BY <1>9, UnflushedSteps
<1>10. CASE PowerFails
  BY <1>10, PowerSteps
<1> QED
  BY <1>2, <1>3, <1>4, <1>5, <1>6, <1>7, <1>8, <1>9, <1>10 DEF Next

\* A reader finds a whole file at every path, whatever was killed, failed or lost power
\* while write_durable replaced it.
THEOREM FilesAreWhole == Spec => []WholeFiles
<1>1. IInv => WholeFiles
  BY DEF IInv, WholeInv, WholeFiles, Typed, TypeOK
<1> QED
  BY <1>1, InitIInv, NextIInv, PTL DEF Spec

\* An id that was on a rule, or recorded, is on the rule or in its shard, through any
\* migrations, deploys and imports, kills and power failures, until it is forgotten.
THEOREM IdsAreSafe == Spec => []IdsSurvive
<1>1. IInv => IdsSurvive
  <2> SUFFICES ASSUME IInv, NEW g \in given PROVE Held(g[1], g[2], g[3])
    BY DEF IdsSurvive
  <2>1. g[1] \in Paths /\ \A p \in Paths : file[p] \in after[p]
    BY UuidsAreNoFiles DEF IInv, Typed, TypeOK
  <2>2. CASE Sure(g[1], g[2], g[3])
    BY <2>1, <2>2 DEF Sure, Held
  <2>3. CASE \E f \in Files : UuidOf[f] = g[1] /\ Sure(f, g[2], g[3])
    BY <2>1, <2>3, UuidsAreNoFiles DEF Sure, Held
  <2> QED
    BY <2>2, <2>3 DEF IInv, SafeInv
<1> QED
  BY <1>1, InitIInv, NextIInv, PTL DEF Spec

(***************************************************************************)
(* How a migration ends.                                                    *)
(***************************************************************************)
\* While a migration has not failed, a rule that is not ahead of it has no key left, but
\* for the rule at hand and those whose rename was left unflushed.
DoneInv ==
    /\ command = "migrate" => report = "none"
    /\ command = "migrate" /\ ~failed =>
          \A f \in Files : \/ f \in left \cup cut \/ (stage \in Writes /\ rule = f)
                           \/ ~HasKeys(file[f])
    /\ stage = "settle" /\ writing \in Files => ~HasKeys(file[writing])

\* A migration that failed of no write met a cause, which is still there: what it writes
\* keeps the ids of a shard, and settles no dispute.
ByHand(f) == ~file[f].editable \/ Disputed(f)

CauseInv ==
    /\ stage = "idle" => command = "none"
    /\ failed => command = "migrate"
    /\ failed /\ clean => \E f \in Files : ByHand(f)
    /\ stage \in Writes /\ command = "migrate" /\ writing \in Uuids =>
          \A t \in Tenants : file[writing].ids[t] # NoId => state[t] = file[writing].ids[t]

ReportInv == IInv /\ DoneInv /\ CauseInv

LEMMA InitReportInv == Init => ReportInv
<1> SUFFICES ASSUME Init PROVE ReportInv
  OBVIOUS
<1>1. stage = "idle" /\ command = "none" /\ failed = FALSE
  BY DEF Init
<1>2. DoneInv /\ CauseInv
  BY <1>1 DEF DoneInv, CauseInv, Writes, Writing
<1> QED
  BY <1>2, InitIInv DEF ReportInv

LEMMA SameByHand ==
    ASSUME file' = file, NEW f \in Files, ByHand(f)
    PROVE  ByHand(f)'
BY DEF ByHand, Disputed

\* The command ends.
LEMMA EndsReport ==
    ASSUME NEW how, Ends(how)
    PROVE  DoneInv' /\ CauseInv'
<1>1. stage' = "idle" /\ command' = "none" /\ failed' = FALSE
  BY DEF Ends
<1> QED
  BY <1>1 DEF DoneInv, CauseInv, Writes, Writing

\* A write of a migration fails.
LEMMA RuleFailsReport ==
    ASSUME ReportInv, command = "migrate", RuleDone(TRUE), clean' = FALSE
    PROVE  DoneInv' /\ CauseInv'
<1>1. stage' = "rule" /\ command' = "migrate" /\ failed' = TRUE /\ report' = report
  BY DEF RuleDone
<1> QED
  BY <1>1 DEF ReportInv, DoneInv, CauseInv, Writes, Writing

\* A command starts.
LEMMA StartReport ==
    ASSUME ReportInv,
           \/ StartMigrate
           \/ \E u \in Uuids, t \in Tenants : Forget(u, t) \/ \E id \in Ids : Record(u, t, id)
    PROVE  DoneInv' /\ CauseInv'
<1>1. /\ stage = "idle" /\ stage' \in {"rule", "open", "unlink"}
      /\ command' \in {"migrate", "record", "forget"} /\ failed' = failed /\ report' = "none"
      /\ command' = "migrate" => stage' = "rule" /\ left' = Files
  BY DEF StartMigrate, Forget, Record, Starts, Idle
<1>2. failed' = FALSE
  BY <1>1 DEF ReportInv, CauseInv, IInv, Typed, TypeOK
<1> QED
  BY <1>1, <1>2 DEF DoneInv, CauseInv, Writes, Writing

\* The migration is refused, or the ignore line adopted: no command runs.
LEMMA IgnoreReport ==
    ASSUME ReportInv, MigrateRefused \/ AdoptIgnoreLine
    PROVE  DoneInv' /\ CauseInv'
<1>1. stage' = "idle" /\ command' = "none" /\ failed' = FALSE
  BY DEF MigrateRefused, AdoptIgnoreLine, Idle, ReportInv, CauseInv, IInv, Typed, TypeOK
<1> QED
  BY <1>1 DEF DoneInv, CauseInv, Writes, Writing

\* A rule without keys, a rule that cannot be moved.
LEMMA PassReport ==
    ASSUME ReportInv, NEW f \in Files, NothingToMove(f) \/ CannotMove(f)
    PROVE  DoneInv' /\ CauseInv'
<1>1. /\ stage = "rule" /\ stage' = "rule" /\ command = "migrate" /\ left' = left \ {f}
      /\ UNCHANGED <<file, command, report, cut, clean>>
  BY DEF NothingToMove, CannotMove, Takes, ReportInv, IInv, Typed, Shape
<1>2. CASE NothingToMove(f)
  <2>1. ~HasKeys(file[f]) /\ failed' = failed
    BY <1>2 DEF NothingToMove
  <2>2. DoneInv'
    BY <1>1, <2>1 DEF ReportInv, DoneInv, Writes, Writing
  <2>3. CauseInv'
    <3>1. failed' /\ clean' => \E g \in Files : ByHand(g)'
      BY <1>1, <2>1, SameByHand DEF ReportInv, CauseInv
    <3> QED
      BY <1>1, <2>1, <3>1 DEF ReportInv, CauseInv, Writes, Writing
  <2> QED
    BY <2>2, <2>3
<1>3. CASE CannotMove(f)
  <2>1. failed' = TRUE /\ Refused(f)
    BY <1>3 DEF CannotMove
  <2>2. file[f].whole /\ file[UuidOf[f]].whole
    BY UuidsAreNoFiles DEF ReportInv, IInv, WholeInv, Typed, TypeOK
  <2>3. ByHand(f)
    BY <2>1, <2>2 DEF Refused, Differs, Known, ByHand, Disputed
  <2>4. ByHand(f)'
    BY <1>1, <2>3, SameByHand
  <2>5. DoneInv'
    BY <1>1, <2>1 DEF ReportInv, DoneInv
  <2>6. CauseInv'
    BY <1>1, <2>1, <2>4 DEF CauseInv, Writes, Writing
  <2> QED
    BY <2>5, <2>6
<1> QED
  BY <1>2, <1>3

LEMMA MoveReport ==
    ASSUME ReportInv, NEW f \in Files, Move(f)
    PROVE  DoneInv' /\ CauseInv'
<1>1. /\ stage = "rule" /\ stage' = "open" /\ command = "migrate" /\ command' = "migrate"
      /\ left' = left \ {f} /\ rule' = f /\ failed' = failed /\ state' = Moved(f)
      /\ UNCHANGED <<file, report, cut, clean>>
      /\ todo' = <<UuidOf[f], f>> \/ todo' = <<f>>
      /\ \A t \in Tenants : file[f].ids[t] # NoId => ~Differs(f, t)
  BY MoveFacts DEF Move, Takes, ReportInv, IInv, Typed, Shape, history
<1>2. DoneInv'
  BY <1>1 DEF ReportInv, DoneInv, Writes, Writing
<1>3. failed' /\ clean' => \E g \in Files : ByHand(g)'
  BY <1>1, SameByHand DEF ReportInv, CauseInv
<1>4. writing' \in Uuids => writing' = UuidOf[f]
  BY <1>1, UuidsAreNoFiles DEF writing
<1>5. ASSUME NEW t \in Tenants, file[UuidOf[f]].ids[t] # NoId
      PROVE  Moved(f)[t] = file[UuidOf[f]].ids[t]
  BY <1>1, <1>5 DEF Moved, Differs, Known
<1>6. CauseInv'
  BY <1>1, <1>3, <1>4, <1>5 DEF ReportInv, CauseInv
<1> QED
  BY <1>2, <1>6

LEMMA FillingReport ==
    ASSUME ReportInv, OpenTemporary \/ Fill \/ Flush
    PROVE  DoneInv' /\ CauseInv'
<1>1. /\ stage \in Writing /\ stage' \in Writing
      /\ UNCHANGED <<file, todo, command, left, rule, state, failed, report, cut, clean>>
  BY DEF OpenTemporary, Fill, Flush, Writing, whileWriting, history
<1>2. writing' = writing
  BY <1>1 DEF writing
<1>3. DoneInv'
  BY <1>1 DEF ReportInv, DoneInv, Writes, Writing
<1>4. failed' /\ clean' => \E g \in Files : ByHand(g)'
  BY <1>1, SameByHand DEF ReportInv, CauseInv
<1>5. CauseInv'
  BY <1>1, <1>2, <1>4 DEF ReportInv, CauseInv, Writes, Writing
<1> QED
  BY <1>3, <1>5

\* What a migration writes leaves a cause where it was: the rule at hand is not disputed,
\* and a shard keeps its ids.
LEMMA CauseStays ==
    ASSUME ReportInv, Rename \/ Unlink, command = "migrate", NEW f \in Files, ByHand(f)
    PROVE  ByHand(f)'
<1>1. /\ stage \in Writing /\ stage \in Writes /\ file' = [file EXCEPT ![writing] = Content]
      /\ writing \in Paths
  BY InstallFacts DEF ReportInv, Writes, Writing
<1>2. file \in [Paths -> Contents] /\ f \in Paths /\ UuidOf[f] \in Paths
  BY UuidsAreNoFiles DEF ReportInv, IInv, Typed, TypeOK
<1>3. \A p \in Paths : file'[p] = IF p = writing THEN Content ELSE file[p]
  BY <1>1, <1>2
<1>4. file'[f].editable = file[f].editable
  <2>1. CASE f = writing
    <3>1. Content = Stripped(file[f]) /\ file[f] \in Contents
      BY <1>2, <2>1 DEF Content
    <3> QED
      BY <1>2, <1>3, <2>1, <3>1 DEF Stripped, Contents
  <2> QED
    BY <1>2, <1>3, <2>1
<1>5. CASE Disputed(f)
  <2>1. PICK t \in Tenants : /\ file[f].ids[t] # NoId
                             /\ file[UuidOf[f]].ids[t] \notin {NoId, file[f].ids[t]}
    BY <1>5 DEF Disputed
  <2>2. f # writing
    <3>1. SUFFICES ASSUME f = writing PROVE FALSE
      OBVIOUS
    <3>2. f = rule
      BY <1>1, <3>1, WritingPath, UuidsAreNoFiles DEF ReportInv, IInv
    <3>3. file[UuidOf[f]].ids = state /\ state[t] = file[f].ids[t]
      BY <1>1, <2>1, <3>1, <3>2 DEF ReportInv, IInv, MovingInv
    <3> QED
      BY <2>1, <3>3
  <2>3. file'[UuidOf[f]].ids[t] = file[UuidOf[f]].ids[t]
    <3>1. CASE UuidOf[f] = writing
      <4>1. Content = Shard(state) /\ writing \in Uuids
        BY <1>1, <3>1, ContentWhole, UuidsAreNoFiles DEF ReportInv
      <4>2. Content.ids = state
        BY <4>1 DEF Shard
      <4>3. state[t] = file[writing].ids[t]
        BY <1>1, <2>1, <3>1, <4>1 DEF ReportInv, CauseInv
      <4> QED
        BY <1>2, <1>3, <3>1, <4>2, <4>3
    <3> QED
      BY <1>2, <1>3, <3>1
  <2>4. file'[f] = file[f]
    BY <1>2, <1>3, <2>2
  <2> QED
    BY <2>1, <2>3, <2>4 DEF ByHand, Disputed
<1> QED
  BY <1>4, <1>5 DEF ByHand

LEMMA InstallReport ==
    ASSUME ReportInv, Rename \/ Unlink
    PROVE  DoneInv' /\ CauseInv'
<1>1. /\ stage \in Writing /\ stage \in Writes /\ stage' = "settle" /\ stage' \in Writes
      /\ file' = [file EXCEPT ![writing] = Content]
      /\ UNCHANGED <<command, rule, state, cut>> /\ writing' = writing /\ writing \in Paths
  BY InstallFacts DEF ReportInv, Writes, Writing
<1>2. UNCHANGED <<left, failed, report, clean>>
  BY DEF Rename, Unlink, whileWriting, history
<1>3. file \in [Paths -> Contents]
  BY DEF ReportInv, IInv, Typed, TypeOK
<1>4. \A p \in Paths : file'[p] = IF p = writing THEN Content ELSE file[p]
  BY <1>1, <1>3
<1>5. writing \in Files => ~HasKeys(Content)
  <2>1. ASSUME writing \in Files PROVE ~HasKeys(Content)
    <3>1. Content = Stripped(file[writing]) /\ file[writing] \in Contents
      BY <1>1, <1>3, <2>1 DEF Content
    <3>2. Content.ids = NoIds /\ Content.unused = FALSE
      BY <3>1 DEF Stripped, Contents
    <3> QED
      BY <3>2 DEF HasKeys
  <2> QED
    BY <2>1
<1>6. DoneInv'
  <2>1. ASSUME command = "migrate", ~failed, NEW f \in Files
        PROVE  \/ f \in left \cup cut \/ rule = f
               \/ ~HasKeys(file'[f])
    BY <1>1, <1>4, <1>5, <2>1, UuidsAreNoFiles DEF ReportInv, DoneInv
  <2> QED
    BY <1>1, <1>2, <1>4, <1>5, <2>1 DEF ReportInv, DoneInv
<1>7. CauseInv'
  <2>1. failed' /\ clean' => \E g \in Files : ByHand(g)'
    BY <1>1, <1>2, CauseStays DEF ReportInv, CauseInv
  <2>2. ASSUME writing \in Uuids PROVE file'[writing].ids = state
    BY <1>1, <1>4, <2>2, ContentWhole DEF ReportInv, Shard
  <2> QED
    BY <1>1, <1>2, <2>1, <2>2 DEF ReportInv, CauseInv
<1> QED
  BY <1>6, <1>7

\* A write is done.
LEMMA WriteDoneReport ==
    ASSUME ReportInv, stage = "settle", WriteDone, UNCHANGED <<file, clean>>,
           \A f \in Files : f \in cut /\ f # writing => f \in cut'
    PROVE  DoneInv' /\ CauseInv'
<1>1. stage \in Writes
  BY DEF Writes
<1>2. failed' = failed => (failed' /\ clean' => \E g \in Files : ByHand(g)')
  BY SameByHand DEF ReportInv, CauseInv
<1>3. CASE /\ command = "migrate" /\ rule \in Files
           /\ todo = <<UuidOf[rule], rule>> /\ todo' = <<rule>> /\ stage' = "open"
           /\ UNCHANGED <<command, left, rule, state, temporary, failed, report>>
  <2>1. writing = UuidOf[rule] /\ writing' = rule
    BY <1>3 DEF writing
  <2>2. writing \notin Files /\ writing' \notin Uuids
    BY <1>3, <2>1, UuidsAreNoFiles
  <2>3. DoneInv'
    BY <1>1, <1>3, <2>2 DEF ReportInv, DoneInv, Writes, Writing
  <2>4. CauseInv'
    BY <1>2, <1>3, <2>2 DEF ReportInv, CauseInv
  <2> QED
    BY <2>3, <2>4
<1>4. CASE command = "migrate" /\ RuleDone(FALSE)
  <2>1. /\ stage' = "rule" /\ command' = "migrate" /\ UNCHANGED <<left, report>>
        /\ failed' = failed
    BY <1>4 DEF RuleDone, ReportInv, IInv, Typed, TypeOK
  <2>2. writing = rule
    <3>5. writing = rule \/ todo = <<UuidOf[rule], rule>>
      <4>1. Typed
        BY DEF ReportInv, IInv
      <4> QED
        BY <1>1, <1>4, <4>1, WritingPath
    <3>1. SUFFICES ASSUME todo = <<UuidOf[rule], rule>> PROVE FALSE
      BY <3>5
    <3>2. Len(<<UuidOf[rule], rule>>) = 2
      OBVIOUS
    <3>3. Len(todo) = 2
      BY <3>1, <3>2
    <3>4. stage' = "open"
      BY <3>3 DEF WriteDone
    <3> QED
      BY <2>1, <3>4
  <2>3. ASSUME ~failed, NEW f \in Files, f \notin left \cup cut', HasKeys(file[f])
        PROVE  FALSE
    <3>1. f # writing
      BY <2>3 DEF ReportInv, DoneInv
    <3> QED
      BY <1>4, <2>2, <2>3, <3>1 DEF ReportInv, DoneInv
  <2>4. DoneInv'
    BY <1>4, <2>1, <2>3 DEF ReportInv, DoneInv
  <2>5. CauseInv'
    BY <1>2, <2>1 DEF CauseInv, Writes, Writing
  <2> QED
    BY <2>4, <2>5
<1>5. CASE Ends("completed")
  BY <1>5, EndsReport
<1> QED
  BY <1>3, <1>4, <1>5, WriteDoneCases DEF ReportInv, IInv

LEMMA NextReport == ReportInv /\ [Next]_vars => ReportInv'
<1> SUFFICES ASSUME ReportInv, [Next]_vars PROVE ReportInv'
  OBVIOUS
<1>1. SUFFICES DoneInv' /\ CauseInv'
  BY NextIInv DEF ReportInv
<1>2. CASE UNCHANGED vars
  <2>1. writing' = writing
    BY <1>2 DEF vars, fileVars, writing
  <2>2. UNCHANGED <<file, command, stage, left, rule, state, failed, report, cut, clean>>
    BY <1>2 DEF vars, fileVars, history
  <2>3. failed' /\ clean' => \E g \in Files : ByHand(g)'
    BY <2>2, SameByHand DEF ReportInv, CauseInv
  <2> QED
    BY <2>1, <2>2, <2>3 DEF ReportInv, DoneInv, CauseInv
<1>3. CASE \/ StartMigrate
           \/ \E u \in Uuids, t \in Tenants :
                 Forget(u, t) \/ \E id \in Ids : DeployRecords(u, t, id) \/ ImportRecords(u, t, id)
  BY <1>3, StartReport DEF DeployRecords, ImportRecords
<1>4. CASE MigrateRefused \/ AdoptIgnoreLine
  BY <1>4, IgnoreReport
<1>5. CASE EndMigrate \/ Killed \/ PowerFails
  BY <1>5, EndsReport DEF EndMigrate, Killed, PowerFails
<1>6. CASE WriteFails
  BY <1>6, EndsReport, RuleFailsReport DEF WriteFails
<1>7. CASE \E f \in Files : NothingToMove(f) \/ CannotMove(f) \/ Move(f)
  BY <1>7, PassReport, MoveReport
<1>8. CASE OpenTemporary \/ Fill \/ Flush
  BY <1>8, FillingReport
<1>9. CASE Rename \/ Unlink
  BY <1>9, InstallReport
<1>10. CASE FlushDirectory \/ DirectoryNotFlushed
  <2>1. stage = "settle" /\ WriteDone /\ UNCHANGED <<file, clean>>
    BY <1>10 DEF FlushDirectory, DirectoryNotFlushed
  <2>2. \A f \in Files : f \in cut /\ f # writing => f \in cut'
    BY <1>10 DEF FlushDirectory, DirectoryNotFlushed, Unflushed
  <2> QED
    BY <2>1, <2>2, WriteDoneReport
<1> QED
  BY <1>2, <1>3, <1>4, <1>5, <1>6, <1>7, <1>8, <1>9, <1>10 DEF Next

\* Of the steps of a migration only EndMigrate reports that it completed, or failed.
LEMMA ReportedByEnd ==
    ASSUME ReportInv, [Next]_vars, command = "migrate", report' \in {"completed", "failed"}
    PROVE  EndMigrate
<1>1. report = "none" /\ stage # "idle"
  BY DEF ReportInv, DoneInv, CauseInv
<1>2. ~(UNCHANGED vars)
  BY <1>1 DEF vars
<1>3. ~(MigrateRefused \/ AdoptIgnoreLine \/ StartMigrate)
  BY <1>1 DEF MigrateRefused, AdoptIgnoreLine, StartMigrate, Starts, Idle
<1>4. ~(\E u \in Uuids, t \in Tenants :
           Forget(u, t) \/ \E id \in Ids : DeployRecords(u, t, id) \/ ImportRecords(u, t, id))
  BY <1>1 DEF Forget, DeployRecords, ImportRecords, Record, Starts, Idle
<1>5. ~(\E f \in Files : NothingToMove(f) \/ CannotMove(f) \/ Move(f))
  BY <1>1 DEF NothingToMove, CannotMove, Move, Takes
<1>6. ~(OpenTemporary \/ Fill \/ Flush \/ Rename \/ Unlink)
  BY <1>1 DEF OpenTemporary, Fill, Flush, Rename, Unlink, whileWriting
<1>7. ~WriteFails
  BY <1>1 DEF WriteFails, RuleDone
<1>8. ~(Killed \/ PowerFails)
  BY <1>1 DEF Killed, PowerFails, Ends
<1>9. ~(FlushDirectory \/ DirectoryNotFlushed)
  <2>1. WriteDone => report' = report
    BY <1>1 DEF WriteDone, RuleDone
  <2> QED
    BY <1>1, <2>1 DEF FlushDirectory, DirectoryNotFlushed
<1> QED
  BY <1>2, <1>3, <1>4, <1>5, <1>6, <1>7, <1>8, <1>9 DEF Next

\* When migrate-state reports that it completed, no rule has a key left to move, nor would
\* a power failure bring one back, but on a rule whose directory was not flushed.
THEOREM CompletedMigrations == Spec => CompletedIsDone
<1>1. ReportInv /\ [Next]_vars =>
          [report' = "completed" /\ command = "migrate" =>
              \A f \in Files : f \in cut \/ \A c \in after'[f] : ~HasKeys(c)]_vars
  <2> SUFFICES ASSUME ReportInv, [Next]_vars, report' = "completed", command = "migrate",
                      NEW f \in Files, f \notin cut, NEW c \in after'[f]
               PROVE  ~HasKeys(c)
    OBVIOUS
  <2>1. /\ EndMigrate /\ stage = "rule" /\ left = {} /\ after' = after
        /\ report' = IF failed THEN "failed" ELSE "completed"
    BY ReportedByEnd DEF EndMigrate, Ends
  <2>2. ~failed
    BY <2>1
  <2>3. ~HasKeys(file[f])
    BY <2>1, <2>2 DEF ReportInv, DoneInv, Writes, Writing
  <2>4. after[f] = {file[f]}
    BY <2>1, UuidsAreNoFiles DEF ReportInv, IInv, CertainInv
  <2> QED
    BY <2>1, <2>3, <2>4
<1> QED
  BY <1>1, InitReportInv, NextReport, PTL DEF Spec, CompletedIsDone

\* A migration that reports a failure met a failed write, a rule that has to be edited by
\* hand, or two ids for one tenant; never what an earlier run left half done.
THEOREM FailuresHaveCause == Spec => FailsForCause
<1>1. ReportInv /\ [Next]_vars =>
          [report' = "failed" /\ command = "migrate" =>
              ~clean \/ \E f \in Files : ~file[f].editable \/ Disputed(f)]_vars
  <2> SUFFICES ASSUME ReportInv, [Next]_vars, report' = "failed", command = "migrate", clean
               PROVE  \E f \in Files : ~file[f].editable \/ Disputed(f)
    OBVIOUS
  <2>1. EndMigrate /\ report' = IF failed THEN "failed" ELSE "completed"
    BY ReportedByEnd DEF EndMigrate, Ends
  <2>2. failed
    BY <2>1
  <2> QED
    BY <2>2 DEF ReportInv, CauseInv, ByHand
<1> QED
  BY <1>1, InitReportInv, NextReport, PTL DEF Spec, FailsForCause
=============================================================================
