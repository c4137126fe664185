------------------------------ MODULE MispShare ------------------------------
(***************************************************************************)
(* opentide share: push and retract of catalogue objects as MISP events.    *)
(*                                                                         *)
(* A run selects objects, loads the ledger of its checkout and hands the    *)
(* objects to a pool of workers. A worker looks the object's event up on    *)
(* the instance, creates, edits, publishes, unpublishes or deletes it, and  *)
(* puts one line in the ledger, under the run's lock, which rewrites the    *)
(* ledger file. The ledger is a cache: a CI runner starts without one.      *)
(***************************************************************************)
EXTENDS Naturals, FiniteSets

CONSTANTS
    Documents,      \* Tide objects, by uuid
    Workspaces,     \* checkouts that keep their ledger file
    Runner,         \* a checkout that does not (CI)
    Runs,           \* where share commands run: one after another in each
    MaxCommands,    \* bound: commands given
    Workers,        \* --workers
    MaxVersions,    \* bound: contents an object takes
    MaxEvents,      \* bound: events made on the instance
    Removals,       \* bound: events somebody deletes on the instance
    Reverts,        \* TRUE: an object may get back a content it had before
    Overlapping     \* TRUE: runs overlap, and events are deleted while one is active

ASSUME ShareAssumption ==
    /\ MaxCommands \in Nat /\ MaxEvents \in Nat /\ Removals \in Nat
    /\ Workers \in Nat \ {0} /\ MaxVersions \in Nat \ {0}
    /\ Reverts \in BOOLEAN /\ Overlapping \in BOOLEAN
    /\ Runner \notin Workspaces

Places == Workspaces \cup {Runner}
Contents == 1 .. MaxVersions
Gone == 0                           \* the object's file was removed
Events == 1 .. MaxEvents

VARIABLES
    version,    \* version[d]: the object's content in the catalogue
    events,     \* the instance
    made,       \* events made so far
    removals,
    disk,       \* disk[w]: the ledger file of a workspace
    given,      \* commands given so far
    command,    \* one run: what it was asked
    phase,
    ledger,     \* its ledger in memory
    content,    \* content[r][d]: the object as the run read it
    step,       \* one worker: how far it is
    found,      \* the events it matched
    up,         \* those of them that were published then
    writes,     \* what it will have done once recorded
    report      \* the record's action

remoteVars == <<events, made>>
workVars == <<step, found, up, writes, report>>
vars == <<version, remoteVars, removals, disk, given, command, phase, ledger, content, workVars>>

-----------------------------------------------------------------------------
NoEvent == [org |-> "none", doc |-> "none", content |-> Gone, published |-> FALSE]
EventRecords ==
    [org : {"ours", "theirs"}, doc : Documents, content : Contents, published : BOOLEAN]

NoLine == [state |-> "none", content |-> Gone]
Lines == [state : {"none", "synced", "retracted"}, content : Contents \cup {Gone}]
Synced(c) == [state |-> "synced", content |-> c]
Retracted(c) == [state |-> "retracted", content |-> c]
NoLedger == [d \in Documents |-> NoLine]
Ledgers == [Documents -> Lines]

Commands == [mode : {"push", "retract", "delete"}, publish : BOOLEAN, at : Places]
NoCommand == [mode |-> "push", publish |-> FALSE, at |-> Runner]

Steps == {"idle", "waiting", "found", "publishing", "recording", "discarding", "over"}
Actions == {"created", "updated", "unchanged", "retracted"}
Reports == Actions \cup {"none", "nothing", "failed"}

TypeOK ==
    /\ version \in [Documents -> Contents \cup {Gone}]
    /\ events \in [Events -> EventRecords \cup {NoEvent}]
    /\ made \in 0 .. MaxEvents
    /\ removals \in 0 .. Removals
    /\ disk \in [Workspaces -> Ledgers]
    /\ command \in [Runs -> Commands]
    /\ given \in 0 .. MaxCommands
    /\ phase \in [Runs -> {"none", "running", "aborting"}]
    /\ ledger \in [Runs -> Ledgers]
    /\ content \in [Runs -> [Documents -> Contents \cup {Gone}]]
    /\ step \in [Runs -> [Documents -> Steps]]
    /\ found \in [Runs -> [Documents -> SUBSET Events]]
    /\ up \in [Runs -> [Documents -> SUBSET Events]]
    /\ writes \in [Runs -> [Documents -> Reports]]
    /\ report \in [Runs -> [Documents -> Reports]]

Everywhere(x) == [r \in Runs |-> [d \in Documents |-> x]]

Init ==
    /\ version \in [Documents -> {1}]
    /\ events = [e \in Events |-> NoEvent]
    /\ made = 0
    /\ removals = 0
    /\ disk = [w \in Workspaces |-> NoLedger]
    /\ command = [r \in Runs |-> NoCommand]
    /\ given = 0
    /\ phase = [r \in Runs |-> "none"]
    /\ ledger = [r \in Runs |-> NoLedger]
    /\ content = Everywhere(Gone)
    /\ step = Everywhere("idle")
    /\ found = Everywhere({})
    /\ up = Everywhere({})
    /\ writes = Everywhere("none")
    /\ report = Everywhere("none")

-----------------------------------------------------------------------------
Active(r) == phase[r] \in {"running", "aborting"}
Alone == Overlapping \/ \A r \in Runs : ~Active(r)

Pushes(r) == command[r].mode = "push"
Publishes(r) == command[r].publish

\* Somebody edits an object, or removes its file.
EditDocument(d, c) ==
    /\ c # version[d]
    /\ Reverts \/ (version[d] # Gone /\ (c > version[d] \/ c = Gone))
    /\ version' = [version EXCEPT ![d] = c]
    /\ UNCHANGED <<remoteVars, removals, disk, given, command, phase, ledger, content, workVars>>

\* Another organisation shares the object too, and somebody deletes an event of ours.
MakeEvent(d, org, c, published) ==
    /\ made < MaxEvents
    /\ made' = made + 1
    /\ events' = [events EXCEPT ![made + 1] =
            [org |-> org, doc |-> d, content |-> c, published |-> published]]

SharedByOthers(d) ==
    /\ MakeEvent(d, "theirs", 1, FALSE)
    /\ UNCHANGED <<version, removals, disk, given, command, phase, ledger, content, workVars>>

RemovedByHand(e) ==
    /\ Alone
    /\ removals < Removals
    /\ events[e].org = "ours"
    /\ removals' = removals + 1
    /\ events' = [events EXCEPT ![e] = NoEvent]
    /\ UNCHANGED <<version, made, disk, given, command, phase, ledger, content, workVars>>

-----------------------------------------------------------------------------
Loaded(c) == IF c.at \in Workspaces THEN disk[c.at] ELSE NoLedger

\* push takes objects of the catalogue; retract, also those only the ledger knows.
Selectable(c) ==
    {d \in Documents : version[d] # Gone \/ (c.mode # "push" /\ Loaded(c)[d] # NoLine)}

Start(r, c, selected) ==
    /\ phase[r] = "none" /\ given < MaxCommands
    /\ Alone
    /\ given' = given + 1
    /\ selected # {} /\ selected \subseteq Selectable(c)
    /\ phase' = [phase EXCEPT ![r] = "running"]
    /\ command' = [command EXCEPT ![r] = c]
    /\ ledger' = [ledger EXCEPT ![r] = Loaded(c)]
    /\ content' = [content EXCEPT ![r] = version]
    /\ step' = [step EXCEPT ![r] =
            [d \in Documents |-> IF d \in selected THEN "waiting" ELSE "idle"]]
    /\ UNCHANGED <<version, remoteVars, removals, disk, found, up, writes, report>>

InFlight(r) == {d \in Documents : step[r][d] \in Steps \ {"idle", "waiting", "over"}}

\* A worker's record; and the worker is free for the next object.
Reported(r, d, action) ==
    /\ step' = [step EXCEPT ![r][d] = "over"]
    /\ report' = [report EXCEPT ![r][d] = action]
    /\ found' = [found EXCEPT ![r][d] = {}]
    /\ up' = [up EXCEPT ![r][d] = {}]
    /\ writes' = [writes EXCEPT ![r][d] = "none"]

Remains == UNCHANGED <<version, removals, disk, given, command, phase, ledger, content>>

(***************************************************************************)
(* search_opentide_events and _matched: the events of our organisation that *)
(* hold the object's uuid. Broken: whoever's they are; only the published.  *)
(***************************************************************************)
MatchedAnyOrg(d) == {e \in Events : events[e].doc = d}
MatchedPublished(d) == {e \in Events : events[e].org = "ours" /\ events[e].doc = d
                                       /\ events[e].published}
Matched(d) == {e \in Events : events[e].org = "ours" /\ events[e].doc = d}

\* A worker takes an object. A single worker is the run itself, and takes none after
\* an error.
Takes(r, d) ==
    /\ Active(r) /\ step[r][d] = "waiting"
    /\ Cardinality(InFlight(r)) < Workers
    /\ phase[r] = "running" \/ Workers > 1

Search(r, d) ==
    /\ Takes(r, d)
    /\ step' = [step EXCEPT ![r][d] = "found"]
    /\ found' = [found EXCEPT ![r][d] = Matched(d)]
    /\ up' = [up EXCEPT ![r][d] = {e \in Matched(d) : events[e].published}]
    /\ UNCHANGED <<writes, report, remoteVars>> /\ Remains

\* The object is invalid, not to be shared, or something before the search fails.
LookupFails(r, d) ==
    /\ Takes(r, d)
    /\ Reported(r, d, "failed")
    /\ UNCHANGED remoteVars /\ Remains

At(r, d, s) == Active(r) /\ step[r][d] = s
FoundOne(r, d, e) == At(r, d, "found") /\ found[r][d] = {e}
FoundNone(r, d) == At(r, d, "found") /\ found[r][d] = {}

Ambiguous(r, d) ==
    /\ At(r, d, "found")
    /\ \E e, f \in found[r][d] : e # f
    /\ Reported(r, d, "failed")
    /\ UNCHANGED remoteVars /\ Remains

\* The next step of a worker, and what it will report.
Goes(r, d, next, action) ==
    /\ step' = [step EXCEPT ![r][d] = next]
    /\ writes' = [writes EXCEPT ![r][d] = action]
    /\ UNCHANGED <<found, up, report>>

\* The remote call was carried out, but the client saw a failure.
Unanswered(r, d) == Reported(r, d, "failed")

\* The instance refuses a call, or is not there.
CallRefused(r, d) ==
    /\ At(r, d, "found") \/ At(r, d, "publishing")
    /\ Reported(r, d, "failed")
    /\ UNCHANGED remoteVars /\ Remains

-----------------------------------------------------------------------------
(***************************************************************************)
(* _upsert.                                                                 *)
(***************************************************************************)
\* A synced line with the same bytes needs no write.
InStep(r, d) == ledger[r][d] = Synced(content[r][d])

\* What remains to be published after a write: everything, since a write leaves the
\* event unpublished. Broken: what was published before is thought to be still.
PublishesNew(r, d) == Publishes(r) /\ up[r][d] = {}
PublishesWritten(r, d) == Publishes(r)

AfterWrite(r, d) == IF PublishesWritten(r, d) THEN "publishing" ELSE "recording"

\* Broken: the line alone is believed, although the search found no event.
BelievesLine(r, d) ==
    /\ Pushes(r) /\ At(r, d, "found")
    /\ InStep(r, d)
    /\ Publishes(r) => up[r][d] # {}
    /\ Reported(r, d, "unchanged")
    /\ UNCHANGED remoteVars /\ Remains

Unchanged(r, d) ==
    /\ Pushes(r) /\ \E e \in Events : FoundOne(r, d, e)
    /\ InStep(r, d)
    /\ Publishes(r) => up[r][d] # {}
    /\ Reported(r, d, "unchanged")
    /\ UNCHANGED remoteVars /\ Remains

PublishOnly(r, d) ==
    /\ Pushes(r) /\ \E e \in Events : FoundOne(r, d, e)
    /\ InStep(r, d)
    /\ Publishes(r) /\ up[r][d] = {}
    /\ Goes(r, d, "publishing", "updated")
    /\ UNCHANGED remoteVars /\ Remains

Create(r, d) ==
    /\ Pushes(r) /\ FoundNone(r, d)
    /\ MakeEvent(d, "ours", content[r][d], FALSE)
    /\ \/ /\ step' = [step EXCEPT ![r][d] = AfterWrite(r, d)]
          /\ found' = [found EXCEPT ![r][d] = {made + 1}]
          /\ writes' = [writes EXCEPT ![r][d] = "created"]
          /\ UNCHANGED <<up, report>>
       \/ Unanswered(r, d)
    /\ Remains

Edit(r, d, e) ==
    /\ Pushes(r) /\ FoundOne(r, d, e)
    /\ ~InStep(r, d)
    /\ events[e] # NoEvent
    /\ events' = [events EXCEPT ![e].content = content[r][d], ![e].published = FALSE]
    /\ Goes(r, d, AfterWrite(r, d), "updated") \/ Unanswered(r, d)
    /\ UNCHANGED made /\ Remains

Publish(r, d, e) ==
    /\ At(r, d, "publishing") /\ found[r][d] = {e}
    /\ events[e] # NoEvent
    /\ events' = [events EXCEPT ![e].published = TRUE]
    /\ Goes(r, d, "recording", writes[r][d]) \/ Unanswered(r, d)
    /\ UNCHANGED made /\ Remains

-----------------------------------------------------------------------------
(***************************************************************************)
(* _retract_one.                                                            *)
(***************************************************************************)
\* There is no event: the line, if any, goes.
RetractAbsent(r, d) ==
    /\ ~Pushes(r) /\ FoundNone(r, d)
    /\ IF ledger[r][d] = NoLine
       THEN Reported(r, d, "nothing")
       ELSE Goes(r, d, "discarding", "retracted")
    /\ UNCHANGED remoteVars /\ Remains

Unpublish(r, d, e) ==
    /\ command[r].mode = "retract" /\ FoundOne(r, d, e)
    /\ up[r][d] # {} /\ events[e] # NoEvent
    /\ events' = [events EXCEPT ![e].published = FALSE]
    /\ Goes(r, d, "recording", "retracted") \/ Unanswered(r, d)
    /\ UNCHANGED made /\ Remains

RetractUnpublished(r, d) ==
    /\ command[r].mode = "retract" /\ \E e \in Events : FoundOne(r, d, e)
    /\ up[r][d] = {}
    /\ Goes(r, d, "recording", "retracted")
    /\ UNCHANGED remoteVars /\ Remains

\* An event that is gone already counts as deleted.
Delete(r, d, e) ==
    /\ command[r].mode = "delete" /\ FoundOne(r, d, e)
    /\ events' = [events EXCEPT ![e] = NoEvent]
    /\ Goes(r, d, "discarding", "retracted") \/ Unanswered(r, d)
    /\ UNCHANGED made /\ Remains

-----------------------------------------------------------------------------
(***************************************************************************)
(* ShareLedger: put and discard change one object's line; save rewrites the *)
(* file from memory. Broken: put drops the target's other lines.            *)
(***************************************************************************)
PutAlone(lines, d, line) == [NoLedger EXCEPT ![d] = line]
Put(lines, d, line) == [lines EXCEPT ![d] = line]

LineOf(r, d) ==
    IF Pushes(r) THEN Synced(content[r][d])
    ELSE Retracted(IF content[r][d] = Gone THEN ledger[r][d].content ELSE content[r][d])

NewLine(r, d) == IF step[r][d] = "recording" THEN LineOf(r, d) ELSE NoLine

Saves(r) ==
    LET w == command[r].at IN
    disk' = IF w \in Workspaces THEN [disk EXCEPT ![w] = ledger'[r]] ELSE disk

\* _remember, _remember_retracted, _discard: under the lock, so one step.
Record(r, d) ==
    /\ At(r, d, "recording") \/ At(r, d, "discarding")
    /\ ledger' = [ledger EXCEPT ![r] = Put(@, d, NewLine(r, d))]
    /\ IF ledger'[r] = ledger[r] /\ step[r][d] = "discarding" THEN UNCHANGED disk ELSE Saves(r)
    /\ Reported(r, d, writes[r][d])
    /\ UNCHANGED <<version, remoteVars, removals, given, command, phase, content>>

\* The file cannot be written: the worker raises, and the run gives up the objects
\* its workers have not taken when it gets to that result.
SaveFails(r, d) ==
    /\ At(r, d, "recording") \/ At(r, d, "discarding")
    /\ ledger' = [ledger EXCEPT ![r] = Put(@, d, NewLine(r, d))]
    /\ phase' = [phase EXCEPT ![r] = "aborting"]
    /\ Reported(r, d, "none")
    /\ UNCHANGED <<version, remoteVars, removals, disk, given, command, content>>

GivesUpTheRest(r) ==
    /\ phase[r] = "aborting"
    /\ \E d \in Documents : step[r][d] = "waiting"
    /\ step' = [step EXCEPT ![r] =
            [d \in Documents |-> IF step[r][d] = "waiting" THEN "over" ELSE step[r][d]]]
    /\ UNCHANGED <<version, remoteVars, removals, disk, given, command, phase, ledger, content, found,
                   up, writes, report>>

\* Nothing of a command is left in memory.
Forgets(r) ==
    /\ phase' = [phase EXCEPT ![r] = "none"]
    /\ command' = [command EXCEPT ![r] = NoCommand]
    /\ ledger' = [ledger EXCEPT ![r] = NoLedger]
    /\ content' = [content EXCEPT ![r] = [d \in Documents |-> Gone]]
    /\ step' = [step EXCEPT ![r] = [d \in Documents |-> "idle"]]
    /\ found' = [found EXCEPT ![r] = [d \in Documents |-> {}]]
    /\ up' = [up EXCEPT ![r] = [d \in Documents |-> {}]]
    /\ writes' = [writes EXCEPT ![r] = [d \in Documents |-> "none"]]
    /\ report' = [report EXCEPT ![r] = [d \in Documents |-> "none"]]
    /\ UNCHANGED <<version, remoteVars, removals, disk, given>>

Ends(r) == Active(r) /\ (\A d \in Documents : step[r][d] \in {"idle", "over"}) /\ Forgets(r)

\* The process is killed.
Crash(r) == Active(r) /\ Forgets(r)

-----------------------------------------------------------------------------
Upsert(r, d) ==
    \/ Unchanged(r, d)
    \/ PublishOnly(r, d)
    \/ Create(r, d)
    \/ \E e \in Events : Edit(r, d, e) \/ Publish(r, d, e)

RetractOne(r, d) ==
    \/ RetractAbsent(r, d)
    \/ RetractUnpublished(r, d)
    \/ \E e \in Events : Unpublish(r, d, e) \/ Delete(r, d, e)

Worker(r, d) ==
    \/ Search(r, d)
    \/ LookupFails(r, d)
    \/ Ambiguous(r, d)
    \/ CallRefused(r, d)
    \/ Upsert(r, d)
    \/ RetractOne(r, d)
    \/ Record(r, d)
    \/ SaveFails(r, d)

Others ==
    \/ \E d \in Documents, c \in Contents \cup {Gone} : EditDocument(d, c)
    \/ \E d \in Documents : SharedByOthers(d)
    \/ \E e \in Events : RemovedByHand(e)

Run(r) ==
    \/ \E c \in Commands, selected \in SUBSET Documents : Start(r, c, selected)
    \/ GivesUpTheRest(r)
    \/ Ends(r)
    \/ Crash(r)

\* No command runs, and nobody has to give another.
Settled == (\A r \in Runs : ~Active(r)) /\ UNCHANGED vars

Next ==
    \/ Others
    \/ \E r \in Runs : Run(r) \/ \E d \in Documents : Worker(r, d)
    \/ Settled

Spec == Init /\ [][Next]_vars
-----------------------------------------------------------------------------
(***************************************************************************)
(* Properties.                                                              *)
(***************************************************************************)

(***************************************************************************)
(* One event per object of our organisation, however many runs crashed,     *)
(* lost an answer or lost their ledger, as long as runs do not overlap: a   *)
(* create follows a search that found none.                                 *)
(***************************************************************************)
OneEventPerObject ==
    \A e, f \in Events :
        events[e].org = "ours" /\ events[f].org = "ours" /\ events[e].doc = events[f].doc => e = f

(***************************************************************************)
(* Another organisation's event on the same object is only ever named in a   *)
(* note: no worker edits, publishes, unpublishes or deletes it.             *)
(***************************************************************************)
ForeignEventsKept ==
    [][\A e \in Events : events[e].org = "theirs" => events'[e] = events[e]]_events

(***************************************************************************)
(* What a record says is so on the instance when it is written: created,     *)
(* updated and unchanged mean that our event holds the object's bytes, and  *)
(* is published when the run was to publish; retracted, that it is not      *)
(* published, or not there. That holds whatever the ledger of the checkout   *)
(* claims, as long as an object's bytes never come back.                    *)
(***************************************************************************)
Ours(d) == {e \in Events : events[e].org = "ours" /\ events[e].doc = d}

Shared(r, d) ==
    \E e \in Ours(d) : events[e].content = content[r][d] /\ (Publishes(r) => events[e].published)

Withdrawn(r, d) ==
    \A e \in Ours(d) : command[r].mode = "retract" /\ ~events[e].published

RecordsAreTrue ==
    [][\A r \in Runs, d \in Documents : report'[r][d] # report[r][d] =>
          /\ report'[r][d] \in {"created", "updated", "unchanged"} => Shared(r, d)
          /\ report'[r][d] = "retracted" => Withdrawn(r, d)]_report

(***************************************************************************)
(* While a run goes on, its checkout's ledger file has the line of every     *)
(* object its workers recorded, in whatever order they took the lock.       *)
(***************************************************************************)
LedgerHoldsRecords ==
    \A r \in Runs : (phase[r] = "running" /\ command[r].at \in Workspaces) =>
        \A d \in Documents :
            /\ report[r][d] \in {"created", "updated"} =>
                  disk[command[r].at][d] = Synced(content[r][d])
            /\ report[r][d] = "retracted" => disk[command[r].at][d].state # "synced"
=============================================================================
