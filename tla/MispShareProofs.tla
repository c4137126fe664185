--------------------------- MODULE MispShareProofs ---------------------------
(***************************************************************************)
(* What holds of MispShare for any number of objects, checkouts, runs and   *)
(* workers: its types; one event per object; the events of others are kept;  *)
(* the ledger file holds what was recorded; what is recorded is so. All but  *)
(* the first and the third need that runs do not overlap, so that at most    *)
(* one command is active (ActiveAlone). Each section states the invariant    *)
(* it needs: IInv, EventInv, FoundInv, SoloInv, WorkerInv.                  *)
(***************************************************************************)
EXTENDS MispShare, TLAPS

\* A worker that pushes has an object of the catalogue.
PushedContent ==
    \A r \in Runs, d \in Documents :
        Pushes(r) /\ step[r][d] # "idle" => content[r][d] \in Contents

IInv == TypeOK /\ PushedContent

USE DEF remoteVars, workVars

\* Two-level functions, and what an update of one run's object leaves.
LEMMA Grid ==
    ASSUME NEW S, NEW f \in [Runs -> [Documents -> S]],
           NEW r \in Runs, NEW d \in Documents, NEW x \in S
    PROVE  /\ [f EXCEPT ![r][d] = x] \in [Runs -> [Documents -> S]]
           /\ [f EXCEPT ![r][d] = x][r][d] = x
           /\ \A q \in Runs, c \in Documents :
                 q # r \/ c # d => [f EXCEPT ![r][d] = x][q][c] = f[q][c]
OBVIOUS

LEMMA LineTypes ==
    /\ NoLine \in Lines /\ NoLedger \in Ledgers
    /\ \A c \in Contents \cup {Gone} : Synced(c) \in Lines /\ Retracted(c) \in Lines
    /\ \A l \in Ledgers, d \in Documents, n \in Lines : Put(l, d, n) \in Ledgers
BY DEF NoLine, Lines, NoLedger, Ledgers, Synced, Retracted, Put

LEMMA EventTypes ==
    /\ 1 \in Contents
    /\ \A d \in Documents, o \in {"ours", "theirs"}, c \in Contents, p \in BOOLEAN :
          [org |-> o, doc |-> d, content |-> c, published |-> p] \in EventRecords
    /\ \A e \in EventRecords, c \in Contents, p \in BOOLEAN :
          /\ [e EXCEPT !.content = c, !.published = p] \in EventRecords
          /\ [e EXCEPT !.published = p] \in EventRecords
<1>1. 1 \in Contents
  BY ShareAssumption DEF Contents
<1> QED
  BY <1>1 DEF EventRecords

\* The parts of a worker's state, in one word.
WorkOK ==
    /\ step \in [Runs -> [Documents -> Steps]]
    /\ report \in [Runs -> [Documents -> Reports]]
    /\ found \in [Runs -> [Documents -> SUBSET Events]]
    /\ up \in [Runs -> [Documents -> SUBSET Events]]
    /\ writes \in [Runs -> [Documents -> Reports]]

RemoteOK == events \in [Events -> EventRecords \cup {NoEvent}] /\ made \in 0 .. MaxEvents

\* The initial state.
LEMMA InitIInv == Init => IInv
<1> SUFFICES ASSUME Init PROVE IInv
  OBVIOUS
<1>1. TypeOK
  <2> USE DEF Init
  <2>1. version \in [Documents -> Contents \cup {Gone}] /\ RemoteOK
    <3>1. version \in [Documents -> Contents \cup {Gone}]
      BY EventTypes
    <3>2. made \in 0 .. MaxEvents
      BY ShareAssumption
    <3>3. events \in [Events -> EventRecords \cup {NoEvent}]
      OBVIOUS
    <3> QED
      BY <3>1, <3>2, <3>3 DEF RemoteOK
  <2>2. removals \in 0 .. Removals /\ given \in 0 .. MaxCommands
    BY ShareAssumption
  <2>3. disk \in [Workspaces -> Ledgers] /\ ledger \in [Runs -> Ledgers]
    BY LineTypes
  <2>4. /\ command \in [Runs -> Commands]
        /\ phase \in [Runs -> {"none", "running", "aborting"}]
    BY DEF NoCommand, Commands, Places
  <2>5. content \in [Runs -> [Documents -> Contents \cup {Gone}]]
    BY DEF Everywhere
  <2>6. WorkOK
    BY DEF WorkOK, Everywhere, Steps, Reports
  <2> QED
    BY <2>1, <2>2, <2>3, <2>4, <2>5, <2>6 DEF TypeOK, RemoteOK, WorkOK
<1>2. PushedContent
  BY DEF Init, PushedContent, Everywhere
<1> QED
  BY <1>1, <1>2 DEF IInv

\* A record takes its worker to its end.
LEMMA ReportedTypes ==
    ASSUME TypeOK, NEW r \in Runs, NEW d \in Documents, NEW a \in Reports, Reported(r, d, a)
    PROVE  WorkOK' /\ \E s \in Steps : step' = [step EXCEPT ![r][d] = s]
<1>1. /\ "over" \in Steps /\ "none" \in Reports /\ {} \in SUBSET Events
  BY DEF Steps, Reports
<1> QED
  <2>1. step' \in [Runs -> [Documents -> Steps]] /\ step' = [step EXCEPT ![r][d] = "over"]
    BY <1>1, Grid DEF TypeOK, Reported
  <2>2. report' \in [Runs -> [Documents -> Reports]] /\ writes' \in [Runs -> [Documents -> Reports]]
    BY <1>1, Grid DEF TypeOK, Reported
  <2>3. found' \in [Runs -> [Documents -> SUBSET Events]]
    BY <1>1, Grid DEF TypeOK, Reported
  <2>4. up' \in [Runs -> [Documents -> SUBSET Events]]
    BY <1>1, Grid DEF TypeOK, Reported
  <2> QED
    BY <1>1, <2>1, <2>2, <2>3, <2>4 DEF WorkOK

LEMMA GoesTypes ==
    ASSUME TypeOK, NEW r \in Runs, NEW d \in Documents, NEW t \in Steps, NEW a \in Reports,
           Goes(r, d, t, a)
    PROVE  WorkOK' /\ \E s \in Steps : step' = [step EXCEPT ![r][d] = s]
<1>1. step' \in [Runs -> [Documents -> Steps]] /\ step' = [step EXCEPT ![r][d] = t]
  BY Grid DEF TypeOK, Goes
<1>2. writes' \in [Runs -> [Documents -> Reports]]
  BY Grid DEF TypeOK, Goes
<1>3. /\ report' \in [Runs -> [Documents -> Reports]]
      /\ found' \in [Runs -> [Documents -> SUBSET Events]]
      /\ up' \in [Runs -> [Documents -> SUBSET Events]]
  BY DEF TypeOK, Goes
<1> QED
  BY <1>1, <1>2, <1>3 DEF WorkOK

\* A worker's step that touches neither ledgers nor the run itself.
LEMMA RemainsTypes ==
    ASSUME TypeOK, Remains, WorkOK', RemoteOK'
    PROVE  TypeOK'
BY DEF TypeOK, Remains, WorkOK, RemoteOK

\* Such a step keeps PushedContent: it starts no worker.
LEMMA RemainsPushed ==
    ASSUME IInv, Remains, NEW r \in Runs, NEW d \in Documents, step[r][d] # "idle",
           \E s \in Steps : step' = [step EXCEPT ![r][d] = s]
    PROVE  PushedContent'
<1> PICK s \in Steps : step' = [step EXCEPT ![r][d] = s]
  OBVIOUS
<1> SUFFICES ASSUME NEW q \in Runs, NEW c \in Documents, Pushes(q), step'[q][c] # "idle"
             PROVE  content[q][c] \in Contents
  BY DEF PushedContent, Remains, Pushes
<1>1. step[q][c] # "idle"
  BY Grid DEF IInv, TypeOK
<1> QED
  BY <1>1 DEF IInv, PushedContent

LEMMA MakeEventTypes ==
    ASSUME TypeOK, NEW d \in Documents, NEW o \in {"ours", "theirs"}, NEW c \in Contents,
           MakeEvent(d, o, c, FALSE)
    PROVE  RemoteOK'
<1>1. [org |-> o, doc |-> d, content |-> c, published |-> FALSE] \in EventRecords
  BY EventTypes
<1>2. made' \in 0 .. MaxEvents
  BY ShareAssumption DEF TypeOK, MakeEvent
<1>3. events' \in [Events -> EventRecords \cup {NoEvent}]
  BY <1>1 DEF TypeOK, MakeEvent
<1> QED
  BY <1>2, <1>3 DEF RemoteOK

LEMMA FoundType ==
    ASSUME TypeOK, NEW d \in Documents
    PROVE  Matched(d) \in SUBSET Events
BY DEF Matched

\* Steps of a worker that call nothing that changes the instance.
LEMMA LocalIInv ==
    ASSUME IInv, NEW r \in Runs, NEW d \in Documents,
           \/ Search(r, d) \/ LookupFails(r, d) \/ Ambiguous(r, d) \/ CallRefused(r, d)
           \/ Unchanged(r, d) \/ PublishOnly(r, d) \/ RetractAbsent(r, d)
           \/ RetractUnpublished(r, d)
    PROVE  IInv'
<1> TypeOK
  BY DEF IInv
<1>0. RemoteOK' /\ Remains
  BY DEF TypeOK, RemoteOK, Search, LookupFails, Ambiguous, CallRefused, Unchanged, PublishOnly,
     RetractAbsent, RetractUnpublished
<1>1. /\ \A a \in {"failed", "unchanged", "nothing", "updated", "retracted"} : a \in Reports
      /\ \A s \in {"found", "publishing", "recording", "discarding", "over"} : s \in Steps
  BY DEF Reports, Actions, Steps
<1>2. /\ WorkOK'
      /\ step[r][d] # "idle" /\ \E s \in Steps : step' = [step EXCEPT ![r][d] = s]
  <2>1. CASE Search(r, d)
    <3>1. {e \in Matched(d) : events[e].published} \in SUBSET Events
      BY FoundType
    <3>2. /\ step' = [step EXCEPT ![r][d] = "found"]
          /\ step[r][d] # "idle"
      BY <2>1 DEF Search, Takes
    <3>3. step' \in [Runs -> [Documents -> Steps]]
      BY <1>1, <3>2, Grid DEF TypeOK
    <3>4. found' \in [Runs -> [Documents -> SUBSET Events]]
      BY <2>1, FoundType, Grid DEF TypeOK, Search
    <3>5. up' \in [Runs -> [Documents -> SUBSET Events]]
      BY <2>1, <3>1, Grid DEF TypeOK, Search
    <3>6. /\ report' \in [Runs -> [Documents -> Reports]]
          /\ writes' \in [Runs -> [Documents -> Reports]]
      BY <2>1 DEF TypeOK, Search
    <3> QED
      BY <1>1, <3>2, <3>3, <3>4, <3>5, <3>6 DEF WorkOK
  <2>2. ASSUME NEW a \in {"failed", "unchanged", "nothing"}, Reported(r, d, a),
               step[r][d] # "idle"
        PROVE  WorkOK' /\ \E s \in Steps : step' = [step EXCEPT ![r][d] = s]
    BY <1>1, <2>2, ReportedTypes
  <2>3. ASSUME NEW s \in {"publishing", "recording", "discarding"},
               NEW a \in {"updated", "retracted"}, Goes(r, d, s, a), step[r][d] # "idle"
        PROVE  WorkOK' /\ \E t \in Steps : step' = [step EXCEPT ![r][d] = t]
    BY <1>1, <2>3, GoesTypes
  <2>4. CASE LookupFails(r, d) \/ Ambiguous(r, d) \/ CallRefused(r, d) \/ Unchanged(r, d)
    <3>1. /\ Reported(r, d, "failed") \/ Reported(r, d, "unchanged")
          /\ step[r][d] # "idle"
      BY <2>4 DEF LookupFails, Takes, Ambiguous, CallRefused, Unchanged, At, FoundOne
    <3> QED
      BY <2>2, <3>1
  <2>5. CASE PublishOnly(r, d) \/ RetractUnpublished(r, d)
    <3>1. /\ Goes(r, d, "publishing", "updated") \/ Goes(r, d, "recording", "retracted")
          /\ step[r][d] # "idle"
      BY <2>5 DEF PublishOnly, RetractUnpublished, At, FoundOne
    <3> QED
      BY <2>3, <3>1
  <2>6. CASE RetractAbsent(r, d)
    <3>1. /\ Reported(r, d, "nothing") \/ Goes(r, d, "discarding", "retracted")
          /\ step[r][d] # "idle"
      BY <2>6 DEF RetractAbsent, At, FoundNone
    <3> QED
      BY <2>2, <2>3, <3>1
  <2> QED
    BY <2>1, <2>4, <2>5, <2>6
<1> QED
  BY <1>0, <1>2, RemainsTypes, RemainsPushed DEF IInv

\* Steps of a worker that call the instance.
LEMMA RemoteIInv ==
    ASSUME IInv, NEW r \in Runs, NEW d \in Documents,
           \/ Create(r, d)
           \/ \E e \in Events : \/ Edit(r, d, e) \/ Publish(r, d, e)
                                \/ Unpublish(r, d, e) \/ Delete(r, d, e)
    PROVE  IInv'
<1> TypeOK
  BY DEF IInv
<1>1. /\ \A a \in {"failed", "created", "updated", "retracted"} : a \in Reports
      /\ \A s \in {"publishing", "recording", "discarding", "over"} : s \in Steps
      /\ AfterWrite(r, d) \in {"publishing", "recording"}
  BY DEF Reports, Actions, Steps, AfterWrite
<1>2. Remains /\ step[r][d] # "idle"
  BY DEF Create, Edit, Publish, Unpublish, Delete, FoundOne, FoundNone, At
<1>3. Pushes(r) => content[r][d] \in Contents
  BY <1>2 DEF IInv, PushedContent
<1>4. WorkOK' /\ \E s \in Steps : step' = [step EXCEPT ![r][d] = s]
  <2>1. CASE Reported(r, d, "failed")
    BY <1>1, <2>1, ReportedTypes
  <2>2. CASE \E s \in {"publishing", "recording", "discarding"}, a \in Reports : Goes(r, d, s, a)
    BY <1>1, <2>2, GoesTypes
  <2>3. CASE Create(r, d) /\ ~Reported(r, d, "failed")
    <3>1. {made + 1} \in SUBSET Events
      BY <2>3, ShareAssumption DEF Create, MakeEvent, TypeOK, Events
    <3> QED
      <4>1. AfterWrite(r, d) \in Steps /\ step' = [step EXCEPT ![r][d] = AfterWrite(r, d)]
        BY <1>1, <2>3 DEF Create, Unanswered
      <4>2. step' \in [Runs -> [Documents -> Steps]]
        BY <4>1, Grid DEF TypeOK
      <4>3. found' \in [Runs -> [Documents -> SUBSET Events]]
        <5>1. found' = [found EXCEPT ![r][d] = {made + 1}]
          BY <2>3 DEF Create, Unanswered
        <5> QED
          BY <3>1, <5>1, Grid DEF TypeOK
      <4>4. writes' \in [Runs -> [Documents -> Reports]]
        <5>1. writes' = [writes EXCEPT ![r][d] = "created"]
          BY <2>3 DEF Create, Unanswered
        <5> QED
          BY <1>1, <5>1, Grid DEF TypeOK
      <4>5. UNCHANGED <<up, report>>
        BY <2>3 DEF Create, Unanswered
      <4> QED
        BY <4>1, <4>2, <4>3, <4>4, <4>5 DEF TypeOK, WorkOK
  <2>4. writes[r][d] \in Reports
    BY DEF TypeOK
  <2> QED
    BY <1>1, <2>1, <2>2, <2>3, <2>4 DEF Edit, Publish, Unpublish, Delete, Unanswered
<1>5. RemoteOK'
  <2>1. CASE Create(r, d)
    BY <1>3, <2>1, MakeEventTypes DEF Create
  <2>2. ASSUME NEW e \in Events, Edit(r, d, e) PROVE RemoteOK'
    BY <1>3, <2>2, EventTypes DEF Edit, TypeOK, RemoteOK
  <2>3. ASSUME NEW e \in Events, Publish(r, d, e) \/ Unpublish(r, d, e) PROVE RemoteOK'
    <3>1. \A p \in BOOLEAN : [events[e] EXCEPT !.published = p] \in EventRecords
      BY <2>3, EventTypes DEF Publish, Unpublish, TypeOK
    <3> QED
      <4>1. \E p \in BOOLEAN : events' = [events EXCEPT ![e].published = p]
        BY <2>3 DEF Publish, Unpublish
      <4>2. made' = made
        BY <2>3 DEF Publish, Unpublish
      <4> QED
        BY <3>1, <4>1, <4>2 DEF TypeOK, RemoteOK
  <2>4. ASSUME NEW e \in Events, Delete(r, d, e) PROVE RemoteOK'
    BY <2>4 DEF Delete, TypeOK, RemoteOK
  <2> QED
    BY <2>1, <2>2, <2>3, <2>4
<1> QED
  BY <1>2, <1>4, <1>5, RemainsTypes, RemainsPushed DEF IInv

\* Steps of a worker that change the ledger.
LEMMA RecordIInv ==
    ASSUME IInv, NEW r \in Runs, NEW d \in Documents, Record(r, d) \/ SaveFails(r, d)
    PROVE  IInv'
<1> TypeOK
  BY DEF IInv
<1>1. step[r][d] # "idle" /\ step' = [step EXCEPT ![r][d] = "over"]
  BY DEF Record, SaveFails, At, Reported
<1>2. WorkOK'
  <2>1. writes[r][d] \in Reports /\ "none" \in Reports
    BY DEF TypeOK, Reports
  <2> QED
    BY <2>1, ReportedTypes DEF Record, SaveFails
<1>3. ledger' \in [Runs -> Ledgers]
  <2>1. NewLine(r, d) \in Lines
    <3>1. content[r][d] \in Contents \cup {Gone} /\ ledger[r][d] \in Lines
      BY DEF TypeOK, Ledgers
    <3>2. ledger[r][d].content \in Contents \cup {Gone}
      BY <3>1 DEF Lines
    <3> QED
      BY <3>1, <3>2, LineTypes DEF NewLine, LineOf
  <2>2. Put(ledger[r], d, NewLine(r, d)) \in Ledgers
    BY <2>1, LineTypes DEF TypeOK
  <2> QED
    BY <2>2 DEF Record, SaveFails, TypeOK
<1>4. disk' \in [Workspaces -> Ledgers]
  BY <1>3 DEF Record, SaveFails, Saves, TypeOK
<1>5. /\ phase' \in [Runs -> {"none", "running", "aborting"}]
      /\ UNCHANGED <<version, events, made, removals, given, command, content>>
  BY DEF Record, SaveFails, TypeOK
<1>6. TypeOK'
  BY <1>2, <1>3, <1>4, <1>5 DEF TypeOK, WorkOK
<1>7. PushedContent'
  <2> SUFFICES ASSUME NEW q \in Runs, NEW c \in Documents, Pushes(q), step'[q][c] # "idle"
               PROVE  content[q][c] \in Contents
    BY <1>5 DEF PushedContent, Pushes
  <2>1. step[q][c] # "idle"
    BY <1>1, Grid DEF TypeOK, Steps
  <2> QED
    BY <2>1 DEF IInv, PushedContent
<1> QED
  BY <1>6, <1>7 DEF IInv

\* A command starts.
LEMMA StartIInv ==
    ASSUME IInv, NEW r \in Runs, NEW c \in Commands, NEW selected \in SUBSET Documents,
           Start(r, c, selected)
    PROVE  IInv'
<1> TypeOK
  BY DEF IInv
<1>1. Loaded(c) \in Ledgers
  BY LineTypes DEF Loaded, TypeOK
<1>2. [d \in Documents |-> IF d \in selected THEN "waiting" ELSE "idle"] \in [Documents -> Steps]
  BY DEF Steps
<1>3. /\ ledger' \in [Runs -> Ledgers]
      /\ step' \in [Runs -> [Documents -> Steps]]
      /\ content' \in [Runs -> [Documents -> Contents \cup {Gone}]]
      /\ command' \in [Runs -> Commands]
      /\ phase' \in [Runs -> {"none", "running", "aborting"}]
      /\ given' \in 0 .. MaxCommands
  BY <1>1, <1>2, ShareAssumption DEF Start, TypeOK
<1>4. TypeOK'
  BY <1>3 DEF Start, TypeOK
<1>5. PushedContent'
  <2> SUFFICES ASSUME NEW q \in Runs, NEW d \in Documents, Pushes(q)', step'[q][d] # "idle"
               PROVE  content'[q][d] \in Contents
    BY DEF PushedContent
  <2>1. CASE q = r
    <3>1. d \in selected /\ c.mode = "push"
      BY <2>1 DEF Start, Pushes, TypeOK
    <3>2. version[d] # Gone
      BY <3>1 DEF Start, Selectable
    <3> QED
      BY <2>1, <3>2 DEF Start, TypeOK
  <2>2. CASE q # r
    <3>1. Pushes(q) /\ step[q][d] # "idle" /\ content'[q][d] = content[q][d]
      BY <2>2 DEF Start, Pushes, TypeOK
    <3> QED
      BY <3>1 DEF IInv, PushedContent
  <2> QED
    BY <2>1, <2>2
<1> QED
  BY <1>4, <1>5 DEF IInv

\* A command ends, or gives up.
LEMMA EndIInv ==
    ASSUME IInv, NEW r \in Runs, GivesUpTheRest(r) \/ Ends(r) \/ Crash(r)
    PROVE  IInv'
<1> TypeOK
  BY DEF IInv
<1>1. CASE GivesUpTheRest(r)
  <2>1. [d \in Documents |-> IF step[r][d] = "waiting" THEN "over" ELSE step[r][d]]
            \in [Documents -> Steps]
    BY DEF TypeOK, Steps
  <2>2. TypeOK'
    BY <1>1, <2>1 DEF GivesUpTheRest, TypeOK
  <2>3. PushedContent'
    BY <1>1 DEF GivesUpTheRest, TypeOK, IInv, PushedContent, Pushes
  <2> QED
    BY <2>2, <2>3 DEF IInv
<1>2. CASE Forgets(r)
  <2>1. /\ NoCommand \in Commands
        /\ [d \in Documents |-> Gone] \in [Documents -> Contents \cup {Gone}]
        /\ [d \in Documents |-> "idle"] \in [Documents -> Steps]
        /\ [d \in Documents |-> "none"] \in [Documents -> Reports]
        /\ [d \in Documents |-> {}] \in [Documents -> SUBSET Events]
    BY DEF NoCommand, Commands, Places, Steps, Reports
  <2>2. /\ ledger' \in [Runs -> Ledgers]
        /\ command' \in [Runs -> Commands]
        /\ phase' \in [Runs -> {"none", "running", "aborting"}]
        /\ content' \in [Runs -> [Documents -> Contents \cup {Gone}]]
    BY <1>2, <2>1, LineTypes DEF Forgets, TypeOK
  <2>3. WorkOK'
    BY <1>2, <2>1 DEF Forgets, TypeOK, WorkOK
  <2>4. TypeOK'
    BY <1>2, <2>2, <2>3 DEF Forgets, TypeOK, WorkOK
  <2>5. PushedContent'
    BY <1>2 DEF Forgets, TypeOK, IInv, PushedContent, Pushes
  <2> QED
    BY <2>4, <2>5 DEF IInv
<1> QED
  BY <1>1, <1>2 DEF Ends, Crash

\* Somebody else acts.
LEMMA OthersIInv == ASSUME IInv, Others PROVE IInv'
<1> TypeOK
  BY DEF IInv
<1>1. UNCHANGED <<disk, given, command, phase, ledger, content, workVars>>
  BY DEF Others, EditDocument, SharedByOthers, RemovedByHand
<1>2. PushedContent'
  BY <1>1 DEF IInv, PushedContent, Pushes
<1>3. version' \in [Documents -> Contents \cup {Gone}]
  BY DEF Others, EditDocument, SharedByOthers, RemovedByHand, TypeOK
<1>4. RemoteOK'
  <2>1. ASSUME NEW d \in Documents, NEW c \in Contents \cup {Gone}, EditDocument(d, c)
        PROVE  RemoteOK'
    BY <2>1 DEF EditDocument, TypeOK, RemoteOK
  <2>2. ASSUME NEW d \in Documents, SharedByOthers(d) PROVE RemoteOK'
    BY <2>2, EventTypes, MakeEventTypes DEF SharedByOthers
  <2>3. ASSUME NEW e \in Events, RemovedByHand(e) PROVE RemoteOK'
    BY <2>3 DEF RemovedByHand, TypeOK, RemoteOK
  <2> QED
    BY <2>1, <2>2, <2>3 DEF Others
<1>5. removals' \in 0 .. Removals
  <2>1. removals' = removals \/ (removals < Removals /\ removals' = removals + 1)
    BY DEF Others, EditDocument, SharedByOthers, RemovedByHand
  <2> QED
    BY <2>1, ShareAssumption DEF TypeOK
<1> QED
  BY <1>1, <1>2, <1>3, <1>4, <1>5 DEF IInv, TypeOK, RemoteOK

LEMMA NextIInv == IInv /\ [Next]_vars => IInv'
<1> SUFFICES ASSUME IInv, [Next]_vars PROVE IInv'
  OBVIOUS
<1>1. CASE UNCHANGED vars
  BY <1>1 DEF vars, IInv, TypeOK, PushedContent, Pushes
<1>2. CASE Others
  BY <1>2, OthersIInv
<1>3. ASSUME NEW r \in Runs, Run(r) PROVE IInv'
  BY <1>3, StartIInv, EndIInv DEF Run
<1>4. ASSUME NEW r \in Runs, NEW d \in Documents, Worker(r, d) PROVE IInv'
  BY <1>4, LocalIInv, RemoteIInv, RecordIInv DEF Worker, Upsert, RetractOne
<1> QED
  BY <1>1, <1>2, <1>3, <1>4 DEF Next, Settled

(***************************************************************************)
(* The state of every share command, ledger and event stays within its type *)
(* for any number of objects, checkouts, workers and commands.              *)
(***************************************************************************)
THEOREM TypeCorrect == Spec => []TypeOK
<1>1. Spec => []IInv
  BY InitIInv, NextIInv, PTL DEF Spec
<1>2. IInv => TypeOK
  BY DEF IInv
<1> QED
  BY <1>1, <1>2, PTL

-----------------------------------------------------------------------------
(***************************************************************************)
(* One event per object.                                                    *)
(***************************************************************************)
ActiveAlone == \A r, q \in Runs : Active(r) /\ Active(q) => r = q

NoneYet ==
    \A r \in Runs, d \in Documents : FoundNone(r, d) =>
        \A e \in Events : ~(events[e].org = "ours" /\ events[e].doc = d)

EventInv == ActiveAlone /\ NoneYet /\ OneEventPerObject

\* A step that makes no event of ours: what is ours was ours, on the same object.
NoNewEvent ==
    \A e \in Events : events'[e].org = "ours" =>
        events[e].org = "ours" /\ events'[e].doc = events[e].doc

LEMMA InitEventInv == Init => EventInv
BY DEF Init, EventInv, ActiveAlone, NoneYet, OneEventPerObject, Active, FoundNone, At, NoEvent

\* A record, or the next step of a worker, is about one object of one run.
LEMMA ReportedLocal ==
    ASSUME TypeOK, NEW r \in Runs, NEW d \in Documents, NEW a, Reported(r, d, a)
    PROVE  /\ step'[r][d] = "over"
           /\ \A q \in Runs, c \in Documents : q # r \/ c # d =>
                 step'[q][c] = step[q][c] /\ found'[q][c] = found[q][c]
<1>1. /\ step' = [step EXCEPT ![r][d] = "over"]
      /\ found' = [found EXCEPT ![r][d] = {}]
  BY DEF Reported
<1> QED
  BY <1>1 DEF TypeOK

LEMMA GoesLocal ==
    ASSUME TypeOK, NEW r \in Runs, NEW d \in Documents, NEW s, NEW a, Goes(r, d, s, a)
    PROVE  /\ step'[r][d] = s
           /\ \A q \in Runs, c \in Documents : q # r \/ c # d =>
                 step'[q][c] = step[q][c] /\ found'[q][c] = found[q][c]
<1>1. step' = [step EXCEPT ![r][d] = s] /\ found' = found
  BY DEF Goes
<1> QED
  BY <1>1 DEF TypeOK

\* A worker is about one object of one run, and only a search ends in "found".
LEMMA WorkerLocal ==
    ASSUME TypeOK, NEW r \in Runs, NEW d \in Documents, Worker(r, d)
    PROVE  /\ step'[r][d] = "found" => Search(r, d)
           /\ \A q \in Runs, c \in Documents : q # r \/ c # d =>
                 step'[q][c] = step[q][c] /\ found'[q][c] = found[q][c]
           /\ \A q \in Runs : Active(q)' = Active(q)
<1>1. Active(r)
  BY DEF Worker, Upsert, RetractOne, Search, LookupFails, Takes, Ambiguous, CallRefused,
     Unchanged, PublishOnly, Create, Edit, Publish, RetractAbsent, Unpublish,
     RetractUnpublished, Delete, Record, SaveFails, FoundOne, FoundNone, At
<1>2. phase' = phase \/ phase' = [phase EXCEPT ![r] = "aborting"]
  BY DEF Worker, Upsert, RetractOne, Search, LookupFails, Ambiguous, CallRefused,
     Unchanged, PublishOnly, Create, Edit, Publish, RetractAbsent, Unpublish,
     RetractUnpublished, Delete, Record, SaveFails, Remains
<1>3. \A q \in Runs : Active(q)' = Active(q)
  BY <1>1, <1>2 DEF Active, TypeOK
<1>4. AfterWrite(r, d) \in {"publishing", "recording"}
  BY DEF AfterWrite
<1>5. CASE Search(r, d)
  <2>1. step' = [step EXCEPT ![r][d] = "found"] /\ found' = [found EXCEPT ![r][d] = Matched(d)]
    BY <1>5 DEF Search
  <2> QED
    BY <1>3, <1>5, <2>1 DEF TypeOK
<1>6. CASE \E a : Reported(r, d, a)
  BY <1>3, <1>6, ReportedLocal
<1>7. CASE \E s \in {"publishing", "recording", "discarding"} : \E a : Goes(r, d, s, a)
  BY <1>3, <1>7, GoesLocal
<1>8. CASE Create(r, d) /\ ~Unanswered(r, d)
  <2>1. /\ step' = [step EXCEPT ![r][d] = AfterWrite(r, d)]
        /\ found' = [found EXCEPT ![r][d] = {made + 1}]
    BY <1>8 DEF Create
  <2> QED
    BY <1>3, <1>4, <2>1 DEF TypeOK
<1>9. LookupFails(r, d) \/ Ambiguous(r, d) \/ CallRefused(r, d) => \E a : Reported(r, d, a)
  BY DEF LookupFails, Ambiguous, CallRefused
<1>10. Record(r, d) \/ SaveFails(r, d) => \E a : Reported(r, d, a)
  BY DEF Record, SaveFails
<1>11. Upsert(r, d) =>
          \/ \E a : Reported(r, d, a)
          \/ \E s \in {"publishing", "recording", "discarding"} : \E a : Goes(r, d, s, a)
          \/ Create(r, d) /\ ~Unanswered(r, d)
  BY <1>4 DEF Upsert, Unchanged, PublishOnly, Create, Edit, Publish, Unanswered
<1>12. RetractOne(r, d) =>
          \/ \E a : Reported(r, d, a)
          \/ \E s \in {"publishing", "recording", "discarding"} : \E a : Goes(r, d, s, a)
  BY DEF RetractOne, RetractAbsent, Unpublish, RetractUnpublished, Delete, Unanswered
<1> QED
  BY <1>5, <1>6, <1>7, <1>8, <1>9, <1>10, <1>11, <1>12 DEF Worker

\* Only Create makes an event of ours.
LEMMA OnlyCreate ==
    ASSUME TypeOK, [Next]_vars
    PROVE  NoNewEvent \/ \E r \in Runs, d \in Documents : Create(r, d)
<1>1. CASE events' = events
  BY <1>1 DEF NoNewEvent
<1>2. CASE \E d \in Documents : SharedByOthers(d)
  <2>1. PICK d \in Documents : SharedByOthers(d)
    BY <1>2
  <2>2. events' = [events EXCEPT ![made + 1] =
            [org |-> "theirs", doc |-> d, content |-> 1, published |-> FALSE]]
    BY <2>1 DEF SharedByOthers, MakeEvent
  <2> QED
    BY <2>2 DEF NoNewEvent, TypeOK
<1>3. ASSUME NEW e \in Events, events' = [events EXCEPT ![e] = NoEvent] PROVE NoNewEvent
  BY <1>3 DEF NoNewEvent, NoEvent, TypeOK
<1>4. ASSUME NEW e \in Events, NEW c, NEW p, events[e] # NoEvent,
             \/ events' = [events EXCEPT ![e].content = c, ![e].published = p]
             \/ events' = [events EXCEPT ![e].published = p]
      PROVE  NoNewEvent
  <2>1. events[e] \in EventRecords
    BY <1>4 DEF TypeOK
  <2>2. events'[e].org = events[e].org /\ events'[e].doc = events[e].doc
    BY <1>4, <2>1 DEF TypeOK, EventRecords
  <2>3. \A f \in Events : f # e => events'[f] = events[f]
    BY <1>4 DEF TypeOK
  <2> QED
    BY <2>2, <2>3 DEF NoNewEvent
<1>5. Others => \/ events' = events \/ \E d \in Documents : SharedByOthers(d)
                \/ \E e \in Events : events' = [events EXCEPT ![e] = NoEvent]
  BY DEF Others, EditDocument, RemovedByHand
<1>6. (\E r \in Runs : Run(r)) => events' = events
  BY DEF Run, Start, GivesUpTheRest, Ends, Crash, Forgets
<1>7. ASSUME NEW r \in Runs, NEW d \in Documents, Worker(r, d)
      PROVE  \/ events' = events \/ Create(r, d)
             \/ \E e \in Events : \/ Edit(r, d, e) \/ Publish(r, d, e)
                                  \/ Unpublish(r, d, e) \/ Delete(r, d, e)
  BY <1>7 DEF Worker, Upsert, RetractOne, Search, LookupFails, Ambiguous, CallRefused, Unchanged,
     PublishOnly, RetractAbsent, RetractUnpublished, Record, SaveFails
<1>8. ASSUME NEW r \in Runs, NEW d \in Documents, NEW e \in Events,
             \/ Edit(r, d, e) \/ Publish(r, d, e) \/ Unpublish(r, d, e) \/ Delete(r, d, e)
      PROVE  NoNewEvent
  <2>1. CASE Edit(r, d, e)
    BY <1>4, <2>1 DEF Edit
  <2>2. CASE Publish(r, d, e) \/ Unpublish(r, d, e)
    BY <1>4, <2>2 DEF Publish, Unpublish
  <2>3. CASE Delete(r, d, e)
    BY <1>3, <2>3 DEF Delete
  <2> QED
    BY <1>8, <2>1, <2>2, <2>3
<1>9. UNCHANGED vars \/ Settled => events' = events
  BY DEF vars, Settled
<1> QED
  BY <1>1, <1>2, <1>3, <1>5, <1>6, <1>7, <1>8, <1>9 DEF Next

\* A command is active because it was, or because it starts now.
LEMMA ActiveStep ==
    ASSUME TypeOK, [Next]_vars, NEW q \in Runs, Active(q)'
    PROVE  \/ Active(q)
           \/ /\ Alone
              /\ \A r \in Runs : r # q => Active(r)' = Active(r)
<1>1. CASE \E r \in Runs, c \in Commands, selected \in SUBSET Documents : Start(r, c, selected)
  BY <1>1 DEF Start, Active, TypeOK
<1>2. CASE \E r \in Runs : GivesUpTheRest(r) \/ Ends(r) \/ Crash(r)
  BY <1>2 DEF GivesUpTheRest, Ends, Crash, Forgets, Active, TypeOK
<1>3. CASE \E r \in Runs, d \in Documents : Worker(r, d)
  BY <1>3, WorkerLocal
<1>4. CASE Others \/ Settled \/ UNCHANGED vars
  BY <1>4 DEF Others, EditDocument, SharedByOthers, RemovedByHand, Settled, vars, Active
<1> QED
  BY <1>1, <1>2, <1>3, <1>4 DEF Next, Run

\* A worker has found no event because it had, or because it searches now.
LEMMA FoundStep ==
    ASSUME TypeOK, [Next]_vars, NEW q \in Runs, NEW c \in Documents, FoundNone(q, c)'
    PROVE  FoundNone(q, c) \/ (Search(q, c) /\ Matched(c) = {})
<1>0. Active(q)' /\ step'[q][c] = "found" /\ found'[q][c] = {}
  BY DEF FoundNone, At
<1>1. ASSUME NEW r \in Runs, NEW k \in Commands, NEW selected \in SUBSET Documents,
             Start(r, k, selected)
      PROVE  FoundNone(q, c)
  <2>1. q # r
    BY <1>0, <1>1 DEF Start, TypeOK
  <2> QED
    BY <1>0, <1>1, <2>1 DEF Start, TypeOK, FoundNone, At, Active
<1>2. ASSUME NEW r \in Runs, GivesUpTheRest(r) PROVE FoundNone(q, c)
  <2>1. step[q][c] = "found"
    BY <1>0, <1>2 DEF GivesUpTheRest, TypeOK
  <2> QED
    BY <1>0, <1>2, <2>1 DEF GivesUpTheRest, FoundNone, At, Active
<1>3. ASSUME NEW r \in Runs, Forgets(r) PROVE FoundNone(q, c)
  <2>1. q # r
    BY <1>0, <1>3 DEF Forgets, TypeOK
  <2> QED
    BY <1>0, <1>3, <2>1 DEF Forgets, TypeOK, FoundNone, At, Active
<1>4. ASSUME NEW r \in Runs, NEW d \in Documents, Worker(r, d)
      PROVE  FoundNone(q, c) \/ (Search(q, c) /\ Matched(c) = {})
  <2>1. CASE q = r /\ c = d
    <3>1. Search(q, c)
      BY <1>0, <1>4, <2>1, WorkerLocal
    <3>2. found' = [found EXCEPT ![q][c] = Matched(c)]
      BY <3>1 DEF Search
    <3>3. found'[q][c] = Matched(c)
      BY <3>2 DEF TypeOK
    <3> QED
      BY <1>0, <3>1, <3>3
  <2>2. CASE q # r \/ c # d
    BY <1>0, <1>4, <2>2, WorkerLocal DEF FoundNone, At
  <2> QED
    BY <2>1, <2>2
<1>5. CASE Others \/ Settled \/ UNCHANGED vars
  BY <1>0, <1>5 DEF Others, EditDocument, SharedByOthers, RemovedByHand, Settled, vars,
     FoundNone, At, Active
<1> QED
  BY <1>1, <1>2, <1>3, <1>4, <1>5 DEF Next, Run, Ends, Crash

\* A create.
LEMMA CreateStep ==
    ASSUME TypeOK, EventInv, NEW r \in Runs, NEW d \in Documents, Create(r, d)
    PROVE  NoneYet' /\ OneEventPerObject'
<1>1. /\ made + 1 \in Events
      /\ events' = [events EXCEPT ![made + 1] =
              [org |-> "ours", doc |-> d, content |-> content[r][d], published |-> FALSE]]
  BY ShareAssumption DEF Create, MakeEvent, TypeOK, Events
<1>2. /\ events'[made + 1].doc = d
      /\ \A e \in Events : e # made + 1 => events'[e] = events[e]
  BY <1>1 DEF TypeOK
<1>3. \A e \in Events : ~(events[e].org = "ours" /\ events[e].doc = d)
  BY DEF Create, EventInv, NoneYet
<1>4. OneEventPerObject'
  BY <1>2, <1>3 DEF EventInv, OneEventPerObject
<1>5. NoneYet'
  <2> SUFFICES ASSUME NEW q \in Runs, NEW c \in Documents, FoundNone(q, c)'
               PROVE  \A e \in Events : ~(events'[e].org = "ours" /\ events'[e].doc = c)
    BY DEF NoneYet
  <2>1. Worker(r, d) /\ [Next]_vars
    BY DEF Worker, Upsert, Next
  <2>2. step'[r][d] # "found"
    <3>1. ~Search(r, d)
      BY DEF Create, FoundNone, At, Search, Takes
    <3> QED
      BY <2>1, <3>1, WorkerLocal
  <2>3. Active(q) /\ Active(r)
    BY <2>1, WorkerLocal DEF FoundNone, At, Create
  <2>4. q = r /\ c # d
    BY <2>2, <2>3 DEF EventInv, ActiveAlone, FoundNone, At
  <2>5. FoundNone(q, c)
    BY <2>1, <2>4, WorkerLocal DEF FoundNone, At
  <2> QED
    BY <1>2, <2>4, <2>5 DEF EventInv, NoneYet
<1> QED
  BY <1>4, <1>5

LEMMA NextEventInv ==
    ASSUME ~Overlapping, TypeOK, EventInv, [Next]_vars
    PROVE  EventInv'
<1>1. ActiveAlone'
  <2> SUFFICES ASSUME NEW r \in Runs, NEW q \in Runs, Active(r)', Active(q)', r # q
               PROVE  FALSE
    BY DEF ActiveAlone
  <2>1. CASE Active(r) /\ Active(q)
    BY <2>1 DEF EventInv, ActiveAlone
  <2>2. CASE ~Active(r)
    <3>1. Alone /\ Active(q)' = Active(q)
      BY <2>2, ActiveStep
    <3> QED
      BY <3>1 DEF Alone
  <2>3. CASE ~Active(q)
    <3>1. Alone /\ Active(r)' = Active(r)
      BY <2>3, ActiveStep
    <3> QED
      BY <3>1 DEF Alone
  <2> QED
    BY <2>1, <2>2, <2>3
<1>2. NoneYet' /\ OneEventPerObject'
  <2>1. CASE \E r \in Runs, d \in Documents : Create(r, d)
    BY <2>1, CreateStep
  <2>2. CASE NoNewEvent
    <3>1. OneEventPerObject'
      BY <2>2 DEF NoNewEvent, EventInv, OneEventPerObject
    <3>2. ASSUME NEW q \in Runs, NEW c \in Documents, FoundNone(q, c)'
          PROVE  \A e \in Events : ~(events'[e].org = "ours" /\ events'[e].doc = c)
      <4>1. \A e \in Events : ~(events[e].org = "ours" /\ events[e].doc = c)
        BY <3>2, FoundStep DEF EventInv, NoneYet, Matched
      <4> QED
        BY <2>2, <4>1 DEF NoNewEvent
    <3> QED
      BY <3>1, <3>2 DEF NoneYet
  <2> QED
    BY <2>1, <2>2, OnlyCreate
<1> QED
  BY <1>1, <1>2 DEF EventInv

(***************************************************************************)
(* Share commands that do not overlap never leave two events of ours on one  *)
(* object, however many crash, lose an answer, or start without a ledger,   *)
(* and however many workers they have.                                      *)
(***************************************************************************)
THEOREM OneEventAlone ==
    ASSUME ~Overlapping
    PROVE  Spec => []OneEventPerObject
<1>1. Init => IInv /\ EventInv
  BY InitIInv, InitEventInv
<1>2. (IInv /\ EventInv) /\ [Next]_vars => (IInv /\ EventInv)'
  BY NextIInv, NextEventInv DEF IInv
<1>3. Spec => [](IInv /\ EventInv)
  BY <1>1, <1>2, PTL DEF Spec
<1>4. IInv /\ EventInv => OneEventPerObject
  BY DEF EventInv
<1> QED
  BY <1>3, <1>4, PTL
-----------------------------------------------------------------------------
(***************************************************************************)
(* Events of other organisations.                                           *)
(*                                                                         *)
(* A worker calls the instance with the event it found, so what matters is  *)
(* what it may have found: an event that was made, and never a foreign one. *)
(***************************************************************************)
FoundInv ==
    /\ \A e \in Events : e > made => events[e] = NoEvent
    /\ \A r \in Runs, d \in Documents : \A e \in found[r][d] :
          e <= made /\ events[e].org # "theirs"

\* What a step of anybody does to the instance.
InstanceStep ==
    /\ made' = made \/ made' = made + 1
    /\ \A e \in Events : e <= made =>
          events'[e] = events[e] \/ (events[e].org # "theirs" /\ events'[e].org # "theirs")
    /\ \A e \in Events : e > made' => events'[e] = NoEvent

LEMMA MakeEventStep ==
    ASSUME TypeOK, FoundInv, NEW d \in Documents, NEW o \in {"ours", "theirs"}, NEW c, NEW p,
           MakeEvent(d, o, c, p)
    PROVE  /\ InstanceStep
           /\ made \in Nat /\ made' = made + 1 /\ made + 1 \in Events
           /\ events'[made + 1] = [org |-> o, doc |-> d, content |-> c, published |-> p]
           /\ events'[made + 1].org = o /\ events'[made + 1].doc = d
           /\ events[made + 1] = NoEvent
           /\ \A e \in Events : e # made + 1 => events'[e] = events[e]
<1>1. made \in Nat /\ made + 1 \in Events /\ made' = made + 1
  BY ShareAssumption DEF MakeEvent, TypeOK, Events
<1>2. /\ events'[made + 1] = [org |-> o, doc |-> d, content |-> c, published |-> p]
      /\ \A e \in Events : e # made + 1 => events'[e] = events[e]
  BY <1>1 DEF MakeEvent, TypeOK
<1>3. events[made + 1] = NoEvent
  BY <1>1 DEF FoundInv
<1>4. \A e \in Events : e \in Nat
  BY DEF Events
<1>5. InstanceStep
  BY <1>1, <1>2, <1>4 DEF InstanceStep, FoundInv
<1> QED
  BY <1>1, <1>2, <1>3, <1>5

\* A change to one event that is not foreign, and that leaves no event where none was.
LEMMA ChangeStep ==
    ASSUME TypeOK, FoundInv, NEW e \in Events, events[e].org # "theirs",
           made' = made,
           \/ events' = [events EXCEPT ![e] = NoEvent]
           \/ events[e] # NoEvent /\
                 \/ \E c, p : events' = [events EXCEPT ![e].content = c, ![e].published = p]
                 \/ \E p : events' = [events EXCEPT ![e].published = p]
    PROVE  InstanceStep
<1>1. \A f \in Events : f # e => events'[f] = events[f]
  BY DEF TypeOK
<1>2. events'[e] = NoEvent \/ (events[e] # NoEvent /\ events'[e].org = events[e].org)
  <2>1. CASE events' = [events EXCEPT ![e] = NoEvent]
    BY <2>1 DEF TypeOK
  <2>2. CASE events[e] # NoEvent /\
                 \/ \E c, p : events' = [events EXCEPT ![e].content = c, ![e].published = p]
                 \/ \E p : events' = [events EXCEPT ![e].published = p]
    <3>1. events[e] \in EventRecords
      BY <2>2 DEF TypeOK
    <3>2. ASSUME NEW c, NEW p,
                 \/ events' = [events EXCEPT ![e].content = c, ![e].published = p]
                 \/ events' = [events EXCEPT ![e].published = p]
          PROVE  events'[e].org = events[e].org
      BY <3>1, <3>2 DEF TypeOK, EventRecords
    <3> QED
      BY <2>2, <3>2
  <2> QED
    BY <2>1, <2>2
<1>3. NoEvent.org # "theirs"
  BY DEF NoEvent
<1>4. events[e] # NoEvent => ~(e > made)
  BY DEF FoundInv
<1> QED
  BY <1>1, <1>2, <1>3, <1>4 DEF InstanceStep, FoundInv

LEMMA SameInstance ==
    ASSUME FoundInv, UNCHANGED remoteVars
    PROVE  InstanceStep
BY DEF FoundInv, InstanceStep

LEMMA NextInstance ==
    ASSUME TypeOK, FoundInv, [Next]_vars
    PROVE  InstanceStep
<1>1. ASSUME NEW d \in Documents, SharedByOthers(d) PROVE InstanceStep
  BY <1>1, MakeEventStep DEF SharedByOthers
<1>2. ASSUME NEW e \in Events, RemovedByHand(e) PROVE InstanceStep
  BY <1>2, ChangeStep DEF RemovedByHand
<1>3. ASSUME NEW r \in Runs, NEW d \in Documents, Create(r, d) PROVE InstanceStep
  BY <1>3, MakeEventStep DEF Create
<1>4. ASSUME NEW r \in Runs, NEW d \in Documents, NEW e \in Events,
             Edit(r, d, e) \/ Publish(r, d, e) \/ Unpublish(r, d, e) \/ Delete(r, d, e)
      PROVE  InstanceStep
  <2>1. e \in found[r][d]
    BY <1>4 DEF Edit, Publish, Unpublish, Delete, FoundOne
  <2>2. events[e].org # "theirs"
    BY <2>1 DEF FoundInv
  <2>3. CASE Edit(r, d, e)
    BY <2>2, <2>3, ChangeStep DEF Edit
  <2>4. CASE Publish(r, d, e) \/ Unpublish(r, d, e)
    <3>1. /\ made' = made /\ events[e] # NoEvent
          /\ \E p : events' = [events EXCEPT ![e].published = p]
      BY <2>4 DEF Publish, Unpublish
    <3> QED
      BY <2>2, <3>1, ChangeStep
  <2>5. CASE Delete(r, d, e)
    BY <2>2, <2>5, ChangeStep DEF Delete
  <2> QED
    BY <1>4, <2>3, <2>4, <2>5
<1>5. Others => \/ UNCHANGED remoteVars \/ \E d \in Documents : SharedByOthers(d)
                \/ \E e \in Events : RemovedByHand(e)
  BY DEF Others, EditDocument
<1>6. ASSUME NEW r \in Runs, Run(r) PROVE UNCHANGED remoteVars
  BY <1>6 DEF Run, Start, GivesUpTheRest, Ends, Crash, Forgets
<1>7. ASSUME NEW r \in Runs, NEW d \in Documents, Worker(r, d)
      PROVE  \/ UNCHANGED remoteVars \/ Create(r, d)
             \/ \E e \in Events : \/ Edit(r, d, e) \/ Publish(r, d, e)
                                  \/ Unpublish(r, d, e) \/ Delete(r, d, e)
  BY <1>7 DEF Worker, Upsert, RetractOne, Search, LookupFails, Ambiguous, CallRefused, Unchanged,
     PublishOnly, RetractAbsent, RetractUnpublished, Record, SaveFails
<1>8. UNCHANGED vars \/ Settled => UNCHANGED remoteVars
  BY DEF vars, Settled
<1> QED
  BY <1>1, <1>2, <1>3, <1>4, <1>5, <1>6, <1>7, <1>8, SameInstance DEF Next

\* A create that was answered; and the ways a step of a worker may leave it.
CreatesFor(r, d) == Create(r, d) /\ ~Unanswered(r, d)

LEMMA WorkerShape ==
    ASSUME NEW r \in Runs, NEW d \in Documents, Worker(r, d)
    PROVE  \/ Search(r, d)
           \/ CreatesFor(r, d)
           \/ \E a : Reported(r, d, a)
           \/ Pushes(r) /\ \E s \in {"publishing", "recording"} : Goes(r, d, s, "updated")
           \/ At(r, d, "publishing") /\ Goes(r, d, "recording", writes[r][d])
           \/ ~Pushes(r) /\ \E s \in {"recording", "discarding"} : Goes(r, d, s, "retracted")
<1>1. AfterWrite(r, d) \in {"publishing", "recording"}
  BY DEF AfterWrite
<1>2. LookupFails(r, d) \/ Ambiguous(r, d) \/ CallRefused(r, d) => \E a : Reported(r, d, a)
  BY DEF LookupFails, Ambiguous, CallRefused
<1>3. Record(r, d) \/ SaveFails(r, d) => \E a : Reported(r, d, a)
  BY DEF Record, SaveFails
<1>4. Upsert(r, d) =>
          \/ \E a : Reported(r, d, a)
          \/ Pushes(r) /\ \E s \in {"publishing", "recording"} : Goes(r, d, s, "updated")
          \/ At(r, d, "publishing") /\ Goes(r, d, "recording", writes[r][d])
          \/ CreatesFor(r, d)
  BY <1>1 DEF Upsert, Unchanged, PublishOnly, Create, Edit, Publish, Unanswered, CreatesFor
<1>5. RetractOne(r, d) =>
          \/ \E a : Reported(r, d, a)
          \/ ~Pushes(r) /\ \E s \in {"recording", "discarding"} : Goes(r, d, s, "retracted")
  BY DEF RetractOne, RetractAbsent, Unpublish, RetractUnpublished, Delete, Unanswered, Pushes
<1> QED
  BY <1>2, <1>3, <1>4, <1>5 DEF Worker

\* What a worker may have found.
LEMMA FoundFrom ==
    ASSUME TypeOK, [Next]_vars, NEW q \in Runs, NEW c \in Documents
    PROVE  \/ found'[q][c] \subseteq found[q][c]
           \/ Search(q, c) /\ found'[q][c] = Matched(c)
           \/ CreatesFor(q, c) /\ found'[q][c] = {made + 1}
<1>1. ASSUME NEW r \in Runs, Run(r) PROVE found'[q][c] \subseteq found[q][c]
  <2>1. found' = found \/ found' = [found EXCEPT ![r] = [d \in Documents |-> {}]]
    BY <1>1 DEF Run, Start, GivesUpTheRest, Ends, Crash, Forgets
  <2>2. CASE found' = [found EXCEPT ![r] = [d \in Documents |-> {}]]
    <3>1. found'[q] = found[q] \/ found'[q] = [d \in Documents |-> {}]
      BY <2>2 DEF TypeOK
    <3> QED
      BY <3>1
  <2> QED
    BY <2>1, <2>2
<1>2. ASSUME NEW r \in Runs, NEW d \in Documents, Worker(r, d), q # r \/ c # d
      PROVE  found'[q][c] \subseteq found[q][c]
  BY <1>2, WorkerLocal
<1>3. ASSUME Worker(q, c)
      PROVE  \/ found'[q][c] \subseteq found[q][c]
             \/ Search(q, c) /\ found'[q][c] = Matched(c)
             \/ CreatesFor(q, c) /\ found'[q][c] = {made + 1}
  <2>1. ASSUME NEW a, Reported(q, c, a) PROVE found'[q][c] \subseteq found[q][c]
    BY <2>1 DEF Reported, TypeOK
  <2>2. ASSUME NEW s, NEW a, Goes(q, c, s, a) PROVE found'[q][c] \subseteq found[q][c]
    BY <2>2 DEF Goes
  <2>3. ASSUME Search(q, c) PROVE found'[q][c] = Matched(c)
    BY <2>3 DEF Search, TypeOK
  <2>4. ASSUME CreatesFor(q, c) PROVE found'[q][c] = {made + 1}
    BY <2>4 DEF CreatesFor, Create, TypeOK
  <2> QED
    BY <1>3, <2>1, <2>2, <2>3, <2>4, WorkerShape
<1>4. Others \/ Settled \/ UNCHANGED vars => found' = found
  BY DEF Others, EditDocument, SharedByOthers, RemovedByHand, Settled, vars
<1> QED
  BY <1>1, <1>2, <1>3, <1>4 DEF Next

LEMMA InitFoundInv == Init => FoundInv
BY DEF Init, FoundInv, Everywhere

LEMMA NextFoundInv ==
    ASSUME TypeOK, FoundInv, [Next]_vars
    PROVE  FoundInv'
<1>1. InstanceStep
  BY NextInstance
<1>2. /\ made \in Nat /\ made' \in Nat /\ Events \subseteq Nat
  BY <1>1, ShareAssumption DEF InstanceStep, TypeOK, Events
<1>3. ASSUME NEW q \in Runs, NEW c \in Documents, NEW e \in found'[q][c]
      PROVE  e <= made' /\ events'[e].org # "theirs"
  <2>1. CASE e \in found[q][c]
    <3>1. e \in Events /\ e <= made /\ events[e].org # "theirs"
      BY <2>1 DEF FoundInv, TypeOK
    <3> QED
      BY <1>1, <1>2, <3>1 DEF InstanceStep
  <2>2. CASE Search(q, c) /\ e \in Matched(c)
    <3>1. e \in Events /\ events[e].org = "ours"
      BY <2>2 DEF Matched
    <3>2. e <= made
      BY <1>2, <3>1 DEF FoundInv, NoEvent
    <3> QED
      BY <2>2, <3>1, <3>2 DEF Search
  <2>3. CASE CreatesFor(q, c) /\ e = made + 1
    <3>1. MakeEvent(c, "ours", content[q][c], FALSE)
      BY <2>3 DEF CreatesFor, Create
    <3>2. made' = made + 1
      BY <3>1, MakeEventStep
    <3>3. events'[made + 1].org = "ours"
      BY <3>1, MakeEventStep
    <3> QED
      BY <1>2, <2>3, <3>2, <3>3
  <2> QED
    BY <2>1, <2>2, <2>3, FoundFrom
<1> QED
  BY <1>1, <1>3 DEF FoundInv, InstanceStep

LEMMA Foundation == Spec => [](IInv /\ FoundInv)
<1>1. Init => IInv /\ FoundInv
  BY InitIInv, InitFoundInv
<1>2. (IInv /\ FoundInv) /\ [Next]_vars => (IInv /\ FoundInv)'
  BY NextIInv, NextFoundInv DEF IInv
<1> QED
  BY <1>1, <1>2, PTL DEF Spec

(***************************************************************************)
(* No share command edits, publishes, unpublishes or deletes an event of    *)
(* another organisation on an object it shares, overlapping with others or  *)
(* not: an event a worker found is one of ours, and stays so.               *)
(***************************************************************************)
THEOREM ForeignKept == Spec => ForeignEventsKept
<1>1. ASSUME TypeOK, FoundInv, [Next]_vars, NEW e \in Events, events[e].org = "theirs"
      PROVE  events'[e] = events[e]
  <2>1. e <= made
    <3>1. events[e] # NoEvent
      BY <1>1 DEF NoEvent
    <3>2. e \in Nat /\ made \in Nat
      BY <1>1, ShareAssumption DEF Events, TypeOK
    <3> QED
      BY <1>1, <3>1, <3>2 DEF FoundInv
  <2> QED
    BY <1>1, <2>1, NextInstance DEF InstanceStep
<1>2. (IInv /\ FoundInv) /\ [Next]_vars =>
          [\A e \in Events : events[e].org = "theirs" => events'[e] = events[e]]_events
  BY <1>1 DEF IInv
<1> QED
  BY <1>2, Foundation, PTL DEF Spec, ForeignEventsKept
-----------------------------------------------------------------------------
(***************************************************************************)
(* The ledger file.                                                         *)
(*                                                                         *)
(* While one command runs, nobody else writes the ledger of its checkout,   *)
(* and its own workers write it from the ledger they share in memory.       *)
(***************************************************************************)
\* What a worker will have done fits the command it works for.
WritesInv ==
    \A r \in Runs, d \in Documents :
        /\ step[r][d] \in {"publishing", "recording"} /\ Pushes(r) =>
              writes[r][d] \in {"created", "updated"}
        /\ step[r][d] = "publishing" => Pushes(r)
        /\ step[r][d] = "recording" /\ ~Pushes(r) => writes[r][d] = "retracted"
        /\ step[r][d] = "discarding" => ~Pushes(r) /\ writes[r][d] = "retracted"

LedgerInv ==
    /\ \A r \in Runs : phase[r] = "running" /\ command[r].at \in Workspaces =>
          disk[command[r].at] = ledger[r]
    /\ \A r \in Runs, d \in Documents :
          /\ report[r][d] \in {"created", "updated"} => ledger[r][d] = Synced(content[r][d])
          /\ report[r][d] = "retracted" => ledger[r][d].state # "synced"
          /\ phase[r] = "none" => report[r][d] = "none"

\* What a step of one worker leaves to the others.
LEMMA WorkerFrame ==
    ASSUME TypeOK, NEW r \in Runs, NEW d \in Documents, Worker(r, d)
    PROVE  /\ Active(r)
           /\ UNCHANGED <<version, removals, given, command, content>>
           /\ \A q \in Runs : q # r => phase'[q] = phase[q] /\ ledger'[q] = ledger[q]
           /\ \A q \in Runs, c \in Documents : q # r \/ c # d =>
                 /\ ledger'[q][c] = ledger[q][c]
                 /\ up'[q][c] = up[q][c] /\ writes'[q][c] = writes[q][c]
                 /\ report'[q][c] = report[q][c]
<1>1. /\ Active(r)
      /\ UNCHANGED <<version, removals, given, command, content>>
  <2>1. Search(r, d) \/ LookupFails(r, d) \/ Ambiguous(r, d) \/ CallRefused(r, d)
            \/ Record(r, d) \/ SaveFails(r, d) =>
          Active(r) /\ UNCHANGED <<version, removals, given, command, content>>
    BY DEF Search, LookupFails, Takes, Ambiguous, CallRefused, Record, SaveFails, Remains, At
  <2>2. Upsert(r, d) => Active(r) /\ Remains
    BY DEF Upsert, Unchanged, PublishOnly, Create, Edit, Publish, FoundOne, FoundNone, At
  <2>3. RetractOne(r, d) => Active(r) /\ Remains
    BY DEF RetractOne, RetractAbsent, Unpublish, RetractUnpublished, Delete, FoundOne, FoundNone,
       At
  <2> QED
    BY <2>1, <2>2, <2>3 DEF Worker, Remains
<1>2. \/ phase' = phase /\ ledger' = ledger
      \/ /\ phase' = phase \/ phase' = [phase EXCEPT ![r] = "aborting"]
         /\ ledger' = [ledger EXCEPT ![r] = Put(@, d, NewLine(r, d))]
  <2>1. Record(r, d) \/ SaveFails(r, d) =>
            /\ phase' = phase \/ phase' = [phase EXCEPT ![r] = "aborting"]
            /\ ledger' = [ledger EXCEPT ![r] = Put(@, d, NewLine(r, d))]
    BY DEF Record, SaveFails
  <2>2. Search(r, d) \/ LookupFails(r, d) \/ Ambiguous(r, d) \/ CallRefused(r, d)
            \/ Upsert(r, d) \/ RetractOne(r, d) => phase' = phase /\ ledger' = ledger
    BY DEF Search, LookupFails, Ambiguous, CallRefused, Remains, Upsert, Unchanged, PublishOnly,
       Create, Edit, Publish, RetractOne, RetractAbsent, Unpublish, RetractUnpublished, Delete
  <2> QED
    BY <2>1, <2>2 DEF Worker
<1>3. /\ \A q \in Runs : q # r => phase'[q] = phase[q] /\ ledger'[q] = ledger[q]
      /\ \A q \in Runs, c \in Documents : q # r \/ c # d => ledger'[q][c] = ledger[q][c]
  <2>1. \A q \in Runs : q # r => phase'[q] = phase[q] /\ ledger'[q] = ledger[q]
    BY <1>2 DEF TypeOK
  <2>2. \A c \in Documents : c # d => Put(ledger[r], d, NewLine(r, d))[c] = ledger[r][c]
    BY DEF Put, TypeOK, Ledgers
  <2>3. ledger'[r] = ledger[r] \/ ledger'[r] = Put(ledger[r], d, NewLine(r, d))
    BY <1>2 DEF TypeOK
  <2> QED
    BY <2>1, <2>2, <2>3
<1>4. \A q \in Runs, c \in Documents : q # r \/ c # d =>
          /\ up'[q][c] = up[q][c] /\ writes'[q][c] = writes[q][c]
          /\ report'[q][c] = report[q][c]
  <2>1. CASE Search(r, d)
    BY <2>1 DEF Search, TypeOK
  <2>2. ASSUME NEW a, Reported(r, d, a)
        PROVE  \A q \in Runs, c \in Documents : q # r \/ c # d =>
                  /\ up'[q][c] = up[q][c] /\ writes'[q][c] = writes[q][c]
                  /\ report'[q][c] = report[q][c]
    <3>1. /\ up' = [up EXCEPT ![r][d] = {}] /\ writes' = [writes EXCEPT ![r][d] = "none"]
          /\ report' = [report EXCEPT ![r][d] = a]
      BY <2>2 DEF Reported
    <3> QED
      BY <3>1 DEF TypeOK
  <2>3. ASSUME NEW s, NEW a, Goes(r, d, s, a)
        PROVE  \A q \in Runs, c \in Documents : q # r \/ c # d =>
                  /\ up'[q][c] = up[q][c] /\ writes'[q][c] = writes[q][c]
                  /\ report'[q][c] = report[q][c]
    BY <2>3 DEF Goes, TypeOK
  <2>4. CASE CreatesFor(r, d)
    <3>1. writes' = [writes EXCEPT ![r][d] = "created"] /\ UNCHANGED <<up, report>>
      BY <2>4 DEF CreatesFor, Create
    <3> QED
      BY <3>1 DEF TypeOK
  <2> QED
    BY <2>1, <2>2, <2>3, <2>4, WorkerShape
<1> QED
  BY <1>1, <1>3, <1>4

\* What a worker's step does to its own object's step, line and record.
LEMMA WorkerWrites ==
    ASSUME TypeOK, NEW r \in Runs, NEW d \in Documents, Worker(r, d)
    PROVE  \/ step'[r][d] \in {"found", "over"}
           \/ /\ Pushes(r) /\ step'[r][d] \in {"publishing", "recording"}
              /\ writes'[r][d] \in {"created", "updated"}
           \/ /\ step[r][d] = "publishing" /\ step'[r][d] = "recording"
              /\ writes'[r][d] = writes[r][d]
           \/ /\ ~Pushes(r) /\ step'[r][d] \in {"recording", "discarding"}
              /\ writes'[r][d] = "retracted"
<1>1. CASE Search(r, d)
  BY <1>1 DEF Search, TypeOK
<1>2. CASE \E a : Reported(r, d, a)
  BY <1>2, ReportedLocal
<1>3. CASE CreatesFor(r, d)
  <2>1. /\ Pushes(r) /\ step' = [step EXCEPT ![r][d] = AfterWrite(r, d)]
        /\ writes' = [writes EXCEPT ![r][d] = "created"]
    BY <1>3 DEF CreatesFor, Create
  <2>2. AfterWrite(r, d) \in {"publishing", "recording"}
    BY DEF AfterWrite
  <2>3. step'[r][d] = AfterWrite(r, d) /\ writes'[r][d] = "created"
    BY <2>1 DEF TypeOK
  <2> QED
    BY <2>1, <2>2, <2>3
<1>4. ASSUME NEW s, NEW a, Goes(r, d, s, a) PROVE step'[r][d] = s /\ writes'[r][d] = a
  BY <1>4 DEF Goes, TypeOK
<1> QED
  BY <1>1, <1>2, <1>3, <1>4, WorkerShape DEF At

LEMMA WorkerReports ==
    ASSUME TypeOK, NEW r \in Runs, NEW d \in Documents, Worker(r, d)
    PROVE  \/ /\ UNCHANGED <<disk, ledger, phase>>
              /\ \/ report'[r][d] = report[r][d]
                 \/ report'[r][d] \in {"failed", "nothing"}
                 \/ Unchanged(r, d) /\ report'[r][d] = "unchanged"
           \/ SaveFails(r, d) /\ report'[r][d] = "none"
           \/ Record(r, d) /\ report'[r][d] = writes[r][d]
<1>1. ASSUME NEW a, Reported(r, d, a) PROVE report'[r][d] = a
  BY <1>1 DEF Reported, TypeOK
<1>2. ASSUME NEW s, NEW a, Goes(r, d, s, a) PROVE report'[r][d] = report[r][d]
  BY <1>2 DEF Goes
<1>3. CreatesFor(r, d) \/ Search(r, d) => report' = report
  BY DEF CreatesFor, Create, Search
<1>4. Record(r, d) => report'[r][d] = writes[r][d]
  BY <1>1 DEF Record
<1>5. SaveFails(r, d) => report'[r][d] = "none"
  BY <1>1 DEF SaveFails
<1>6. Remains => UNCHANGED <<disk, ledger, phase>>
  BY DEF Remains
<1>7. LookupFails(r, d) \/ Ambiguous(r, d) \/ CallRefused(r, d) =>
          Remains /\ report'[r][d] = "failed"
  BY <1>1 DEF LookupFails, Ambiguous, CallRefused
<1>8. Upsert(r, d) =>
          Remains /\ \/ report'[r][d] = report[r][d]
                     \/ report'[r][d] = "failed"
                     \/ Unchanged(r, d) /\ report'[r][d] = "unchanged"
  BY <1>1, <1>2, <1>3 DEF Upsert, Unchanged, PublishOnly, Create, Edit, Publish, Unanswered,
     CreatesFor
<1>9. RetractOne(r, d) =>
          Remains /\ \/ report'[r][d] = report[r][d]
                     \/ report'[r][d] \in {"failed", "nothing"}
  BY <1>1, <1>2 DEF RetractOne, RetractAbsent, Unpublish, RetractUnpublished, Delete, Unanswered
<1>10. Search(r, d) => Remains
  BY DEF Search
<1> QED
  BY <1>3, <1>4, <1>5, <1>6, <1>7, <1>8, <1>9, <1>10 DEF Worker

LEMMA NextWritesInv ==
    ASSUME TypeOK, WritesInv, [Next]_vars
    PROVE  WritesInv'
<1>1. ASSUME NEW r \in Runs, NEW d \in Documents, Worker(r, d) PROVE WritesInv'
  <2>1. \A q \in Runs : Pushes(q)' = Pushes(q)
    BY <1>1, WorkerFrame DEF Pushes
  <2>2. \A q \in Runs, c \in Documents : q # r \/ c # d =>
            step'[q][c] = step[q][c] /\ writes'[q][c] = writes[q][c]
    BY <1>1, WorkerFrame, WorkerLocal
  <2> QED
    BY <1>1, <2>1, <2>2, WorkerWrites DEF WritesInv
<1>2. ASSUME NEW r \in Runs, NEW k \in Commands, NEW selected \in SUBSET Documents,
             Start(r, k, selected)
      PROVE  WritesInv'
  <2>1. \A q \in Runs, c \in Documents :
            \/ step'[q][c] \in {"waiting", "idle"}
            \/ step'[q][c] = step[q][c] /\ Pushes(q)' = Pushes(q)
    BY <1>2 DEF Start, TypeOK, Pushes
  <2>2. writes' = writes
    BY <1>2 DEF Start
  <2> QED
    BY <2>1, <2>2 DEF WritesInv
<1>3. ASSUME NEW r \in Runs, GivesUpTheRest(r) PROVE WritesInv'
  <2>1. \A q \in Runs, c \in Documents :
            step'[q][c] = "over" \/ step'[q][c] = step[q][c]
    BY <1>3 DEF GivesUpTheRest, TypeOK
  <2>2. writes' = writes /\ \A q \in Runs : Pushes(q)' = Pushes(q)
    BY <1>3 DEF GivesUpTheRest, Pushes
  <2> QED
    BY <2>1, <2>2 DEF WritesInv
<1>4. ASSUME NEW r \in Runs, Forgets(r) PROVE WritesInv'
  <2>1. \A c \in Documents : step'[r][c] = "idle"
    BY <1>4 DEF Forgets, TypeOK
  <2>2. \A q \in Runs : q # r =>
            step'[q] = step[q] /\ writes'[q] = writes[q] /\ Pushes(q)' = Pushes(q)
    BY <1>4 DEF Forgets, TypeOK, Pushes
  <2> QED
    BY <2>1, <2>2 DEF WritesInv
<1>5. CASE Others \/ Settled \/ UNCHANGED vars
  BY <1>5 DEF Others, EditDocument, SharedByOthers, RemovedByHand, Settled, vars, WritesInv, Pushes
<1> QED
  BY <1>1, <1>2, <1>3, <1>4, <1>5 DEF Next, Run, Ends, Crash

\* A worker puts its line in the ledger.
LEMMA PutLine ==
    ASSUME TypeOK, WritesInv, NEW r \in Runs, NEW d \in Documents, Record(r, d) \/ SaveFails(r, d)
    PROVE  /\ ledger'[r][d] = NewLine(r, d)
           /\ writes[r][d] \in {"created", "updated"} => NewLine(r, d) = Synced(content[r][d])
           /\ writes[r][d] = "retracted" => NewLine(r, d).state # "synced"
           /\ writes[r][d] # "none"
<1>1. ledger' = [ledger EXCEPT ![r] = Put(@, d, NewLine(r, d))]
  BY DEF Record, SaveFails
<1>2. ledger'[r][d] = NewLine(r, d)
  BY <1>1 DEF TypeOK, Ledgers, Put
<1>3. CASE step[r][d] = "recording" /\ Pushes(r)
  BY <1>2, <1>3 DEF WritesInv, NewLine, LineOf
<1>4. CASE step[r][d] = "recording" /\ ~Pushes(r)
  <2>1. writes[r][d] = "retracted"
    BY <1>4 DEF WritesInv
  <2>2. NewLine(r, d).state = "retracted"
    BY <1>4 DEF NewLine, LineOf, Retracted
  <2> QED
    BY <1>2, <2>1, <2>2
<1>5. CASE step[r][d] = "discarding"
  <2>1. writes[r][d] = "retracted"
    BY <1>5 DEF WritesInv
  <2>2. NewLine(r, d).state = "none"
    BY <1>5 DEF NewLine, NoLine
  <2> QED
    BY <1>2, <2>1, <2>2
<1> QED
  BY <1>3, <1>4, <1>5 DEF Record, SaveFails, At

LEMMA WorkerLedgerInv ==
    ASSUME TypeOK, WritesInv, LedgerInv, ActiveAlone,
           NEW r \in Runs, NEW d \in Documents, Worker(r, d)
    PROVE  LedgerInv'
<1>1. /\ Active(r) /\ UNCHANGED <<command, content>>
      /\ \A q \in Runs : q # r => phase'[q] = phase[q] /\ ledger'[q] = ledger[q]
      /\ \A q \in Runs, c \in Documents : q # r \/ c # d =>
            ledger'[q][c] = ledger[q][c] /\ report'[q][c] = report[q][c]
      /\ \A q \in Runs : Active(q)' = Active(q)
  BY WorkerFrame, WorkerLocal
<1>2. \A q \in Runs : q # r => phase[q] = "none"
  BY <1>1 DEF ActiveAlone, Active, TypeOK
<1>3. phase'[r] # "none"
  BY <1>1 DEF Active
<1>4. phase'[r] = "running" /\ command[r].at \in Workspaces => disk'[command[r].at] = ledger'[r]
  <2>1. CASE UNCHANGED <<disk, ledger, phase>>
    BY <2>1 DEF LedgerInv
  <2>2. CASE SaveFails(r, d)
    BY <2>2 DEF SaveFails, TypeOK
  <2>3. CASE Record(r, d)
    <3>1. phase' = phase /\ ((ledger'[r] = ledger[r] /\ UNCHANGED disk) \/ Saves(r))
      BY <2>3 DEF Record
    <3>2. CASE ledger'[r] = ledger[r] /\ UNCHANGED disk
      BY <3>1, <3>2 DEF LedgerInv
    <3>3. CASE Saves(r)
      BY <3>3 DEF Saves, TypeOK
    <3> QED
      BY <3>1, <3>2, <3>3
  <2> QED
    BY <2>1, <2>2, <2>3, WorkerReports
<1>5. /\ report'[r][d] \in {"created", "updated"} => ledger'[r][d] = Synced(content[r][d])
      /\ report'[r][d] = "retracted" => ledger'[r][d].state # "synced"
  <2>1. CASE UNCHANGED <<disk, ledger, phase>> /\ report'[r][d] = report[r][d]
    BY <2>1 DEF LedgerInv
  <2>2. CASE report'[r][d] \in {"failed", "nothing", "unchanged", "none"}
    BY <2>2
  <2>3. CASE Record(r, d) /\ report'[r][d] = writes[r][d]
    BY <2>3, PutLine
  <2> QED
    BY <2>1, <2>2, <2>3, WorkerReports
<1> QED
  BY <1>1, <1>2, <1>3, <1>4, <1>5 DEF LedgerInv

LEMMA StartLedgerInv ==
    ASSUME TypeOK, LedgerInv, NEW r \in Runs, NEW k \in Commands, NEW selected \in SUBSET Documents,
           Start(r, k, selected)
    PROVE  LedgerInv'
<1>1. /\ phase[r] = "none" /\ report' = report /\ disk' = disk
      /\ command'[r] = k /\ ledger'[r] = Loaded(k) /\ phase'[r] = "running"
  BY DEF Start, TypeOK
<1>2. \A q \in Runs : q # r => /\ phase'[q] = phase[q] /\ command'[q] = command[q]
                               /\ ledger'[q] = ledger[q] /\ content'[q] = content[q]
  BY DEF Start, TypeOK
<1>3. \A c \in Documents : report'[r][c] = "none"
  BY <1>1 DEF LedgerInv
<1>4. k.at \in Workspaces => disk'[k.at] = ledger'[r]
  BY <1>1 DEF Loaded
<1> QED
  BY <1>1, <1>2, <1>3, <1>4 DEF LedgerInv

LEMMA ForgetsLedgerInv ==
    ASSUME TypeOK, LedgerInv, NEW r \in Runs, Forgets(r)
    PROVE  LedgerInv'
<1>1. phase'[r] = "none" /\ disk' = disk /\ \A c \in Documents : report'[r][c] = "none"
  BY DEF Forgets, TypeOK
<1>2. \A q \in Runs : q # r => /\ phase'[q] = phase[q] /\ command'[q] = command[q]
                               /\ ledger'[q] = ledger[q] /\ content'[q] = content[q]
                               /\ report'[q] = report[q]
  BY DEF Forgets, TypeOK
<1> QED
  BY <1>1, <1>2 DEF LedgerInv

LEMMA NextLedgerInv ==
    ASSUME TypeOK, WritesInv, LedgerInv, ActiveAlone, [Next]_vars
    PROVE  LedgerInv'
<1>1. CASE Others \/ Settled \/ UNCHANGED vars
  BY <1>1 DEF Others, EditDocument, SharedByOthers, RemovedByHand, Settled, vars, LedgerInv
<1>2. ASSUME NEW r \in Runs, GivesUpTheRest(r) PROVE LedgerInv'
  BY <1>2 DEF GivesUpTheRest, LedgerInv
<1> QED
  BY <1>1, <1>2, WorkerLedgerInv, StartLedgerInv, ForgetsLedgerInv DEF Next, Run, Ends, Crash

SoloInv == IInv /\ FoundInv /\ EventInv /\ WritesInv /\ LedgerInv

LEMMA SoloSafety == ASSUME ~Overlapping PROVE Spec => []SoloInv
<1>1. Init => SoloInv
  <2> SUFFICES ASSUME Init PROVE SoloInv
    OBVIOUS
  <2>1. WritesInv /\ LedgerInv
    BY DEF Init, WritesInv, LedgerInv, Everywhere
  <2> QED
    BY <2>1, InitIInv, InitFoundInv, InitEventInv DEF SoloInv
<1>2. SoloInv /\ [Next]_vars => SoloInv'
  BY NextIInv, NextFoundInv, NextEventInv, NextWritesInv, NextLedgerInv DEF SoloInv, IInv, EventInv
<1> QED
  BY <1>1, <1>2, PTL DEF Spec

(***************************************************************************)
(* While a command runs alone, the ledger file of its checkout agrees with  *)
(* every record its workers wrote: in whatever order they took the lock, no  *)
(* worker's save loses the line of another.                                 *)
(***************************************************************************)
THEOREM LedgerKeepsRecords ==
    ASSUME ~Overlapping
    PROVE  Spec => []LedgerHoldsRecords
<1>1. SoloInv => LedgerHoldsRecords
  BY DEF SoloInv, LedgerInv, LedgerHoldsRecords
<1> QED
  BY <1>1, SoloSafety, PTL
-----------------------------------------------------------------------------
(***************************************************************************)
(* What a record says.                                                      *)
(*                                                                         *)
(* WorkInv is what a worker knows of its object's events at each step; it   *)
(* stays true because no other command is active. A push may skip the write *)
(* when its ledger says that the bytes are synced, so BytesInv bounds every *)
(* line of every ledger, the stale ones included: a synced line is never     *)
(* ahead of our event, of the catalogue or of the object being pushed, and  *)
(* our event is never ahead of the object being pushed. A line and a pushed  *)
(* object with the same bytes then have our event between them.             *)
(***************************************************************************)
Knows(r, d) ==
    /\ step[r][d] = "found" => /\ found[r][d] = Ours(d)
                               /\ up[r][d] = {e \in Ours(d) : events[e].published}
    /\ step[r][d] \in {"publishing", "recording"} /\ Pushes(r) =>
          \E e \in Events : /\ found[r][d] = {e} /\ Ours(d) = {e}
                            /\ events[e].content = content[r][d]
                            /\ step[r][d] = "recording" /\ Publishes(r) => events[e].published
    /\ step[r][d] = "recording" /\ ~Pushes(r) => Withdrawn(r, d)
    /\ step[r][d] = "discarding" => Ours(d) = {}

WorkInv == \A r \in Runs, d \in Documents : Active(r) => Knows(r, d)

Pushing(r, d) == Active(r) /\ Pushes(r) /\ step[r][d] # "idle"

\* The lines that are not ahead of the instance, the catalogue, or who pushes.
SafeLines(d) ==
    {line \in Lines : line.state = "synced" =>
        /\ \A e \in Ours(d) : line.content <= events[e].content
        /\ version[d] # Gone => line.content <= version[d]
        /\ \A r \in Runs : Pushing(r, d) => line.content <= content[r][d]}

BytesInv ==
    \A d \in Documents :
        /\ \A w \in Workspaces : disk[w][d] \in SafeLines(d)
        /\ \A r \in Runs : ledger[r][d] \in SafeLines(d)
        /\ \A e \in Ours(d) : version[d] # Gone => events[e].content <= version[d]
        /\ \A r \in Runs : Pushing(r, d) =>
              /\ \A e \in Ours(d) : events[e].content <= content[r][d]
              /\ version[d] # Gone => content[r][d] <= version[d]

\* A step leaves the events of ours on an object alone.
SameOurs(d) ==
    /\ Ours(d)' = Ours(d)
    /\ \A e \in Ours(d) : events'[e] = events[e]

LEMMA KnowsFrame ==
    ASSUME NEW r \in Runs, NEW d \in Documents, Knows(r, d), SameOurs(d),
           command'[r] = command[r], content'[r][d] = content[r][d], step'[r][d] = step[r][d],
           found'[r][d] = found[r][d], up'[r][d] = up[r][d]
    PROVE  Knows(r, d)'
<1>1. Pushes(r)' = Pushes(r) /\ Publishes(r)' = Publishes(r)
  BY DEF Pushes, Publishes
<1>2. CASE step[r][d] = "found"
  <2>1. found[r][d] = Ours(d) /\ up[r][d] = {e \in Ours(d) : events[e].published}
    BY <1>2 DEF Knows
  <2>2. {e \in Ours(d) : events[e].published}' = {e \in Ours(d) : events[e].published}
    BY DEF SameOurs
  <2>3. found'[r][d] = Ours(d)' /\ up'[r][d] = {e \in Ours(d) : events[e].published}'
    BY <2>1, <2>2 DEF SameOurs
  <2> QED
    BY <1>2, <2>3 DEF Knows
<1>3. CASE step[r][d] \in {"publishing", "recording"} /\ Pushes(r)
  <2>1. PICK e \in Events :
            /\ found[r][d] = {e} /\ Ours(d) = {e} /\ events[e].content = content[r][d]
            /\ step[r][d] = "recording" /\ Publishes(r) => events[e].published
    BY <1>3 DEF Knows
  <2>2. Ours(d)' = {e} /\ events'[e] = events[e]
    BY <2>1 DEF SameOurs
  <2> QED
    BY <1>1, <1>3, <2>1, <2>2 DEF Knows
<1>4. CASE step[r][d] = "recording" /\ ~Pushes(r)
  <2>1. Withdrawn(r, d)'
    BY <1>4 DEF Knows, Withdrawn, SameOurs
  <2> QED
    BY <1>1, <1>4, <2>1 DEF Knows
<1>5. CASE step[r][d] = "discarding"
  BY <1>5 DEF Knows, SameOurs
<1>6. CASE /\ step[r][d] \notin {"found", "discarding"}
           /\ step[r][d] \in {"publishing", "recording"} => ~Pushes(r) /\ step[r][d] # "recording"
  BY <1>1, <1>6 DEF Knows
<1> QED
  BY <1>2, <1>3, <1>4, <1>5, <1>6

LEMMA SameEvents ==
    ASSUME events' = events, NEW d \in Documents
    PROVE  SameOurs(d)
BY DEF SameOurs, Ours

\* A new event of somebody, or a change of one event that keeps whose and what it is.
LEMMA MakeElsewhere ==
    ASSUME TypeOK, FoundInv, NEW d \in Documents, NEW o \in {"ours", "theirs"}, NEW x, NEW p,
           MakeEvent(d, o, x, p), NEW c \in Documents, o = "ours" => c # d
    PROVE  SameOurs(c)
<1>1. /\ made + 1 \in Events /\ events[made + 1] = NoEvent
      /\ events'[made + 1].org = o /\ events'[made + 1].doc = d
      /\ \A e \in Events : e # made + 1 => events'[e] = events[e]
  BY MakeEventStep
<1>2. made + 1 \notin Ours(c) /\ made + 1 \notin Ours(c)'
  BY <1>1 DEF Ours, NoEvent
<1> QED
  BY <1>1, <1>2 DEF SameOurs, Ours

LEMMA ChangeElsewhere ==
    ASSUME TypeOK, NEW e \in Events, NEW d \in Documents, e \in Ours(d),
           NEW x, NEW p,
           \/ events' = [events EXCEPT ![e] = NoEvent]
           \/ events' = [events EXCEPT ![e].content = x, ![e].published = p]
           \/ events' = [events EXCEPT ![e].published = p]
    PROVE  \A c \in Documents : c # d => SameOurs(c)
<1>1. events[e] \in EventRecords /\ events[e].org = "ours" /\ events[e].doc = d
  BY DEF Ours, TypeOK, NoEvent
<1>2. \A f \in Events : f # e => events'[f] = events[f]
  BY DEF TypeOK
<1>3. events'[e] = NoEvent \/ events'[e].doc = d
  BY <1>1 DEF TypeOK, EventRecords
<1> SUFFICES ASSUME NEW c \in Documents, c # d PROVE SameOurs(c)
  OBVIOUS
<1>4. e \notin Ours(c) /\ e \notin Ours(c)'
  BY <1>1, <1>3 DEF Ours, NoEvent
<1> QED
  BY <1>2, <1>4 DEF SameOurs, Ours

\* The fields of an event of ours that is edited, published or unpublished.
LEMMA EditedEvent ==
    ASSUME TypeOK, NEW d \in Documents, NEW e \in Ours(d), NEW x, NEW p,
           events' = [events EXCEPT ![e].content = x, ![e].published = p]
    PROVE  events'[e].content = x /\ events'[e].published = p /\ Ours(d)' = Ours(d)
<1>1. e \in Events /\ events[e] \in EventRecords
  BY DEF Ours, TypeOK, NoEvent
<1>2. events'[e].content = x /\ events'[e].published = p
  BY <1>1 DEF TypeOK, EventRecords
<1>3. events'[e].org = events[e].org /\ events'[e].doc = events[e].doc
  BY <1>1 DEF TypeOK, EventRecords
<1>4. \A f \in Events : f # e => events'[f] = events[f]
  BY DEF TypeOK
<1> QED
  BY <1>1, <1>2, <1>3, <1>4 DEF Ours

LEMMA PublishedEvent ==
    ASSUME TypeOK, NEW d \in Documents, NEW e \in Ours(d), NEW p,
           events' = [events EXCEPT ![e].published = p]
    PROVE  /\ events'[e].content = events[e].content /\ events'[e].published = p
           /\ Ours(d)' = Ours(d)
<1>1. e \in Events /\ events[e] \in EventRecords
  BY DEF Ours, TypeOK, NoEvent
<1>2. events'[e].content = events[e].content /\ events'[e].published = p
  BY <1>1 DEF TypeOK, EventRecords
<1>3. events'[e].org = events[e].org /\ events'[e].doc = events[e].doc
  BY <1>1 DEF TypeOK, EventRecords
<1>4. \A f \in Events : f # e => events'[f] = events[f]
  BY DEF TypeOK
<1> QED
  BY <1>1, <1>2, <1>3, <1>4 DEF Ours

\* What a worker's step does to the events of ours, and what the worker knows then.
WorkerEffect(r, d) ==
    /\ \A c \in Documents : c # d => SameOurs(c)
    /\ \A e \in Ours(d)' :
          \/ e \in Ours(d) /\ events'[e].content = events[e].content
          \/ Pushing(r, d) /\ events'[e].content = content[r][d]
    /\ Knows(r, d)'

WorkerInv == IInv /\ FoundInv /\ WritesInv /\ WorkInv /\ BytesInv

LEMMA KnowsNothing ==
    ASSUME NEW r \in Runs, NEW d \in Documents, step'[r][d] \in {"idle", "waiting", "over"}
    PROVE  Knows(r, d)'
BY DEF Knows

LEMMA LocalEffect ==
    ASSUME TypeOK, NEW r \in Runs, NEW d \in Documents, Knows(r, d)', events' = events
    PROVE  WorkerEffect(r, d)
<1>1. \A c \in Documents : SameOurs(c)
  BY SameEvents
<1> QED
  BY <1>1 DEF WorkerEffect, SameOurs

\* A worker ends with its object, and has not changed an event.
LEMMA ReportedEffect ==
    ASSUME TypeOK, NEW r \in Runs, NEW d \in Documents, NEW a, Reported(r, d, a), events' = events
    PROVE  WorkerEffect(r, d)
BY ReportedLocal, KnowsNothing, LocalEffect

LEMMA SearchEffect ==
    ASSUME TypeOK, NEW r \in Runs, NEW d \in Documents, Search(r, d)
    PROVE  WorkerEffect(r, d)
<1>1. events' = events
  BY DEF Search
<1>2. /\ step'[r][d] = "found" /\ found'[r][d] = Matched(d)
      /\ up'[r][d] = {e \in Matched(d) : events[e].published}
  BY DEF Search, TypeOK
<1>3. Ours(d)' = Matched(d) /\ Ours(d) = Matched(d)
  BY <1>1 DEF Ours, Matched
<1>4. {e \in Ours(d) : events[e].published}' = {e \in Matched(d) : events[e].published}
  BY <1>1, <1>3
<1>5. Knows(r, d)'
  BY <1>2, <1>3, <1>4 DEF Knows
<1> QED
  BY <1>1, <1>5, LocalEffect

\* An object to push has one event and its ledger line says that the bytes are there.
LEMMA InStepHolds ==
    ASSUME WorkerInv, NEW r \in Runs, NEW d \in Documents, NEW e \in Events,
           Pushes(r), FoundOne(r, d, e), InStep(r, d)
    PROVE  Ours(d) = {e} /\ events[e].content = content[r][d]
<1>1. TypeOK /\ Pushing(r, d)
  BY DEF WorkerInv, IInv, FoundOne, At, Pushing
<1>2. Ours(d) = {e}
  BY DEF FoundOne, At, WorkerInv, WorkInv, Knows
<1>3. ledger[r][d].state = "synced" /\ ledger[r][d].content = content[r][d]
  BY DEF InStep, Synced
<1>4. ledger[r][d] \in SafeLines(d)
  BY DEF WorkerInv, BytesInv
<1>5. content[r][d] <= events[e].content
  BY <1>2, <1>3, <1>4 DEF SafeLines
<1>6. events[e].content <= content[r][d]
  BY <1>1, <1>2 DEF WorkerInv, BytesInv
<1>7. events[e].content \in Nat /\ content[r][d] \in Nat
  <2>1. events[e] \in EventRecords
    BY <1>1, <1>2 DEF Ours, TypeOK, NoEvent
  <2> QED
    BY <1>1, <2>1 DEF EventRecords, Contents, Gone, TypeOK
<1> QED
  BY <1>2, <1>5, <1>6, <1>7

LEMMA PublishOnlyEffect ==
    ASSUME WorkerInv, NEW r \in Runs, NEW d \in Documents, PublishOnly(r, d)
    PROVE  WorkerEffect(r, d)
<1>1. PICK e \in Events : FoundOne(r, d, e)
  BY DEF PublishOnly
<1>2. /\ Pushes(r) /\ InStep(r, d) /\ events' = events /\ found' = found
      /\ command' = command /\ content' = content
      /\ step' = [step EXCEPT ![r][d] = "publishing"]
  BY DEF PublishOnly, Goes, Remains
<1>3. TypeOK /\ found[r][d] = {e}
  BY <1>1 DEF WorkerInv, IInv, FoundOne
<1>4. Ours(d) = {e} /\ events[e].content = content[r][d]
  BY <1>1, <1>2, InStepHolds
<1>5. step'[r][d] = "publishing"
  BY <1>2, <1>3 DEF TypeOK
<1>6. Ours(d)' = {e}
  BY <1>2, <1>4 DEF Ours
<1>7. Knows(r, d)'
  BY <1>2, <1>3, <1>4, <1>5, <1>6 DEF Knows
<1> QED
  BY <1>2, <1>3, <1>7, LocalEffect

LEMMA CreateEffect ==
    ASSUME WorkerInv, NEW r \in Runs, NEW d \in Documents, Create(r, d)
    PROVE  WorkerEffect(r, d)
<1>1. /\ TypeOK /\ FoundInv /\ Pushes(r) /\ Active(r) /\ step[r][d] = "found"
      /\ found[r][d] = {} /\ command' = command /\ content' = content
      /\ MakeEvent(d, "ours", content[r][d], FALSE)
  BY DEF Create, FoundNone, At, WorkerInv, IInv, Remains
<1>2. Ours(d) = {}
  BY <1>1 DEF WorkerInv, WorkInv, Knows
<1>3. /\ made + 1 \in Events /\ events[made + 1] = NoEvent
      /\ \A e \in Events : e # made + 1 => events'[e] = events[e]
  BY <1>1, MakeEventStep
<1>4. events'[made + 1] =
          [org |-> "ours", doc |-> d, content |-> content[r][d], published |-> FALSE]
  BY <1>1, <1>3 DEF MakeEvent, TypeOK
<1>5. Ours(d)' = {made + 1}
  BY <1>2, <1>3, <1>4 DEF Ours
<1>6. \A c \in Documents : c # d => SameOurs(c)
  BY <1>1, MakeElsewhere
<1>7. events'[made + 1].content = content[r][d]
  BY <1>4
<1>8. Knows(r, d)'
  <2>1. CASE Unanswered(r, d)
    BY <1>1, <2>1, ReportedLocal, KnowsNothing DEF Unanswered
  <2>2. CASE ~Unanswered(r, d)
    <3>1. /\ step' = [step EXCEPT ![r][d] = AfterWrite(r, d)]
          /\ found' = [found EXCEPT ![r][d] = {made + 1}]
      BY <2>2 DEF Create
    <3>2. step'[r][d] = AfterWrite(r, d) /\ found'[r][d] = {made + 1}
      BY <1>1, <3>1 DEF TypeOK
    <3>3. /\ AfterWrite(r, d) \in {"publishing", "recording"}
          /\ AfterWrite(r, d) = "recording" => ~Publishes(r)
      BY DEF AfterWrite, PublishesWritten
    <3>4. Pushes(r)' /\ Publishes(r)' = Publishes(r)
      BY <1>1 DEF Pushes, Publishes
    <3> QED
      BY <1>1, <1>3, <1>5, <1>7, <3>2, <3>3, <3>4 DEF Knows
  <2> QED
    BY <2>1, <2>2
<1>9. Pushing(r, d)
  BY <1>1 DEF Pushing
<1> QED
  BY <1>5, <1>6, <1>7, <1>8, <1>9 DEF WorkerEffect

\* A worker that is not done with its object after a call: what Goes leaves of Knows.
LEMMA GoesOn ==
    ASSUME TypeOK, NEW r \in Runs, NEW d \in Documents, NEW s, NEW a, Goes(r, d, s, a), Remains
    PROVE  /\ step'[r][d] = s /\ found'[r][d] = found[r][d] /\ content'[r][d] = content[r][d]
           /\ Pushes(r)' = Pushes(r) /\ Publishes(r)' = Publishes(r) /\ command' = command
<1>1. step'[r][d] = s
  BY GoesLocal
<1> QED
  BY <1>1 DEF Goes, Remains, Pushes, Publishes

LEMMA EditEffect ==
    ASSUME WorkerInv, NEW r \in Runs, NEW d \in Documents, NEW e \in Events, Edit(r, d, e)
    PROVE  WorkerEffect(r, d)
<1>1. /\ TypeOK /\ Pushes(r) /\ Active(r) /\ step[r][d] = "found" /\ found[r][d] = {e} /\ Remains
      /\ events' = [events EXCEPT ![e].content = content[r][d], ![e].published = FALSE]
  BY DEF Edit, FoundOne, At, WorkerInv, IInv
<1>2. Ours(d) = {e}
  BY <1>1 DEF WorkerInv, WorkInv, Knows
<1>3. events'[e].content = content[r][d] /\ Ours(d)' = {e}
  <2>1. e \in Ours(d)
    BY <1>2
  <2>2. /\ TypeOK
        /\ events' = [events EXCEPT ![e].content = content[r][d], ![e].published = FALSE]
    BY <1>1
  <2>3. events'[e].content = content[r][d] /\ Ours(d)' = Ours(d)
    BY <2>1, <2>2, EditedEvent
  <2> QED
    BY <1>2, <2>3
<1>4. \A c \in Documents : c # d => SameOurs(c)
  BY <1>1, <1>2, ChangeElsewhere
<1>5. Knows(r, d)'
  <2>1. CASE Unanswered(r, d)
    BY <1>1, <2>1, ReportedLocal, KnowsNothing DEF Unanswered
  <2>2. CASE Goes(r, d, AfterWrite(r, d), "updated")
    <3>1. /\ AfterWrite(r, d) \in {"publishing", "recording"}
          /\ AfterWrite(r, d) = "recording" => ~Publishes(r)
      BY DEF AfterWrite, PublishesWritten
    <3>2. /\ step'[r][d] = AfterWrite(r, d) /\ found'[r][d] = {e}
          /\ content'[r][d] = content[r][d]
          /\ Pushes(r)' /\ Publishes(r)' = Publishes(r)
      BY <1>1, <2>2, GoesOn
    <3> QED
      BY <1>3, <3>1, <3>2 DEF Knows
  <2> QED
    BY <2>1, <2>2 DEF Edit
<1>6. Pushing(r, d)
  BY <1>1 DEF Pushing
<1> QED
  BY <1>3, <1>4, <1>5, <1>6 DEF WorkerEffect

LEMMA PublishEffect ==
    ASSUME WorkerInv, NEW r \in Runs, NEW d \in Documents, NEW e \in Events, Publish(r, d, e)
    PROVE  WorkerEffect(r, d)
<1>1. /\ TypeOK /\ Active(r) /\ step[r][d] = "publishing" /\ found[r][d] = {e} /\ Remains
      /\ events' = [events EXCEPT ![e].published = TRUE]
  BY DEF Publish, At, WorkerInv, IInv
<1>2. Pushes(r)
  BY <1>1 DEF WorkerInv, WritesInv
<1>3. Ours(d) = {e} /\ events[e].content = content[r][d]
  BY <1>1, <1>2 DEF WorkerInv, WorkInv, Knows
<1>4. events'[e].content = events[e].content /\ events'[e].published /\ Ours(d)' = {e}
  BY <1>1, <1>3, PublishedEvent
<1>5. \A c \in Documents : c # d => SameOurs(c)
  BY <1>1, <1>3, ChangeElsewhere
<1>6. Knows(r, d)'
  <2>1. CASE Unanswered(r, d)
    BY <1>1, <2>1, ReportedLocal, KnowsNothing DEF Unanswered
  <2>2. CASE Goes(r, d, "recording", writes[r][d])
    <3>1. /\ step'[r][d] = "recording" /\ found'[r][d] = {e} /\ content'[r][d] = content[r][d]
          /\ Pushes(r)'
      BY <1>1, <1>2, <2>2, GoesOn
    <3> QED
      BY <1>3, <1>4, <3>1 DEF Knows
  <2> QED
    BY <2>1, <2>2 DEF Publish
<1> QED
  BY <1>3, <1>4, <1>5, <1>6 DEF WorkerEffect

LEMMA RetractAbsentEffect ==
    ASSUME WorkerInv, NEW r \in Runs, NEW d \in Documents, RetractAbsent(r, d)
    PROVE  WorkerEffect(r, d)
<1>1. /\ TypeOK /\ ~Pushes(r) /\ Active(r) /\ step[r][d] = "found" /\ found[r][d] = {} /\ Remains
      /\ events' = events
      /\ Reported(r, d, "nothing") \/ Goes(r, d, "discarding", "retracted")
  BY DEF RetractAbsent, FoundNone, At, WorkerInv, IInv
<1>2. CASE Reported(r, d, "nothing")
  BY <1>1, <1>2, ReportedEffect
<1>3. CASE Goes(r, d, "discarding", "retracted")
  <2>1. Ours(d)' = {}
    BY <1>1 DEF WorkerInv, WorkInv, Knows, Ours
  <2>2. step'[r][d] = "discarding"
    BY <1>1, <1>3, GoesOn
  <2> QED
    BY <1>1, <2>1, <2>2, LocalEffect DEF Knows
<1> QED
  BY <1>1, <1>2, <1>3

\* The event is unpublished; a retract keeps it.
LEMMA UnpublishedEffect ==
    ASSUME WorkerInv, NEW r \in Runs, NEW d \in Documents,
           RetractUnpublished(r, d) \/ \E e \in Events : Unpublish(r, d, e)
    PROVE  WorkerEffect(r, d)
<1>1. PICK e \in Events :
          \/ Unpublish(r, d, e)
          \/ RetractUnpublished(r, d) /\ FoundOne(r, d, e)
  BY DEF RetractUnpublished
<1>2. /\ TypeOK /\ command[r].mode = "retract" /\ Active(r) /\ step[r][d] = "found"
      /\ found[r][d] = {e} /\ Remains
  BY <1>1 DEF Unpublish, RetractUnpublished, FoundOne, At, WorkerInv, IInv
<1>3. Ours(d) = {e} /\ up[r][d] = {f \in Ours(d) : events[f].published}
  BY <1>2 DEF WorkerInv, WorkInv, Knows
<1>4. /\ Ours(d)' = {e} /\ ~events'[e].published /\ events'[e].content = events[e].content
      /\ \A c \in Documents : c # d => SameOurs(c)
  <2>1. CASE Unpublish(r, d, e)
    <3>1. events' = [events EXCEPT ![e].published = FALSE]
      BY <2>1 DEF Unpublish
    <3> QED
      BY <1>2, <1>3, <3>1, PublishedEvent, ChangeElsewhere
  <2>2. CASE RetractUnpublished(r, d)
    <3>1. events' = events /\ up[r][d] = {}
      BY <2>2 DEF RetractUnpublished
    <3>2. \A c \in Documents : SameOurs(c)
      BY <3>1, SameEvents
    <3> QED
      BY <1>3, <3>1, <3>2 DEF SameOurs
  <2> QED
    BY <1>1, <2>1, <2>2
<1>5. Knows(r, d)'
  <2>1. CASE Unanswered(r, d)
    BY <1>2, <2>1, ReportedLocal, KnowsNothing DEF Unanswered
  <2>2. CASE Goes(r, d, "recording", "retracted")
    <3>1. step'[r][d] = "recording" /\ ~Pushes(r)' /\ command' = command
      BY <1>2, <2>2, GoesOn DEF Pushes
    <3>2. Withdrawn(r, d)'
      BY <1>2, <1>4, <3>1 DEF Withdrawn
    <3> QED
      BY <3>1, <3>2 DEF Knows
  <2> QED
    BY <1>1, <2>1, <2>2 DEF Unpublish, RetractUnpublished
<1> QED
  BY <1>3, <1>4, <1>5 DEF WorkerEffect

LEMMA DeleteEffect ==
    ASSUME WorkerInv, NEW r \in Runs, NEW d \in Documents, NEW e \in Events, Delete(r, d, e)
    PROVE  WorkerEffect(r, d)
<1>1. /\ TypeOK /\ Active(r) /\ step[r][d] = "found" /\ found[r][d] = {e} /\ Remains
      /\ events' = [events EXCEPT ![e] = NoEvent]
  BY DEF Delete, FoundOne, At, WorkerInv, IInv
<1>2. Ours(d) = {e}
  BY <1>1 DEF WorkerInv, WorkInv, Knows
<1>3. Ours(d)' = {}
  <2>1. events'[e] = NoEvent /\ \A f \in Events : f # e => events'[f] = events[f]
    BY <1>1 DEF TypeOK
  <2> QED
    BY <1>2, <2>1 DEF Ours, NoEvent
<1>4. \A c \in Documents : c # d => SameOurs(c)
  BY <1>1, <1>2, ChangeElsewhere
<1>5. Knows(r, d)'
  <2>1. CASE Unanswered(r, d)
    BY <1>1, <2>1, ReportedLocal, KnowsNothing DEF Unanswered
  <2>2. CASE Goes(r, d, "discarding", "retracted")
    <3>1. step'[r][d] = "discarding"
      BY <1>1, <2>2, GoesOn
    <3> QED
      BY <1>3, <3>1 DEF Knows
  <2> QED
    BY <2>1, <2>2 DEF Delete
<1> QED
  BY <1>3, <1>4, <1>5 DEF WorkerEffect

LEMMA EveryEffect ==
    ASSUME WorkerInv, NEW r \in Runs, NEW d \in Documents, Worker(r, d)
    PROVE  WorkerEffect(r, d)
<1>0. TypeOK
  BY DEF WorkerInv, IInv
<1>1. CASE Search(r, d)
  BY <1>0, <1>1, SearchEffect
<1>2. CASE \/ LookupFails(r, d) \/ Ambiguous(r, d) \/ CallRefused(r, d)
           \/ Unchanged(r, d) \/ Record(r, d) \/ SaveFails(r, d)
  <2>1. events' = events /\ \E a : Reported(r, d, a)
    BY <1>2 DEF LookupFails, Ambiguous, CallRefused, Unchanged, Record, SaveFails
  <2> QED
    BY <1>0, <2>1, ReportedEffect
<1>3. CASE PublishOnly(r, d) \/ Create(r, d) \/ \E e \in Events : Edit(r, d, e) \/ Publish(r, d, e)
  BY <1>3, PublishOnlyEffect, CreateEffect, EditEffect, PublishEffect
<1>4. CASE RetractOne(r, d)
  BY <1>4, RetractAbsentEffect, UnpublishedEffect, DeleteEffect DEF RetractOne
<1> QED
  BY <1>1, <1>2, <1>3, <1>4 DEF Worker, Upsert

LEMMA NextWorkInv ==
    ASSUME ~Overlapping, WorkerInv, ActiveAlone, [Next]_vars
    PROVE  WorkInv'
<1> TypeOK /\ FoundInv /\ WorkInv
  BY DEF WorkerInv, IInv
<1> SUFFICES ASSUME NEW q \in Runs, NEW c \in Documents, Active(q)' PROVE Knows(q, c)'
  BY DEF WorkInv
<1>1. ASSUME NEW r \in Runs, NEW d \in Documents, Worker(r, d) PROVE Knows(q, c)'
  <2>1. Active(q) /\ q = r
    BY <1>1, WorkerLocal, WorkerFrame DEF ActiveAlone
  <2>2. WorkerEffect(r, d)
    BY <1>1, EveryEffect
  <2>3. CASE c = d
    BY <2>1, <2>2, <2>3 DEF WorkerEffect
  <2>4. CASE c # d
    <3>1. SameOurs(c) /\ Knows(q, c)
      BY <2>1, <2>2, <2>4 DEF WorkerEffect, WorkInv
    <3>2. /\ command' = command /\ content' = content /\ step'[q][c] = step[q][c]
          /\ found'[q][c] = found[q][c] /\ up'[q][c] = up[q][c]
      BY <1>1, <2>4, WorkerLocal, WorkerFrame
    <3> QED
      BY <3>1, <3>2, KnowsFrame
  <2> QED
    BY <2>3, <2>4
<1>2. ASSUME NEW r \in Runs, NEW k \in Commands, NEW selected \in SUBSET Documents,
             Start(r, k, selected)
      PROVE  Knows(q, c)'
  <2>1. q = r
    BY <1>2 DEF Start, Alone, Active, TypeOK
  <2>2. step'[q][c] \in {"waiting", "idle"}
    BY <1>2, <2>1 DEF Start, TypeOK
  <2> QED
    BY <2>2, KnowsNothing
<1>3. ASSUME NEW r \in Runs, GivesUpTheRest(r) PROVE Knows(q, c)'
  <2>1. /\ UNCHANGED <<events, command, content, found, up, phase>>
        /\ step'[q][c] = step[q][c] \/ step'[q][c] = "over"
    BY <1>3 DEF GivesUpTheRest, TypeOK
  <2>2. SameOurs(c) /\ Active(q)
    BY <2>1, SameEvents DEF Active
  <2> QED
    BY <2>1, <2>2, KnowsFrame, KnowsNothing DEF WorkInv
<1>4. ASSUME NEW r \in Runs, Forgets(r) PROVE Knows(q, c)'
  <2>1. q # r /\ events' = events
    BY <1>4 DEF Forgets, Active, TypeOK
  <2>2. /\ phase'[q] = phase[q] /\ command'[q] = command[q] /\ content'[q] = content[q]
        /\ step'[q] = step[q] /\ found'[q] = found[q] /\ up'[q] = up[q]
    BY <1>4, <2>1 DEF Forgets, TypeOK
  <2>3. SameOurs(c) /\ Active(q)
    BY <2>1, <2>2, SameEvents DEF Active
  <2> QED
    BY <2>2, <2>3, KnowsFrame DEF WorkInv
<1>5. CASE Others \/ Settled \/ UNCHANGED vars
  <2>1. UNCHANGED <<command, content, step, found, up, phase>>
    BY <1>5 DEF Others, EditDocument, SharedByOthers, RemovedByHand, Settled, vars
  <2>2. Active(q)
    BY <2>1 DEF Active
  <2>3. SameOurs(c)
    <3>1. ASSUME NEW d \in Documents, SharedByOthers(d) PROVE SameOurs(c)
      BY <3>1, MakeElsewhere DEF SharedByOthers
    <3>2. ASSUME NEW e \in Events, RemovedByHand(e) PROVE FALSE
      BY <2>2, <3>2 DEF RemovedByHand, Alone
    <3>3. \/ events' = events \/ \E d \in Documents : SharedByOthers(d)
          \/ \E e \in Events : RemovedByHand(e)
      BY <1>5 DEF Others, EditDocument, Settled, vars
    <3> QED
      BY <3>1, <3>2, <3>3, SameEvents
  <2> QED
    BY <2>1, <2>2, <2>3, KnowsFrame DEF WorkInv
<1> QED
  BY <1>1, <1>2, <1>3, <1>4, <1>5 DEF Next, Run, Ends, Crash

\* How far the bytes of an object get in one step.
Grows(d) ==
    /\ \A e \in Ours(d)' :
          \/ e \in Ours(d) /\ events'[e].content = events[e].content
          \/ \E r \in Runs : Pushing(r, d) /\ events'[e].content = content[r][d]
    /\ version'[d] # Gone => version[d] # Gone /\ version[d] <= version'[d]
    /\ \A r \in Runs : Pushing(r, d)' =>
          \/ Pushing(r, d) /\ content'[r][d] = content[r][d]
          \/ version[d] # Gone /\ content'[r][d] = version[d]

LEMMA SameGrows ==
    ASSUME TypeOK, NEW d \in Documents, SameOurs(d), version' = version,
           \A r \in Runs : Pushing(r, d)' => Pushing(r, d) /\ content'[r][d] = content[r][d]
    PROVE  Grows(d)
<1>1. version[d] \in Nat
  BY DEF TypeOK, Contents, Gone
<1> QED
  BY <1>1 DEF Grows, SameOurs

LEMMA NextGrows ==
    ASSUME ~Reverts, WorkerInv, [Next]_vars, NEW c \in Documents
    PROVE  Grows(c)
<1> TypeOK /\ FoundInv
  BY DEF WorkerInv, IInv
<1>0. version[c] \in Nat /\ version[c] <= version[c]
  BY DEF TypeOK, Contents, Gone
<1>1. ASSUME NEW r \in Runs, NEW d \in Documents, Worker(r, d) PROVE Grows(c)
  <2>1. WorkerEffect(r, d)
    BY <1>1, EveryEffect
  <2>2. version' = version /\ content' = content
    BY <1>1, WorkerFrame
  <2>3. \A q \in Runs : Pushing(q, c)' => Pushing(q, c)
    <3>1. \A q \in Runs : Active(q)' = Active(q) /\ Pushes(q)' = Pushes(q)
      BY <1>1, WorkerLocal, WorkerFrame DEF Pushes
    <3>2. step[r][d] # "idle"
      BY <1>1 DEF Worker, Upsert, RetractOne, Search, LookupFails, Takes, Ambiguous, CallRefused,
         Unchanged, PublishOnly, Create, Edit, Publish, RetractAbsent, Unpublish,
         RetractUnpublished, Delete, Record, SaveFails, FoundOne, FoundNone, At
    <3>3. \A q \in Runs : q # r \/ c # d => step'[q][c] = step[q][c]
      BY <1>1, WorkerLocal
    <3> QED
      BY <3>1, <3>2, <3>3 DEF Pushing
  <2>4. \A e \in Ours(c)' :
          \/ e \in Ours(c) /\ events'[e].content = events[e].content
          \/ \E q \in Runs : Pushing(q, c) /\ events'[e].content = content[q][c]
    BY <2>1 DEF WorkerEffect, SameOurs
  <2> QED
    BY <1>0, <2>2, <2>3, <2>4 DEF Grows
<1>2. ASSUME NEW r \in Runs, NEW k \in Commands, NEW selected \in SUBSET Documents,
             Start(r, k, selected)
      PROVE  Grows(c)
  <2>1. version' = version /\ events' = events
    BY <1>2 DEF Start
  <2>2. SameOurs(c)
    BY <2>1, SameEvents
  <2>3. ASSUME NEW q \in Runs, q # r, Pushing(q, c)'
        PROVE  Pushing(q, c) /\ content'[q][c] = content[q][c]
    BY <1>2, <2>3 DEF Start, Pushing, Pushes, Active, TypeOK
  <2>4. ASSUME Pushing(r, c)' PROVE version[c] # Gone /\ content'[r][c] = version[c]
    <3>1. k.mode = "push" /\ c \in selected
      BY <1>2, <2>4 DEF Start, Pushing, Pushes, TypeOK
    <3> QED
      BY <1>2, <3>1 DEF Start, Selectable, TypeOK
  <2> QED
    BY <1>0, <2>1, <2>2, <2>3, <2>4 DEF Grows, SameOurs
<1>3. ASSUME NEW r \in Runs, GivesUpTheRest(r) PROVE Grows(c)
  <2>1. /\ version' = version /\ events' = events /\ content' = content /\ phase' = phase
        /\ command' = command
        /\ \A q \in Runs : step'[q][c] = step[q][c] \/ step[q][c] = "waiting"
    BY <1>3 DEF GivesUpTheRest, TypeOK
  <2>2. \A q \in Runs : Pushing(q, c)' => Pushing(q, c)
    BY <2>1 DEF Pushing, Active, Pushes
  <2> QED
    BY <2>1, <2>2, SameEvents, SameGrows
<1>4. ASSUME NEW r \in Runs, Forgets(r) PROVE Grows(c)
  <2>1. version' = version /\ events' = events
    BY <1>4 DEF Forgets
  <2>2. ~Pushing(r, c)'
    BY <1>4 DEF Forgets, Pushing, Active, TypeOK
  <2>3. \A q \in Runs : q # r => /\ Pushing(q, c)' => Pushing(q, c)
                                 /\ content'[q][c] = content[q][c]
    BY <1>4 DEF Forgets, Pushing, Active, Pushes, TypeOK
  <2> QED
    BY <2>1, <2>2, <2>3, SameEvents, SameGrows
<1>5. CASE Others
  <2>1. /\ UNCHANGED <<command, content, step, phase>>
        /\ \A q \in Runs : Pushing(q, c)' => Pushing(q, c)
    BY <1>5 DEF Others, EditDocument, SharedByOthers, RemovedByHand, Pushing, Active, Pushes
  <2>2. ASSUME NEW d \in Documents, NEW x \in Contents \cup {Gone}, EditDocument(d, x)
        PROVE  Grows(c)
    <3>1. version'[c] # Gone => version[c] # Gone /\ version[c] <= version'[c]
      <4>1. /\ version' = [version EXCEPT ![d] = x]
            /\ version[d] # Gone /\ (x > version[d] \/ x = Gone)
        BY <2>2 DEF EditDocument
      <4>2. version[d] \in Nat /\ x \in Nat
        BY DEF TypeOK, Contents, Gone
      <4> QED
        BY <1>0, <4>1, <4>2 DEF TypeOK
    <3>2. SameOurs(c)
      BY <2>2, SameEvents DEF EditDocument
    <3> QED
      BY <2>1, <3>1, <3>2 DEF Grows, SameOurs
  <2>3. ASSUME NEW d \in Documents, SharedByOthers(d) PROVE Grows(c)
    <3>1. SameOurs(c) /\ version' = version
      BY <2>3, MakeElsewhere DEF SharedByOthers
    <3> QED
      BY <2>1, <3>1, SameGrows
  <2>4. ASSUME NEW e \in Events, RemovedByHand(e) PROVE Grows(c)
    <3>1. version' = version /\ events' = [events EXCEPT ![e] = NoEvent]
      BY <2>4 DEF RemovedByHand
    <3>2. \A f \in Ours(c)' : f \in Ours(c) /\ events'[f] = events[f]
      BY <3>1 DEF Ours, NoEvent, TypeOK
    <3> QED
      BY <1>0, <2>1, <3>1, <3>2 DEF Grows
  <2> QED
    BY <1>5, <2>2, <2>3, <2>4 DEF Others
<1>6. CASE Settled \/ UNCHANGED vars
  <2>1. UNCHANGED <<version, events, command, content, step, phase>>
    BY <1>6 DEF Settled, vars
  <2>2. \A q \in Runs : Pushing(q, c)' => Pushing(q, c)
    BY <2>1 DEF Pushing, Active, Pushes
  <2> QED
    BY <2>1, <2>2, SameEvents, SameGrows
<1> QED
  BY <1>1, <1>2, <1>3, <1>4, <1>5, <1>6 DEF Next, Run, Ends, Crash

LEMMA Bytes ==
    ASSUME TypeOK, NEW d \in Documents
    PROVE  /\ version[d] \in Nat
           /\ \A r \in Runs : content[r][d] \in Nat
           /\ \A e \in Ours(d) : e \in Events /\ events[e].content \in Nat
           /\ \A line \in Lines : line.content \in Nat
<1>1. \A e \in Ours(d) : e \in Events /\ events[e] \in EventRecords
  BY DEF Ours, TypeOK, NoEvent
<1> QED
  BY <1>1 DEF TypeOK, Contents, Gone, EventRecords, Lines

LEMMA SafeStaysSafe ==
    ASSUME WorkerInv, TypeOK', NEW d \in Documents, Grows(d)
    PROVE  SafeLines(d) \subseteq SafeLines(d)'
<1> TypeOK
  BY DEF WorkerInv, IInv
<1> SUFFICES ASSUME NEW line \in SafeLines(d), line.state = "synced"
             PROVE  /\ \A e \in Ours(d)' : line.content <= events'[e].content
                    /\ version'[d] # Gone => line.content <= version'[d]
                    /\ \A r \in Runs : Pushing(r, d)' => line.content <= content'[r][d]
  BY DEF SafeLines
<1>1. /\ line \in Lines /\ line.content \in Nat
      /\ version[d] \in Nat /\ version'[d] \in Nat
  BY Bytes DEF SafeLines, TypeOK, Contents, Gone
<1>2. ASSUME NEW e \in Ours(d)' PROVE line.content <= events'[e].content
  BY <1>1, <1>2 DEF Grows, SafeLines
<1>3. ASSUME version'[d] # Gone PROVE line.content <= version'[d]
  BY <1>1, <1>3 DEF Grows, SafeLines
<1>4. ASSUME NEW r \in Runs, Pushing(r, d)' PROVE line.content <= content'[r][d]
  BY <1>1, <1>4 DEF Grows, SafeLines
<1> QED
  BY <1>2, <1>3, <1>4

LEMMA NoLineSafe == \A d : NoLine \in SafeLines(d)
BY LineTypes DEF SafeLines, NoLine

\* The line a worker records.
LEMMA NewLineSafe ==
    ASSUME WorkerInv, ActiveAlone, NEW r \in Runs, NEW d \in Documents,
           Record(r, d) \/ SaveFails(r, d)
    PROVE  NewLine(r, d) \in SafeLines(d)
<1> TypeOK /\ WritesInv
  BY DEF WorkerInv, IInv
<1>1. Active(r) /\ step[r][d] \in {"recording", "discarding"}
  BY DEF Record, SaveFails, At
<1>2. CASE step[r][d] = "discarding"
  BY <1>2, NoLineSafe DEF NewLine
<1>3. CASE step[r][d] = "recording" /\ ~Pushes(r)
  <2>1. NewLine(r, d).state = "retracted"
    BY <1>3 DEF NewLine, LineOf, Retracted
  <2>2. NewLine(r, d) \in Lines
    <3>1. content[r][d] \in Contents \cup {Gone} /\ ledger[r][d] \in Lines
      BY DEF TypeOK, Ledgers
    <3>2. ledger[r][d].content \in Contents \cup {Gone}
      BY <3>1 DEF Lines
    <3> QED
      BY <3>1, <3>2, LineTypes DEF NewLine, LineOf
  <2> QED
    BY <2>1, <2>2 DEF SafeLines
<1>4. CASE step[r][d] = "recording" /\ Pushes(r)
  <2>1. NewLine(r, d) = Synced(content[r][d])
    BY <1>4 DEF NewLine, LineOf
  <2>2. NewLine(r, d) \in Lines
    BY <2>1, LineTypes DEF TypeOK
  <2>3. NewLine(r, d).content = content[r][d]
    BY <2>1 DEF Synced
  <2>4. \A e \in Ours(d) : content[r][d] <= events[e].content
    <3>1. \A e \in Ours(d) : events[e].content = content[r][d]
      BY <1>1, <1>4 DEF WorkerInv, WorkInv, Knows
    <3>2. content[r][d] <= content[r][d]
      BY Bytes
    <3> QED
      BY <3>1, <3>2
  <2>5. version[d] # Gone => content[r][d] <= version[d]
    BY <1>1, <1>4 DEF WorkerInv, BytesInv, Pushing
  <2>6. ASSUME NEW q \in Runs, Pushing(q, d) PROVE content[r][d] <= content[q][d]
    <3>1. q = r
      BY <1>1, <2>6 DEF Pushing, ActiveAlone
    <3>2. content[r][d] <= content[r][d]
      BY Bytes
    <3> QED
      BY <3>1, <3>2
  <2> QED
    BY <2>2, <2>3, <2>4, <2>5, <2>6 DEF SafeLines
<1> QED
  BY <1>1, <1>2, <1>3, <1>4

\* Every line a step leaves in a ledger was in one, or was just recorded.
LEMMA LinesFrom ==
    ASSUME WorkerInv, ActiveAlone, [Next]_vars, NEW c \in Documents
    PROVE  /\ \A q \in Runs : ledger'[q][c] \in SafeLines(c)
           /\ \A w \in Workspaces : disk'[w][c] \in SafeLines(c)
<1> TypeOK /\ WritesInv
  BY DEF WorkerInv, IInv
<1>0. /\ \A q \in Runs : ledger[q][c] \in SafeLines(c)
      /\ \A w \in Workspaces : disk[w][c] \in SafeLines(c)
  BY DEF WorkerInv, BytesInv
<1>1. ASSUME NEW r \in Runs, NEW d \in Documents, Record(r, d) \/ SaveFails(r, d)
      PROVE  /\ \A q \in Runs : ledger'[q][c] \in SafeLines(c)
             /\ \A w \in Workspaces : disk'[w][c] \in SafeLines(c)
  <2>1. ledger'[r][d] = NewLine(r, d)
    BY <1>1, PutLine
  <2>2. \A q \in Runs : q # r \/ c # d => ledger'[q][c] = ledger[q][c]
    BY <1>1, WorkerFrame DEF Worker
  <2>3. NewLine(r, d) \in SafeLines(d)
    BY <1>1, NewLineSafe
  <2>4. \A q \in Runs : ledger'[q][c] \in SafeLines(c)
    BY <1>0, <2>1, <2>2, <2>3
  <2>5. \A w \in Workspaces : disk'[w] = disk[w] \/ disk'[w] = ledger'[r]
    BY <1>1 DEF Record, SaveFails, Saves, TypeOK
  <2> QED
    BY <1>0, <2>4, <2>5
<1>2. ASSUME NEW r \in Runs, NEW k \in Commands, NEW selected \in SUBSET Documents,
             Start(r, k, selected)
      PROVE  /\ \A q \in Runs : ledger'[q][c] \in SafeLines(c)
             /\ \A w \in Workspaces : disk'[w][c] \in SafeLines(c)
  <2>1. disk' = disk /\ \A q \in Runs : ledger'[q] = ledger[q] \/ ledger'[q] = Loaded(k)
    BY <1>2 DEF Start, TypeOK
  <2>2. NoLedger[c] = NoLine
    BY DEF NoLedger
  <2>3. Loaded(k)[c] \in SafeLines(c)
    BY <1>0, <2>2, NoLineSafe DEF Loaded
  <2> QED
    BY <1>0, <2>1, <2>3
<1>3. ASSUME NEW r \in Runs, Forgets(r)
      PROVE  /\ \A q \in Runs : ledger'[q][c] \in SafeLines(c)
             /\ \A w \in Workspaces : disk'[w][c] \in SafeLines(c)
  <2>1. disk' = disk /\ \A q \in Runs : ledger'[q] = ledger[q] \/ ledger'[q] = NoLedger
    BY <1>3 DEF Forgets, TypeOK
  <2>2. NoLedger[c] = NoLine
    BY DEF NoLedger
  <2> QED
    BY <1>0, <2>1, <2>2, NoLineSafe
<1>4. ASSUME UNCHANGED <<disk, ledger>>
      PROVE  /\ \A q \in Runs : ledger'[q][c] \in SafeLines(c)
             /\ \A w \in Workspaces : disk'[w][c] \in SafeLines(c)
  BY <1>0, <1>4
<1>5. ASSUME NEW r \in Runs, NEW d \in Documents, Worker(r, d)
      PROVE  UNCHANGED <<disk, ledger>> \/ Record(r, d) \/ SaveFails(r, d)
  BY <1>5, WorkerReports
<1>6. Others \/ Settled \/ UNCHANGED vars \/ (\E r \in Runs : GivesUpTheRest(r)) =>
          UNCHANGED <<disk, ledger>>
  BY DEF Others, EditDocument, SharedByOthers, RemovedByHand, Settled, vars, GivesUpTheRest
<1> QED
  BY <1>1, <1>2, <1>3, <1>4, <1>5, <1>6 DEF Next, Run, Ends, Crash

LEMMA NextBytesInv ==
    ASSUME ~Reverts, WorkerInv, ActiveAlone, [Next]_vars
    PROVE  BytesInv'
<1> TypeOK /\ TypeOK'
  BY NextIInv DEF WorkerInv, IInv
<1> SUFFICES ASSUME NEW d \in Documents
             PROVE  /\ \A w \in Workspaces : disk'[w][d] \in SafeLines(d)'
                    /\ \A r \in Runs : ledger'[r][d] \in SafeLines(d)'
                    /\ \A e \in Ours(d)' : version'[d] # Gone => events'[e].content <= version'[d]
                    /\ \A r \in Runs : Pushing(r, d)' =>
                          /\ \A e \in Ours(d)' : events'[e].content <= content'[r][d]
                          /\ version'[d] # Gone => content'[r][d] <= version'[d]
  BY DEF BytesInv
<1>1. Grows(d)
  BY NextGrows
<1>2. /\ \A w \in Workspaces : disk'[w][d] \in SafeLines(d)'
      /\ \A r \in Runs : ledger'[r][d] \in SafeLines(d)'
  BY <1>1, LinesFrom, SafeStaysSafe
<1>3. /\ version[d] \in Nat /\ version'[d] \in Nat
      /\ \A r \in Runs : content[r][d] \in Nat /\ content'[r][d] \in Nat
      /\ \A e \in Ours(d) : events[e].content \in Nat
  <2>1. version'[d] \in Nat /\ \A r \in Runs : content'[r][d] \in Nat
    BY DEF TypeOK, Contents, Gone
  <2> QED
    BY <2>1, Bytes
<1>4. /\ \A e \in Ours(d) : version[d] # Gone => events[e].content <= version[d]
      /\ \A r \in Runs : Pushing(r, d) =>
            /\ \A e \in Ours(d) : events[e].content <= content[r][d]
            /\ version[d] # Gone => content[r][d] <= version[d]
  BY DEF WorkerInv, BytesInv
<1>5. ASSUME NEW e \in Ours(d)', version[d] # Gone PROVE events'[e].content <= version[d]
  BY <1>1, <1>4, <1>5 DEF Grows
<1>6. ASSUME NEW e \in Ours(d)', version'[d] # Gone PROVE events'[e].content <= version'[d]
  <2>1. version[d] # Gone /\ version[d] <= version'[d]
    BY <1>1, <1>6 DEF Grows
  <2>2. events'[e].content <= version[d]
    BY <1>5, <2>1
  <2>3. events'[e].content \in Nat
    BY <1>1, <1>3 DEF Grows
  <2> QED
    BY <1>3, <2>1, <2>2, <2>3
<1>7. ASSUME NEW r \in Runs, Pushing(r, d)', NEW e \in Ours(d)'
      PROVE  events'[e].content <= content'[r][d]
  <2>1. CASE Pushing(r, d) /\ content'[r][d] = content[r][d]
    <3>1. CASE e \in Ours(d) /\ events'[e].content = events[e].content
      BY <1>4, <2>1, <3>1
    <3>2. CASE \E q \in Runs : Pushing(q, d) /\ events'[e].content = content[q][d]
      <4>1. events'[e].content = content[r][d]
        BY <2>1, <3>2 DEF Pushing, ActiveAlone
      <4> QED
        BY <1>3, <2>1, <4>1
    <3> QED
      BY <1>1, <3>1, <3>2 DEF Grows
  <2>2. CASE version[d] # Gone /\ content'[r][d] = version[d]
    BY <1>5, <2>2
  <2> QED
    BY <1>1, <1>7, <2>1, <2>2 DEF Grows
<1>8. ASSUME NEW r \in Runs, Pushing(r, d)', version'[d] # Gone
      PROVE  content'[r][d] <= version'[d]
  <2>1. version[d] # Gone /\ version[d] <= version'[d]
    BY <1>1, <1>8 DEF Grows
  <2>2. content'[r][d] <= version[d]
    BY <1>1, <1>3, <1>4, <1>8, <2>1 DEF Grows
  <2> QED
    BY <1>3, <2>1, <2>2
<1> QED
  BY <1>2, <1>6, <1>7, <1>8

LEMMA RecordSafety ==
    ASSUME ~Overlapping, ~Reverts PROVE Spec => [](WorkerInv /\ ActiveAlone)
<1>1. Init => WorkInv /\ BytesInv
  <2> SUFFICES ASSUME Init PROVE WorkInv /\ BytesInv
    OBVIOUS
  <2>1. /\ \A r \in Runs : ~Active(r)
        /\ \A d \in Documents : Ours(d) = {}
    BY DEF Init, Active, Ours, NoEvent
  <2>2. /\ \A w \in Workspaces, d \in Documents : disk[w][d] = NoLine
        /\ \A r \in Runs, d \in Documents : ledger[r][d] = NoLine
    BY DEF Init, NoLedger
  <2>3. BytesInv
    BY <2>1, <2>2, NoLineSafe DEF BytesInv, Pushing
  <2> QED
    BY <2>1, <2>3 DEF WorkInv
<1>2. WorkInv /\ BytesInv /\ SoloInv /\ [Next]_vars => (WorkInv /\ BytesInv)'
  BY NextWorkInv, NextBytesInv DEF WorkerInv, SoloInv, EventInv
<1>3. Spec => [](WorkInv /\ BytesInv)
  BY <1>1, <1>2, SoloSafety, PTL DEF Spec
<1>4. WorkInv /\ BytesInv /\ SoloInv => WorkerInv /\ ActiveAlone
  BY DEF WorkerInv, SoloInv, EventInv
<1> QED
  BY <1>3, <1>4, SoloSafety, PTL

\* A worker records only what is so.
LEMMA RecordTrue ==
    ASSUME WorkerInv, NEW r \in Runs, NEW d \in Documents, Worker(r, d),
           report'[r][d] # report[r][d]
    PROVE  /\ report'[r][d] \in {"created", "updated", "unchanged"} => Shared(r, d)
           /\ report'[r][d] = "retracted" => Withdrawn(r, d)
<1> TypeOK /\ WritesInv /\ Active(r)
  BY WorkerFrame DEF WorkerInv, IInv
<1>1. CASE report'[r][d] \in {"failed", "nothing", "none"}
  BY <1>1
<1>2. CASE Unchanged(r, d) /\ report'[r][d] = "unchanged"
  <2>1. PICK e \in Events : FoundOne(r, d, e)
    BY <1>2 DEF Unchanged
  <2>2. Ours(d) = {e} /\ events[e].content = content[r][d]
    BY <1>2, <2>1, InStepHolds DEF Unchanged
  <2>3. Publishes(r) => events[e].published
    <3>1. up[r][d] = {f \in Ours(d) : events[f].published}
      BY <2>1 DEF FoundOne, At, WorkerInv, WorkInv, Knows
    <3> QED
      BY <1>2, <2>2, <3>1 DEF Unchanged
  <2> QED
    BY <1>2, <2>2, <2>3 DEF Shared
<1>3. CASE Record(r, d) /\ report'[r][d] = writes[r][d]
  <2>1. CASE step[r][d] = "recording" /\ Pushes(r)
    <3>1. writes[r][d] \in {"created", "updated"}
      BY <2>1 DEF WritesInv
    <3>2. Shared(r, d)
      BY <2>1 DEF WorkerInv, WorkInv, Knows, Shared
    <3> QED
      BY <1>3, <3>1, <3>2
  <2>2. CASE step[r][d] = "recording" /\ ~Pushes(r)
    <3>1. writes[r][d] = "retracted" /\ Withdrawn(r, d)
      BY <2>2 DEF WritesInv, WorkerInv, WorkInv, Knows
    <3> QED
      BY <1>3, <3>1
  <2>3. CASE step[r][d] = "discarding"
    <3>1. writes[r][d] = "retracted" /\ Ours(d) = {}
      BY <2>3 DEF WritesInv, WorkerInv, WorkInv, Knows
    <3> QED
      BY <1>3, <3>1 DEF Withdrawn
  <2> QED
    BY <1>3, <2>1, <2>2, <2>3 DEF Record, At
<1> QED
  BY <1>1, <1>2, <1>3, WorkerReports

(***************************************************************************)
(* What a record of a command that runs alone says is so on the instance,   *)
(* whichever ledger the command started from, if no object ever gets back    *)
(* bytes it had: created, updated and unchanged objects are there with their *)
(* bytes (and published if asked), retracted ones are withdrawn.            *)
(***************************************************************************)
THEOREM RecordsTrue ==
    ASSUME ~Overlapping, ~Reverts
    PROVE  Spec => RecordsAreTrue
<1>1. ASSUME WorkerInv, [Next]_vars, NEW q \in Runs, NEW c \in Documents,
             report'[q][c] # report[q][c]
      PROVE  /\ report'[q][c] \in {"created", "updated", "unchanged"} => Shared(q, c)
             /\ report'[q][c] = "retracted" => Withdrawn(q, c)
  <2>1. TypeOK
    BY <1>1 DEF WorkerInv, IInv
  <2>2. ASSUME NEW r \in Runs, NEW d \in Documents, Worker(r, d) PROVE q = r /\ c = d
    BY <1>1, <2>1, <2>2, WorkerFrame
  <2>3. ASSUME NEW r \in Runs, Forgets(r) PROVE report'[q][c] = "none"
    BY <1>1, <2>1, <2>3 DEF Forgets, TypeOK
  <2>4. Others \/ Settled \/ UNCHANGED vars \/ (\E r \in Runs : GivesUpTheRest(r))
            \/ (\E r \in Runs, k \in Commands, s \in SUBSET Documents : Start(r, k, s)) =>
          report' = report
    BY DEF Others, EditDocument, SharedByOthers, RemovedByHand, Settled, vars, GivesUpTheRest, Start
  <2>5. Worker(q, c) \/ report'[q][c] = "none"
    BY <1>1, <2>2, <2>3, <2>4 DEF Next, Run, Ends, Crash
  <2> QED
    BY <1>1, <2>5, RecordTrue
<1>2. WorkerInv /\ [Next]_vars =>
          [\A r \in Runs, d \in Documents : report'[r][d] # report[r][d] =>
              /\ report'[r][d] \in {"created", "updated", "unchanged"} => Shared(r, d)
              /\ report'[r][d] = "retracted" => Withdrawn(r, d)]_report
  BY <1>1
<1> QED
  BY <1>2, RecordSafety, PTL DEF Spec, RecordsAreTrue
=============================================================================
