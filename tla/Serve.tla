-------------------------------- MODULE Serve --------------------------------
(***************************************************************************)
(* opentide serve: CLI commands run in one warm process, for an editor.     *)
(*                                                                         *)
(* A reading thread takes the client's lines: a cancel acts at once, runs    *)
(* and invalidates are queued. The loop takes them in order and gives each  *)
(* run a thread of its own, into which a cancel raises KeyboardInterrupt,   *)
(* once, wherever that thread is. The runner changes the process for the    *)
(* length of a run. exit, the end of input, a signal or a failed write       *)
(* close the session. What runs keep of the registry is Registry's.         *)
(***************************************************************************)
EXTENDS Naturals, Sequences, FiniteSets

CONSTANTS
    MaxRuns,        \* bound: run requests
    Ids,            \* their ids; a client may use one again
    Commands,       \* Commands[n]: the kinds of command the n-th may ask for
    Closers,        \* what may close the session, besides a failed write
    ClientMayGo     \* TRUE: writes to the client may fail

Runs == 1 .. MaxRuns
NoRun == 0

\* refused: serve, mcp, lsp, tui; elsewhere: its cwd does not exist; invalid: params of
\* the wrong type; command: any other.
CommandKinds == {"command", "refused", "elsewhere", "invalid"}

ASSUME ServeAssumption ==
    /\ MaxRuns \in Nat
    /\ Commands \in [Runs -> SUBSET CommandKinds]
    /\ Closers \subseteq {"input", "signal"}
    /\ ClientMayGo \in BOOLEAN

VARIABLES
    \* the client
    sent,       \* run requests so far
    asked,      \* asked[n]: the n-th one's id and command
    gone,       \* the client reads no more: the next write fails
    answers,    \* what it got: run and result
    \* the server
    queue,
    queued,     \* _queued
    marked,     \* _cancelled
    active,     \* _active
    closing,    \* _closing
    outputClosed,
    target,     \* the job the reading thread is about to interrupt
    closer,     \* how far each _close is
    loop,
    current,    \* the run the loop has taken
    \* the job and its thread
    cancelled,  \* jobs with job.cancelled
    finished,   \* jobs with job.finished
    pending,    \* KeyboardInterrupt was raised in the thread, not delivered
    thread,
    outcome,    \* of the run: 130 too once a queued run is known to be cancelled
    changed,    \* what of the process the runner has changed
    \* history
    named,      \* runs a cancel named while they were unanswered
    doomed,     \* runs named, or overtaken by a close, while queued
    began,      \* runs whose command began
    completed   \* runs whose command returned for itself

clientVars == <<sent, asked, gone>>
queueVars == <<queue, queued, marked>>
closeVars == <<closing, outputClosed, closer>>
loopVars == <<loop, current, active>>
jobVars == <<cancelled, finished, pending>>
threadVars == <<thread, outcome, changed>>
historyVars == <<named, doomed, began, completed>>
vars == <<clientVars, answers, queueVars, closeVars, target, loopVars, jobVars,
          threadVars, historyVars>>

-----------------------------------------------------------------------------
AllClosers == {"input", "signal", "loop"}
Requests == [id : Ids, command : CommandKinds]
NoRequest == [id |-> "none", command |-> "none"]
End == NoRun   \* None in the queue

\* Where the run's thread is; "checking" to "returned" are inside CommandRunner.run's
\* reach of KeyboardInterrupt, "begun" is before target's own try.
Threads == {"none", "spawned", "begun", "checking", "environ", "commanding",
            "returned", "finished", "parsing", "over"}
Results == {"own", "130", "error", "internal"}
ProcessParts == {"environ", "cwd", "stdout"}

TypeOK ==
    /\ sent \in 0 .. MaxRuns
    /\ asked \in [Runs -> Requests \cup {NoRequest}]
    /\ answers \in Seq([run : Runs, result : Results]) /\ Len(answers) <= sent
    /\ queue \in Seq(Runs \cup {End})
    /\ queued \in [Ids -> 0 .. MaxRuns] /\ marked \subseteq Ids
    /\ {active, target, current} \subseteq Runs \cup {NoRun}
    /\ {gone, closing, outputClosed, pending} \subseteq BOOLEAN
    /\ closer \in [AllClosers -> {"idle", "flagged", "interrupted", "done"}]
    /\ loop \in {"getting", "got", "reached", "running", "ended"}
    /\ cancelled \subseteq Runs /\ finished \subseteq Runs
    /\ thread \in Threads /\ outcome \in Results \cup {"none"}
    /\ changed \subseteq ProcessParts
    /\ UNION {named, doomed, began, completed} \subseteq Runs

Init ==
    /\ sent = 0 /\ gone = FALSE
    /\ asked = [n \in Runs |-> NoRequest]
    /\ answers = <<>> /\ queue = <<>>
    /\ queued = [i \in Ids |-> 0] /\ marked = {}
    /\ active = NoRun /\ target = NoRun /\ current = NoRun
    /\ closing = FALSE /\ outputClosed = FALSE
    /\ closer = [c \in AllClosers |-> "idle"]
    /\ loop = "getting"
    /\ cancelled = {} /\ finished = {} /\ pending = FALSE
    /\ thread = "none" /\ outcome = "none" /\ changed = {}
    /\ named = {} /\ doomed = {} /\ began = {} /\ completed = {}

-----------------------------------------------------------------------------
(***************************************************************************)
(* The client and the reading thread.                                       *)
(***************************************************************************)
Answered == {answers[i].run : i \in DOMAIN answers}
Unanswered == (1 .. sent) \ Answered
Lowest(S) == CHOOSE n \in S : \A m \in S : n <= m

\* The reading thread takes the next line: it has not ended the input, and is not
\* about to interrupt a job.
Reading == loop # "ended" /\ target = NoRun /\ closer["input"] \in {"idle", "done"}

ClientGoes ==
    /\ ClientMayGo
    /\ ~gone
    /\ gone' = TRUE
    /\ UNCHANGED <<sent, asked,  answers, queueVars, closeVars, target,
                   loopVars, jobVars, threadVars, historyVars>>

\* Server.receive of a run: counted, and queued.

ReceiveRun(request) ==
    /\ Reading
    /\ sent < MaxRuns
    /\ request.command \in Commands[sent + 1]
    /\ sent' = sent + 1
    /\ asked' = [asked EXCEPT ![sent + 1] = request]
    /\ queued' = [queued EXCEPT ![request.id] = @ + 1]
    /\ queue' = Append(queue, sent + 1)
    /\ UNCHANGED <<gone, answers, marked, closeVars, target, loopVars,
                   jobVars, threadVars, historyVars>>

(***************************************************************************)
(* Server.cancel: under the state lock, the running job is the one to       *)
(* interrupt, or a queued run of that id is marked.                         *)
(***************************************************************************)
Executing(i) == active # NoRun /\ asked[active].id = i
Waiting(i) == {n \in Runs : /\ asked[n].id = i
                            /\ \/ \E k \in DOMAIN queue : queue[k] = n
                               \/ loop = "got" /\ current = n}

ReceiveCancel(i) ==
    /\ Reading
    /\ \/ /\ Executing(i)
          /\ target' = active
          /\ named' = named \cup ({active} \ Answered)
          /\ UNCHANGED <<marked, doomed>>
       \/ /\ ~Executing(i)
          /\ queued[i] > 0
          /\ marked' = marked \cup {i}
          /\ named' = named \cup {Lowest(Waiting(i))}
          /\ doomed' = doomed \cup {Lowest(Waiting(i))}
          /\ UNCHANGED target
    /\ UNCHANGED <<clientVars, answers, queue, queued, closeVars, loopVars, jobVars,
                   threadVars, began, completed>>

\* A cancel of a run that is neither: nothing changes.
ReceiveLateCancel(i) ==
    /\ Reading
    /\ ~Executing(i)
    /\ queued[i] = 0
    /\ UNCHANGED vars

\* Server._interrupt(job), under the job's lock.
ThreadKnown(n) == thread # "spawned" \/ current # n
Raises(n) == n \notin finished /\ n \notin cancelled /\ ThreadKnown(n)

Interrupt(n) ==
    /\ cancelled' = cancelled \cup {n}
    /\ pending' = (pending \/ Raises(n))

CancelInterrupts ==
    /\ target # NoRun
    /\ Interrupt(target)
    /\ target' = NoRun
    /\ UNCHANGED <<clientVars, answers, queueVars, closeVars, loopVars, finished,
                   threadVars, historyVars>>

-----------------------------------------------------------------------------
(***************************************************************************)
(* Server._close, of exit and the end of input, of a signal's thread, and   *)
(* of the loop when a write fails: flag, interrupt, end the queue.          *)
(***************************************************************************)
Flags(c) ==
    /\ closing' = TRUE
    /\ closer' = [closer EXCEPT ![c] = "flagged"]
    /\ doomed' = IF closing THEN doomed
                 ELSE doomed \cup {n \in 1 .. sent : \/ \E k \in DOMAIN queue : queue[k] = n
                                                     \/ loop \in {"got", "reached"} /\ current = n}

Close(c) ==
    /\ c \in Closers /\ loop # "ended"
    /\ closer[c] = "idle"
    /\ c = "input" => Reading
    /\ Flags(c)
    /\ UNCHANGED <<clientVars, answers, queueVars, outputClosed, target, loopVars,
                   jobVars, threadVars, named, began, completed>>

CloseInterrupts(c) ==
    /\ closer[c] = "flagged"
    /\ closer' = [closer EXCEPT ![c] = "interrupted"]
    /\ IF active = NoRun THEN UNCHANGED <<cancelled, pending>> ELSE Interrupt(active)
    /\ UNCHANGED <<clientVars, answers, queueVars, closing, outputClosed, target,
                   loopVars, finished, threadVars, historyVars>>

\* None in the queue ends the loop. Broken: it comes first; it is not put.
EndsFirst(q) == <<End>> \o q
StaysOpen(q) == q
Ended(q) == Append(q, End)

CloseEnds(c) ==
    /\ closer[c] = "interrupted"
    /\ closer' = [closer EXCEPT ![c] = "done"]
    /\ queue' = Ended(queue)
    /\ UNCHANGED <<clientVars, answers, queued, marked, closing, outputClosed, target,
                   loopVars, jobVars, threadVars, historyVars>>

-----------------------------------------------------------------------------
(***************************************************************************)
(* The loop.                                                                *)
(***************************************************************************)
Looping == loop = "getting" /\ closer["loop"] \in {"idle", "done"} /\ queue # <<>>

TakeRun ==
    /\ Looping
    /\ Head(queue) # End
    /\ queue' = Tail(queue)
    /\ current' = Head(queue)
    /\ loop' = "got"
    /\ UNCHANGED <<clientVars, answers, queued, marked, closeVars, target, active,
                   jobVars, threadVars, historyVars>>

TakeEnd ==
    /\ Looping
    /\ Head(queue) = End
    /\ loop' = "ended"
    /\ UNCHANGED <<clientVars, answers, queueVars, closeVars, target, active, current,
                   jobVars, threadVars, historyVars>>

\* _handle counts the run off and takes its mark. Broken: the mark stays.
StaysMarked(i) == marked
Unmarked(i) == marked \ {i}

Reach ==
    LET i == asked[current].id IN
    /\ loop = "got"
    /\ queued' = [queued EXCEPT ![i] = @ - 1]
    /\ marked' = Unmarked(i)
    /\ outcome' = IF i \in marked THEN "130" ELSE "none"
    /\ loop' = "reached"
    /\ UNCHANGED <<clientVars, answers, queue, closeVars, target, active, current,
                   jobVars, thread, changed, historyVars>>

\* Server.send of an answer. The first write that fails closes the session.
Answer(result) ==
    /\ IF gone
       THEN /\ answers' = answers
            /\ outputClosed' = TRUE
            /\ IF outputClosed THEN UNCHANGED <<closing, closer, doomed>> ELSE Flags("loop")
       ELSE /\ answers' = Append(answers, [run |-> current, result |-> result])
            /\ UNCHANGED <<closing, closer, outputClosed, doomed>>
    /\ loop' = "getting"
    /\ current' = NoRun
    /\ outcome' = "none"

AnswerError ==
    /\ loop = "reached"
    /\ asked[current].command = "invalid"
    /\ Answer("error")
    /\ UNCHANGED <<clientVars, queueVars, target, active, jobVars, thread, changed,
                   named, began, completed>>

\* _run, under the state lock: a cancelled run, or one after the close, is answered
\* unrun. Broken: the close is not looked at.
NotCancelled == outcome = "none"
MayRun == ~closing /\ outcome = "none"

AnswerUnrun ==
    /\ loop = "reached"
    /\ asked[current].command # "invalid"
    /\ ~MayRun
    /\ Answer("130")
    /\ UNCHANGED <<clientVars, queueVars, target, active, jobVars, thread, changed,
                   named, began, completed>>

StartRun ==
    /\ loop = "reached"
    /\ asked[current].command # "invalid"
    /\ MayRun
    /\ active' = current
    /\ thread' = "spawned"
    /\ loop' = "running"
    /\ UNCHANGED <<clientVars, answers, queueVars, closeVars, target, current, jobVars,
                   outcome, changed, historyVars>>

\* The thread is joined. One that ended without an outcome is an internal error.
AnswerRun ==
    /\ loop = "running"
    /\ thread = "over"
    /\ Answer(IF outcome = "none" THEN "internal" ELSE outcome)
    /\ active' = NoRun
    /\ thread' = "none"
    /\ UNCHANGED <<clientVars, queueVars, target, jobVars, changed,
                   named, began, completed>>

-----------------------------------------------------------------------------
(***************************************************************************)
(* The run's thread. KeyboardInterrupt comes at its next bytecode, so a     *)
(* step other than _finished's is taken without one pending.                *)
(***************************************************************************)
Command == asked[current].command
OthersUnchanged == UNCHANGED <<clientVars, answers, queueVars, closeVars, target, loopVars>>
At(places) == thread \in places /\ ~pending

\* target, under the job's lock: a job cancelled before is not run.
Begin ==
    /\ thread = "spawned"
    /\ IF current \in cancelled
       THEN thread' = "over" /\ outcome' = "130" /\ finished' = finished \cup {current}
       ELSE thread' = "begun" /\ UNCHANGED <<outcome, finished>>
    /\ OthersUnchanged
    /\ UNCHANGED <<cancelled, pending, changed, historyVars>>

\* run looks at the words of the command, and refuses some.
Check ==
    /\ At({"begun"})
    /\ thread' = "checking"
    /\ OthersUnchanged
    /\ UNCHANGED <<jobVars, outcome, changed, historyVars>>

OverWithOwn ==
    /\ thread' = "over"
    /\ outcome' = "own"
    /\ finished' = finished \cup {current}
    /\ completed' = completed \cup {current}

Refuse ==
    /\ At({"checking"})
    /\ Command = "refused"
    /\ OverWithOwn
    /\ OthersUnchanged
    /\ UNCHANGED <<cancelled, pending, changed, named, doomed, began>>

\* The environment is cleared and filled, before _environment yields.
ReplaceEnvironment ==
    /\ At({"checking"})
    /\ Command # "refused"
    /\ thread' = "environ"
    /\ changed' = {"environ"}
    /\ OthersUnchanged
    /\ UNCHANGED <<jobVars, outcome, historyVars>>

\* chdir fails: a document of its own, and the environment is put back.
CannotEnter ==
    /\ At({"environ"})
    /\ Command = "elsewhere"
    /\ OverWithOwn
    /\ changed' = {}
    /\ OthersUnchanged
    /\ UNCHANGED <<cancelled, pending, named, doomed, began>>

\* The rest of the process is changed, and the command begins.
BeginCommand ==
    /\ At({"environ"})
    /\ Command # "elsewhere"
    /\ thread' = "commanding"
    /\ changed' = ProcessParts
    /\ began' = began \cup {current}
    /\ OthersUnchanged
    /\ UNCHANGED <<jobVars, outcome, named, doomed, completed>>

(***************************************************************************)
(* A progress notification cannot be written: the thread that emits it       *)
(* closes the session. If it is the run's own thread, and not one of a pool, *)
(* it interrupts itself before it has ended the queue.                      *)
(***************************************************************************)
ProgressFails ==
    /\ At({"commanding"})
    /\ gone /\ ~outputClosed
    /\ outputClosed' = TRUE
    /\ closing' = TRUE
    /\ doomed' = IF closing THEN doomed
                 ELSE doomed \cup {n \in 1 .. sent : \E k \in DOMAIN queue : queue[k] = n}
    /\ Interrupt(current)
    /\ \/ Raises(current) /\ queue' = queue
       \/ queue' = Ended(queue)
    /\ UNCHANGED <<clientVars, answers, queued, marked, closer, target, loopVars,
                   finished, threadVars, named, began, completed>>

Return ==
    /\ At({"commanding"})
    /\ thread' = "returned"
    /\ outcome' = "own"
    /\ completed' = completed \cup {current}
    /\ OthersUnchanged
    /\ UNCHANGED <<jobVars, changed, named, doomed, began>>

\* on_done: _finished clears what is pending. Broken: the job is finished only once its
\* thread is.
FinishedLater == finished
FinishedNow == finished \cup {current}

Finish ==
    /\ thread = "returned"
    /\ finished' = FinishedNow
    /\ pending' = FALSE
    /\ thread' = "finished"
    /\ OthersUnchanged
    /\ UNCHANGED <<cancelled, outcome, changed, historyVars>>

\* run puts the process back.
CleanUp ==
    /\ At({"finished"})
    /\ changed' = {}
    /\ thread' = "parsing"
    /\ OthersUnchanged
    /\ UNCHANGED <<jobVars, outcome, named, doomed, began, completed>>

Parse ==
    /\ At({"parsing"})
    /\ finished' = finished \cup {current}
    /\ thread' = "over"
    /\ OthersUnchanged
    /\ UNCHANGED <<cancelled, pending, outcome, changed, historyVars>>

-----------------------------------------------------------------------------
(***************************************************************************)
(* KeyboardInterrupt arrives, once, wherever the thread is.                 *)
(***************************************************************************)
\* Before target's try: the thread ends without an outcome.
InterruptedUnguarded ==
    /\ thread = "begun"
    /\ thread' = "over"
    /\ UNCHANGED <<finished, outcome, changed>>

\* Outside run's own try, before or after: target answers 130.
InterruptedOutside ==
    /\ thread \in {"checking", "parsing"}
    /\ thread' = "over"
    /\ outcome' = "130"
    /\ finished' = finished \cup {current}
    /\ UNCHANGED <<changed>>

\* While the environment is replaced: run's handler puts it back. Broken: it relies
\* on _environment, which has not yielded.
LeftByEnvironment == changed
LeftByHandler == {}

InterruptedEntering ==
    /\ thread = "environ"
    /\ changed' = LeftByHandler
    /\ thread' = "over"
    /\ outcome' = "130"
    /\ finished' = finished \cup {current}

\* In the command: it ends by the interrupt, as at a terminal.
InterruptedCommand ==
    /\ thread = "commanding"
    /\ thread' = "returned"
    /\ outcome' = "130"
    /\ UNCHANGED <<finished, changed>>

\* After the command returned: its exit code stays.
InterruptedCleanup ==
    /\ thread \in {"returned", "finished"}
    /\ changed' = {}
    /\ thread' = "parsing"
    /\ UNCHANGED <<finished, outcome>>

Deliver ==
    /\ pending
    /\ pending' = FALSE
    /\ \/ InterruptedUnguarded
       \/ InterruptedOutside
       \/ InterruptedEntering
       \/ InterruptedCommand
       \/ InterruptedCleanup
    /\ OthersUnchanged
    /\ UNCHANGED <<cancelled, named, doomed, began, completed>>

-----------------------------------------------------------------------------
Client ==
    \/ ClientGoes
    \/ \E request \in Requests : ReceiveRun(request)
    \/ \E i \in Ids : ReceiveCancel(i) \/ ReceiveLateCancel(i)
    \/ \E c \in AllClosers : Close(c)

Closing == \E c \in AllClosers : CloseInterrupts(c) \/ CloseEnds(c)

Loop == \/ TakeRun \/ TakeEnd \/ Reach
        \/ AnswerError \/ AnswerUnrun \/ StartRun \/ AnswerRun

\* What the run's thread does but for the choices a command makes.
Thread == \/ Begin \/ Check \/ Refuse \/ ReplaceEnvironment \/ CannotEnter \/ BeginCommand
          \/ Return \/ Finish \/ CleanUp \/ Parse
          \/ Deliver

\* The process has ended.
Gone == loop = "ended" /\ UNCHANGED vars

Next == Client \/ CancelInterrupts \/ Closing \/ Loop \/ Thread \/ ProgressFails \/ Gone

Spec == Init /\ [][Next]_vars

(***************************************************************************)
(* Fairness: threads that can run do, and a command returns in the end.     *)
(* Nothing is asked of the client.                                          *)
(***************************************************************************)
FairSpec ==
    /\ Spec
    /\ WF_vars(CancelInterrupts) /\ WF_vars(Closing) /\ WF_vars(Loop) /\ WF_vars(Thread)

-----------------------------------------------------------------------------
(***************************************************************************)
(* An answer is what happened: a run answers as its own exactly when its     *)
(* command, or the server in its stead, returned before a cancel reached it, *)
(* and every request is answered in its turn, once.                         *)
(***************************************************************************)
AnswersAreTrue ==
    \A k \in DOMAIN answers :
        /\ answers[k].run = k
        /\ answers[k].result = "own" <=> answers[k].run \in completed

(***************************************************************************)
(* A run is stopped only by a cancel that named it while it was unanswered,  *)
(* or by the close of the session: never by one meant for an earlier run,    *)
(* of the same id or on the same thread.                                    *)
(***************************************************************************)
StoppedOnlyIfNamed ==
    \A k \in DOMAIN answers :
        answers[k].result \in {"130", "internal"} => answers[k].run \in named \/ closing

(***************************************************************************)
(* A command whose cancel, or the end of the session, was read while its     *)
(* run was queued never begins.                                             *)
(***************************************************************************)
QueuedNeverRuns == doomed \cap began = {}

(***************************************************************************)
(* Wherever an interrupt comes, the server has its own environment, working  *)
(* directory and stdout again when the run is answered.                     *)
(***************************************************************************)
ServerStateRestored == thread \in {"none", "over"} => changed = {}

\* A run received before the session closes is answered, unless nobody reads answers.
EveryRunAnswered ==
    \A n \in Runs : (n <= sent /\ ~closing) ~> (n \in Answered \/ outputClosed \/ gone)

\* After exit, the end of input, a signal, or an answer that cannot be written, the
\* server ends.
EndsOnceClosed == (\E c \in AllClosers : closer[c] # "idle") ~> loop = "ended"

\* What Server.send says: once a write fails, the session ends.
EndsOnceOutputFails == outputClosed ~> loop = "ended"
=============================================================================
