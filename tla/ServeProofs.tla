----------------------------- MODULE ServeProofs -----------------------------
(***************************************************************************)
(* Theorems of Serve: type correctness, and its four safety invariants, for  *)
(* any number of runs, ids, commands and ways to close the session.         *)
(***************************************************************************)
EXTENDS Serve, FiniteSetTheorems, SequenceTheorems, TLAPS

InQueue(n) == \E k \in DOMAIN queue : queue[k] = n

(***************************************************************************)
(* The queue. Runs wait in the order they came, behind the one that is taken *)
(* and those that are answered, and as long as the client reads none is      *)
(* skipped: so answers come in that order.                                  *)
(***************************************************************************)
QueueInOrder ==
    \A k, l \in DOMAIN queue : k < l /\ queue[k] # End /\ queue[l] # End => queue[k] < queue[l]

InTurn ==
    /\ \A n \in Runs : InQueue(n) => n <= sent /\ Len(answers) < n /\ current < n
    /\ current # NoRun => current <= sent /\ Len(answers) < current
    /\ ~gone => \A n \in Runs : Len(answers) < n /\ n <= sent => n = current \/ InQueue(n)

QueueInv ==
    /\ QueueInOrder /\ InTurn
    /\ \A n \in Runs : n <= sent => asked[n] \in Requests
    /\ \A k \in DOMAIN answers : answers[k].run = k
    /\ \A i \in Ids : queued[i] = Cardinality(Waiting(i))

(***************************************************************************)
(* The run's thread. An interrupt is raised once, in a thread that is known  *)
(* and has not finished: so none arrives once the outcome is settled, and a  *)
(* late one for an earlier run raises nothing.                              *)
(***************************************************************************)
Interruptible == {"begun", "checking", "environ", "commanding", "returned"}
Over(n) == n \in finished \cup cancelled

ThreadInv ==
    /\ current = NoRun <=> loop \in {"getting", "ended"}
    /\ active = IF loop = "running" THEN current ELSE NoRun
    /\ thread = "none" <=> loop # "running"
    /\ pending => thread \in Interruptible /\ current \in cancelled
    /\ thread = "finished" => current \in finished
    /\ thread \in {"parsing", "over"} => Over(current)
    /\ target \in {NoRun, active} \/ Over(target)
    /\ thread \in {"spawned", "begun", "checking", "environ", "commanding"} => outcome = "none"
    /\ thread \in {"returned", "finished", "parsing"} => outcome \in {"own", "130"}
    /\ thread = "over" => outcome \in {"none", "own", "130"}
    /\ thread = "over" /\ outcome = "none" => current \in cancelled
    /\ loop = "running" /\ outcome = "130" => current \in cancelled
    /\ loop = "running" => (outcome = "own" <=> current \in completed)
    /\ loop = "reached" => outcome \in {"none", "130"}
    /\ thread \notin {"environ", "commanding", "returned", "finished"} => changed = {}

(***************************************************************************)
(* Cancels. A mark is for the first run of its id that waits, and that run   *)
(* takes it.                                                                *)
(***************************************************************************)
NotBegun(n) == InQueue(n) \/ (loop \in {"got", "reached"} /\ current = n)

NamedInv ==
    /\ \A c \in AllClosers : closer[c] \in {"flagged", "interrupted"} => closing
    /\ \A n \in cancelled : n \in named \/ closing
    /\ target # NoRun => target \in named

MarkInv ==
    /\ \A i \in marked : Waiting(i) # {} /\ Lowest(Waiting(i)) \in named
    /\ loop = "reached" /\ outcome = "130" => current \in named
    /\ \A i \in Ids : \A n \in Waiting(i) : n \in doomed =>
          closing \/ (i \in marked /\ n = Lowest(Waiting(i)))
    /\ loop = "reached" /\ current \in doomed => closing \/ outcome = "130"
    /\ loop = "running" => current \notin doomed

PastInv ==
    /\ \A n \in doomed \cup began \cup completed : n <= sent
    /\ \A n \in began \cup completed : ~NotBegun(n)

CancelInv == NamedInv /\ MarkInv /\ PastInv

AnswerInv == AnswersAreTrue /\ StoppedOnlyIfNamed /\ QueuedNeverRuns

ServeInv == QueueInv /\ ThreadInv /\ CancelInv /\ AnswerInv

-----------------------------------------------------------------------------
\* The queue: what Append and Tail do to the runs in it.
LEMMA RunFacts ==
    /\ MaxRuns \in Nat /\ NoRun \notin Runs /\ End = NoRun /\ Runs \subseteq Nat
    /\ \A n \in Runs : n > 0
BY ServeAssumption DEF Runs, NoRun, End

LEMMA Appends ==
    ASSUME queue \in Seq(Runs \cup {End}), NEW x \in Runs \cup {End}, queue' = Append(queue, x)
    PROVE  /\ queue' \in Seq(Runs \cup {End})
           /\ \A k \in DOMAIN queue : k \in DOMAIN queue' /\ queue'[k] = queue[k]
           /\ \A k \in DOMAIN queue' : k \in DOMAIN queue \/
                 (queue'[k] = x /\ \A l \in DOMAIN queue' : l <= k)
           /\ \E k \in DOMAIN queue' : queue'[k] = x
           /\ DOMAIN queue \subseteq Nat /\ DOMAIN queue' \subseteq Nat
<1>1. /\ Len(queue) \in Nat /\ DOMAIN queue = 1 .. Len(queue)
      /\ queue' \in Seq(Runs \cup {End}) /\ Len(queue') = Len(queue) + 1
      /\ \A k \in 1 .. Len(queue) : queue'[k] = queue[k]
      /\ queue'[Len(queue) + 1] = x
  BY AppendProperties, LenProperties
<1>2. DOMAIN queue' = 1 .. Len(queue) + 1
  BY <1>1, LenProperties
<1> QED
  BY <1>1, <1>2

LEMMA Takes ==
    ASSUME queue \in Seq(Runs \cup {End}), queue # <<>>, queue' = Tail(queue)
    PROVE  /\ queue' \in Seq(Runs \cup {End})
           /\ 1 \in DOMAIN queue /\ Head(queue) = queue[1] /\ Head(queue) \in Runs \cup {End}
           /\ \A k \in DOMAIN queue' : k + 1 \in DOMAIN queue /\ queue'[k] = queue[k + 1]
           /\ \A k \in DOMAIN queue : k = 1 \/
                 (1 < k /\ k - 1 \in DOMAIN queue' /\ queue'[k - 1] = queue[k])
           /\ DOMAIN queue \subseteq Nat /\ DOMAIN queue' \subseteq Nat
<1>1. /\ Len(queue) \in Nat /\ DOMAIN queue = 1 .. Len(queue)
      /\ Head(queue) \in Runs \cup {End} /\ queue' \in Seq(Runs \cup {End})
      /\ Len(queue') = Len(queue) - 1
      /\ \A k \in 1 .. Len(queue') : queue'[k] = queue[k + 1]
  BY HeadTailProperties, LenProperties
<1>2. Len(queue) # 0 /\ Head(queue) = queue[1]
  BY EmptySeq, HeadTailProperties
<1>3. DOMAIN queue' = 1 .. Len(queue) - 1
  BY <1>1, LenProperties
<1> QED
  BY <1>1, <1>2, <1>3

LEMMA QueueRuns ==
    ASSUME queue \in Seq(Runs \cup {End})
    PROVE  \A k \in DOMAIN queue : k \in Nat /\ queue[k] \in Runs \cup {End}
BY LenProperties, ElementOfSeq

LEMMA RunQueued ==
    ASSUME TypeOK, QueueInv, NEW n \in Runs, n = sent + 1, queue' = Append(queue, n)
    PROVE  QueueInOrder' /\ \A m \in Runs : InQueue(m)' <=> InQueue(m) \/ m = n
<1>1. queue \in Seq(Runs \cup {End}) /\ sent \in Nat
  BY DEF TypeOK
<1>2. \A k \in DOMAIN queue : queue[k] \in Runs => queue[k] < n
  <2> SUFFICES ASSUME NEW k \in DOMAIN queue, queue[k] \in Runs PROVE queue[k] < n
    OBVIOUS
  <2>1. queue[k] <= sent
    BY DEF QueueInv, InTurn, InQueue
  <2>2. queue[k] \in Nat
    BY RunFacts
  <2> QED
    BY <1>1, <2>1, <2>2
<1>3. \A k \in DOMAIN queue : queue[k] \in Runs \cup {End}
  BY <1>1, QueueRuns
<1>4. QueueInOrder'
  <2> SUFFICES ASSUME NEW k \in DOMAIN queue', NEW l \in DOMAIN queue', k < l,
                      queue'[k] # End, queue'[l] # End
               PROVE  queue'[k] < queue'[l]
    BY DEF QueueInOrder
  <2>1. k \in DOMAIN queue /\ queue'[k] = queue[k]
    BY <1>1, Appends
  <2>2. CASE l \in DOMAIN queue
    BY <1>1, <2>1, <2>2, Appends DEF QueueInv, QueueInOrder
  <2>3. CASE l \notin DOMAIN queue
    BY <1>1, <1>2, <1>3, <2>1, <2>3, Appends
  <2> QED
    BY <2>2, <2>3
<1>5. \A m \in Runs : InQueue(m)' <=> InQueue(m) \/ m = n
  BY <1>1, Appends DEF InQueue
<1> QED
  BY <1>4, <1>5

LEMMA EndQueued ==
    ASSUME TypeOK, QueueInv, queue' = Ended(queue)
    PROVE  /\ queue' \in Seq(Runs \cup {End})
           /\ QueueInOrder' /\ \A m \in Runs : InQueue(m)' <=> InQueue(m)
<1>1. queue \in Seq(Runs \cup {End}) /\ queue' = Append(queue, End) /\ End \notin Runs
  BY RunFacts DEF TypeOK, Ended
<1>2. QueueInOrder'
  <2> SUFFICES ASSUME NEW k \in DOMAIN queue', NEW l \in DOMAIN queue', k < l,
                      queue'[k] # End, queue'[l] # End
               PROVE  queue'[k] < queue'[l]
    BY DEF QueueInOrder
  <2>1. k \in DOMAIN queue /\ l \in DOMAIN queue
    BY <1>1, Appends
  <2> QED
    BY <1>1, <2>1, Appends DEF QueueInv, QueueInOrder
<1>3. \A m \in Runs : InQueue(m)' <=> InQueue(m)
  BY <1>1, Appends DEF InQueue
<1> QED
  BY <1>1, <1>2, <1>3, Appends

LEMMA RunTaken ==
    ASSUME TypeOK, QueueInv, queue # <<>>, Head(queue) # End, queue' = Tail(queue)
    PROVE  /\ Head(queue) \in Runs /\ InQueue(Head(queue))
           /\ queue' \in Seq(Runs \cup {End}) /\ QueueInOrder'
           /\ \A m \in Runs : InQueue(m)' <=> InQueue(m) /\ m # Head(queue)
           /\ \A m \in Runs : InQueue(m) => Head(queue) <= m
<1>1. queue \in Seq(Runs \cup {End}) /\ End \notin Runs
  BY RunFacts DEF TypeOK
<1>2. Head(queue) \in Runs /\ Head(queue) = queue[1] /\ 1 \in DOMAIN queue
  BY <1>1, Takes
<1>3. QueueInOrder'
  <2> SUFFICES ASSUME NEW k \in DOMAIN queue', NEW l \in DOMAIN queue', k < l,
                      queue'[k] # End, queue'[l] # End
               PROVE  queue'[k] < queue'[l]
    BY DEF QueueInOrder
  <2>1. k + 1 \in DOMAIN queue /\ l + 1 \in DOMAIN queue /\ k + 1 < l + 1
    BY <1>1, Takes
  <2> QED
    BY <1>1, <2>1, Takes DEF QueueInv, QueueInOrder
<1>4. ASSUME NEW k \in DOMAIN queue, k # 1, queue[k] # End PROVE Head(queue) < queue[k]
  <2>1. 1 < k
    BY <1>1, <1>4, Takes
  <2> QED
    BY <1>1, <1>2, <1>4, <2>1 DEF QueueInv, QueueInOrder
<1>5. \A m \in Runs : InQueue(m) => Head(queue) <= m
  <2> SUFFICES ASSUME NEW m \in Runs, NEW k \in DOMAIN queue, queue[k] = m
               PROVE  Head(queue) <= m
    BY DEF InQueue
  <2>1. m \in Nat /\ Head(queue) \in Nat /\ m # End
    BY <1>1, <1>2, RunFacts
  <2>2. k = 1 \/ Head(queue) < m
    BY <1>4, <2>1
  <2> QED
    BY <1>2, <2>1, <2>2
<1>6. ASSUME NEW m \in Runs PROVE InQueue(m)' <=> InQueue(m) /\ m # Head(queue)
  <2>1. ASSUME NEW k \in DOMAIN queue', queue'[k] = m PROVE InQueue(m) /\ m # Head(queue)
    <3>1. k + 1 \in DOMAIN queue /\ queue[k + 1] = m /\ k + 1 # 1
      BY <1>1, <2>1, Takes
    <3> QED
      BY <1>1, <1>2, <1>4, <3>1, RunFacts DEF InQueue
  <2>2. ASSUME NEW k \in DOMAIN queue, queue[k] = m, m # Head(queue) PROVE InQueue(m)'
    BY <1>1, <1>2, <2>2, Takes DEF InQueue
  <2> QED
    BY <2>1, <2>2 DEF InQueue
<1> QED
  BY <1>1, <1>2, <1>3, <1>5, <1>6, Takes DEF InQueue

-----------------------------------------------------------------------------
\* The runs of an id that wait are counted.
LEMMA Numbers ==
    ASSUME TypeOK
    PROVE  /\ sent \in Nat /\ sent <= MaxRuns /\ MaxRuns \in Nat
           /\ Len(answers) \in Nat /\ DOMAIN answers = 1 .. Len(answers)
           /\ Len(answers) <= sent
           /\ answers \in Seq([run : Runs, result : Results])
           /\ current \in Runs \cup {NoRun} /\ current \in Nat
<1>1. answers \in Seq([run : Runs, result : Results]) /\ Len(answers) <= sent
  BY DEF TypeOK
<1>2. Len(answers) \in Nat /\ DOMAIN answers = 1 .. Len(answers)
  BY <1>1, LenProperties
<1>3. sent \in Nat /\ sent <= MaxRuns /\ MaxRuns \in Nat
  BY ServeAssumption DEF TypeOK
<1>4. current \in Runs \cup {NoRun} /\ current \in Nat
  <2>1. current \in Runs \cup {NoRun}
    BY DEF TypeOK
  <2>2. NoRun \in Nat
    BY DEF NoRun
  <2> QED
    BY <2>1, <2>2, RunFacts
<1> QED
  BY <1>1, <1>2, <1>3, <1>4

LEMMA SetsOfRuns ==
    ASSUME NEW S \in SUBSET Runs
    PROVE  IsFiniteSet(S) /\ Cardinality(S) \in 0 .. MaxRuns /\ (Cardinality(S) = 0 => S = {})
<1>1. IsFiniteSet(Runs) /\ Cardinality(Runs) = MaxRuns
  BY ServeAssumption, FS_Interval DEF Runs
<1>2. IsFiniteSet(S) /\ Cardinality(S) <= MaxRuns
  BY <1>1, FS_Subset
<1>3. Cardinality(S) \in Nat /\ (Cardinality(S) = 0 => S = {})
  BY <1>2, FS_CardinalityType, FS_EmptySet
<1> QED
  BY <1>2, <1>3, ServeAssumption

LEMMA WaitingRuns == \A i \in Ids : Waiting(i) \subseteq Runs
BY DEF Waiting

LEMMA SameWaiting ==
    ASSUME asked' = asked, \A n \in Runs : InQueue(n)' <=> InQueue(n),
           (loop' = "got" /\ loop = "got" /\ current' = current) \/ (loop' # "got" /\ loop # "got"),
           NEW i
    PROVE  Waiting(i)' = Waiting(i)
BY DEF Waiting, InQueue

\* Steps that touch neither the queue nor the run that is taken.
LEMMA QuietQueue ==
    ASSUME TypeOK, QueueInv, UNCHANGED <<sent, asked, answers, queued, current>>,
           gone => gone', loop' = "got" <=> loop = "got",
           queue' = queue \/ queue' = Ended(queue)
    PROVE  QueueInv' /\ \A i \in Ids : Waiting(i)' = Waiting(i)
<1>1. QueueInOrder' /\ \A n \in Runs : InQueue(n)' <=> InQueue(n)
  <2>1. CASE queue' = queue
    BY <2>1 DEF QueueInv, QueueInOrder, InQueue
  <2>2. CASE queue' = Ended(queue)
    BY <2>2, EndQueued
  <2> QED
    BY <2>1, <2>2
<1>2. InTurn'
  BY <1>1 DEF QueueInv, InTurn
<1>3. \A i \in Ids : Waiting(i)' = Waiting(i)
  BY <1>1, SameWaiting
<1>4. /\ \A n \in Runs : n <= sent' => asked'[n] \in Requests
      /\ \A k \in DOMAIN answers' : answers'[k].run = k
  BY DEF QueueInv
<1> QED
  BY <1>1, <1>2, <1>3, <1>4 DEF QueueInv

LEMMA ReceiveRunQueue ==
    ASSUME TypeOK, QueueInv, ThreadInv, NEW request \in Requests, ReceiveRun(request)
    PROVE  /\ QueueInv' /\ sent + 1 \in Runs
           /\ \A i \in Ids :
                 Waiting(i)' = IF i = request.id THEN Waiting(i) \cup {sent + 1} ELSE Waiting(i)
<1> USE DEF loopVars
<1> DEFINE n == sent + 1
<1>1. /\ n \in Runs /\ sent \in Nat /\ Len(answers) \in Nat /\ current \in Nat
      /\ sent' = n /\ queue' = Append(queue, n) /\ Len(answers) <= sent
      /\ UNCHANGED <<answers, loop, current, gone>>
  BY ServeAssumption, RunFacts, LenProperties DEF ReceiveRun, TypeOK, Runs, NoRun
<1>2. /\ asked' = [asked EXCEPT ![n] = request]
      /\ queued' = [queued EXCEPT ![request.id] = @ + 1]
      /\ request.id \in Ids
  BY DEF ReceiveRun, Requests
<1>3. QueueInOrder' /\ \A m \in Runs : InQueue(m)' <=> InQueue(m) \/ m = n
  BY <1>1, RunQueued
<1>4. current <= sent
  BY <1>1 DEF QueueInv, InTurn, NoRun
<1>5. ~InQueue(n) /\ current # n
  BY <1>1, <1>4 DEF QueueInv, InTurn
<1>6. InTurn'
  <2>1. ASSUME NEW m \in Runs, InQueue(m)'
        PROVE  m <= sent' /\ Len(answers') < m /\ current' < m
    <3>1. m = n \/ (m <= sent /\ Len(answers) < m /\ current < m)
      BY <1>3, <2>1 DEF QueueInv, InTurn
    <3>2. m \in Nat
      BY RunFacts
    <3> QED
      BY <1>1, <1>4, <3>1, <3>2
  <2>2. current' # NoRun => current' <= sent' /\ Len(answers') < current'
    BY <1>1, <1>4 DEF QueueInv, InTurn
  <2>3. ASSUME ~gone', NEW m \in Runs, Len(answers') < m, m <= sent'
        PROVE  m = current' \/ InQueue(m)'
    <3>1. m \in Nat
      BY RunFacts
    <3>2. m = n \/ m <= sent
      BY <1>1, <2>3, <3>1
    <3> QED
      BY <1>1, <1>3, <2>3, <3>2 DEF QueueInv, InTurn
  <2> QED
    BY <2>1, <2>2, <2>3 DEF InTurn
<1>7. \A m \in Runs : m # n => asked'[m] = asked[m]
  BY <1>2 DEF TypeOK
<1>8. asked'[n] = request
  BY <1>1, <1>2 DEF TypeOK
<1>9. ASSUME NEW i \in Ids
      PROVE  Waiting(i)' = IF i = request.id THEN Waiting(i) \cup {n} ELSE Waiting(i)
  <2>1. \A m \in Runs \ {n} : m \in Waiting(i)' <=> m \in Waiting(i)
    BY <1>1, <1>3, <1>7 DEF Waiting, InQueue
  <2>2. n \in Waiting(i)' <=> i = request.id
    BY <1>1, <1>3, <1>8 DEF Waiting, InQueue
  <2>3. n \notin Waiting(i)
    BY <1>5 DEF Waiting, InQueue
  <2>4. Waiting(i)' \subseteq Runs /\ Waiting(i) \subseteq Runs
    BY DEF Waiting
  <2>5. n \in Runs
    BY <1>1
  <2> HIDE DEF n
  <2>6. \A m \in Runs : m \in Waiting(i)' <=>
           m \in (IF i = request.id THEN Waiting(i) \cup {n} ELSE Waiting(i))
    BY <2>1, <2>2, <2>3, <2>5
  <2> QED
    BY <2>4, <2>5, <2>6
<1>10. ASSUME NEW i \in Ids PROVE queued'[i] = Cardinality(Waiting(i)')
  <2>1. n \notin Waiting(i) /\ IsFiniteSet(Waiting(i))
    BY <1>5, WaitingRuns, SetsOfRuns DEF Waiting, InQueue
  <2>2. Cardinality(Waiting(i) \cup {n}) = Cardinality(Waiting(i)) + 1
    BY <2>1, FS_AddElement
  <2>3. queued[i] = Cardinality(Waiting(i))
    BY DEF QueueInv
  <2> QED
    BY <1>2, <1>9, <2>2, <2>3 DEF TypeOK
<1>11. \A m \in Runs : m <= sent' => asked'[m] \in Requests
  <2>1. \A m \in Runs : m <= sent' => m = n \/ m <= sent
    BY <1>1, RunFacts
  <2> QED
    BY <1>7, <1>8, <2>1 DEF QueueInv
<1>12. \A k \in DOMAIN answers' : answers'[k].run = k
  BY <1>1 DEF QueueInv
<1> QED
  BY <1>1, <1>3, <1>6, <1>9, <1>10, <1>11, <1>12 DEF QueueInv

LEMMA TakeRunQueue ==
    ASSUME TypeOK, QueueInv, ThreadInv, TakeRun
    PROVE  QueueInv' /\ \A i \in Ids : Waiting(i)' = Waiting(i)
<1> USE DEF clientVars
<1> DEFINE n == Head(queue)
<1>1. /\ n \in Runs /\ InQueue(n) /\ QueueInOrder'
      /\ \A m \in Runs : InQueue(m)' <=> InQueue(m) /\ m # n
      /\ \A m \in Runs : InQueue(m) => n <= m
  BY RunTaken DEF TakeRun, Looping
<1>2. /\ current' = n /\ loop = "getting" /\ loop' = "got" /\ current = NoRun
      /\ UNCHANGED <<sent, asked, gone, answers, queued>>
  BY DEF TakeRun, Looping, ThreadInv
<1>3. InTurn'
  <2>1. n <= sent /\ Len(answers) < n
    BY <1>1 DEF QueueInv, InTurn
  <2>2. ASSUME NEW m \in Runs, InQueue(m)'
        PROVE  m <= sent' /\ Len(answers') < m /\ current' < m
    <3>1. m <= sent /\ Len(answers) < m /\ n <= m /\ m # n
      BY <1>1, <2>2 DEF QueueInv, InTurn
    <3>2. m \in Nat /\ n \in Nat
      BY <1>1, RunFacts
    <3> QED
      BY <1>2, <3>1, <3>2
  <2>3. ASSUME ~gone', NEW m \in Runs, Len(answers') < m, m <= sent'
        PROVE  m = current' \/ InQueue(m)'
    BY <1>1, <1>2, <2>3, RunFacts DEF QueueInv, InTurn
  <2> QED
    BY <1>2, <2>1, <2>2, <2>3 DEF InTurn
<1>4. ASSUME NEW i \in Ids PROVE Waiting(i)' = Waiting(i)
  <2>1. \A m \in Runs : m \in Waiting(i)' <=> m \in Waiting(i)
    BY <1>1, <1>2 DEF Waiting, InQueue
  <2>2. Waiting(i)' \subseteq Runs /\ Waiting(i) \subseteq Runs
    BY DEF Waiting
  <2> QED
    BY <2>1, <2>2
<1> QED
  BY <1>1, <1>2, <1>3, <1>4 DEF QueueInv

LEMMA ReachQueue ==
    ASSUME TypeOK, QueueInv, ThreadInv, Reach
    PROVE  QueueInv' /\ current \in Runs /\ asked[current] \in Requests /\ ~InQueue(current)
           /\ \A i \in Ids : Waiting(i)' = Waiting(i) \ {current}
<1> USE DEF clientVars
<1>1. /\ loop = "got" /\ loop' = "reached" /\ current \in Runs /\ current <= sent
      /\ UNCHANGED <<sent, asked, gone, answers, queue, current>>
      /\ queued' = [queued EXCEPT ![asked[current].id] = @ - 1]
  BY DEF Reach, ThreadInv, TypeOK, QueueInv, InTurn
<1>2. asked[current] \in Requests
  BY <1>1 DEF QueueInv
<1>3. ~InQueue(current)
  BY <1>1, RunFacts DEF QueueInv, InTurn
<1>4. ASSUME NEW i \in Ids PROVE Waiting(i)' = Waiting(i) \ {current}
  BY <1>1, <1>3 DEF Waiting, InQueue
<1>5. ASSUME NEW i \in Ids PROVE queued'[i] = Cardinality(Waiting(i)')
  <2>1. IsFiniteSet(Waiting(i)) /\ queued[i] = Cardinality(Waiting(i))
    BY WaitingRuns, SetsOfRuns DEF QueueInv
  <2>2. current \in Waiting(i) <=> asked[current].id = i
    BY <1>1, <1>3 DEF Waiting, InQueue
  <2>3. Cardinality(Waiting(i) \ {current}) =
           IF current \in Waiting(i) THEN Cardinality(Waiting(i)) - 1 ELSE Cardinality(Waiting(i))
    BY <2>1, FS_RemoveElement
  <2> QED
    BY <1>1, <1>4, <2>1, <2>2, <2>3 DEF TypeOK
<1>6. QueueInOrder' /\ InTurn'
  BY <1>1 DEF QueueInv, QueueInOrder, InTurn, InQueue
<1>7. /\ \A n \in Runs : n <= sent' => asked'[n] \in Requests
      /\ \A k \in DOMAIN answers' : answers'[k].run = k
  BY <1>1 DEF QueueInv
<1> QED
  BY <1>1, <1>2, <1>3, <1>4, <1>5, <1>6, <1>7 DEF QueueInv

\* The run that is taken is the next to answer, while the client reads.
LEMMA NextAnswer ==
    ASSUME TypeOK, QueueInv, ~gone, current # NoRun
    PROVE  current = Len(answers) + 1 /\ current \in Runs
<1>1. /\ current \in Runs /\ current \in Nat /\ sent \in Nat /\ sent <= MaxRuns
      /\ Len(answers) \in Nat /\ current <= sent /\ Len(answers) < current
  BY Numbers DEF QueueInv, InTurn
<1>2. SUFFICES ASSUME Len(answers) + 1 < current PROVE FALSE
  BY <1>1
<1>3. Len(answers) + 1 \in Runs /\ Len(answers) + 1 <= sent
  BY <1>1, <1>2, ServeAssumption DEF Runs
<1>4. Len(answers) < Len(answers) + 1
  BY <1>1
<1>5. InQueue(Len(answers) + 1)
  BY <1>1, <1>2, <1>3, <1>4 DEF QueueInv, InTurn
<1>6. current < Len(answers) + 1
  BY <1>3, <1>5 DEF QueueInv, InTurn
<1> QED
  BY <1>1, <1>2, <1>6

\* What an answer adds to what the client got.
LEMMA Answers ==
    ASSUME TypeOK, QueueInv, NEW result \in Results, Answer(result), current # NoRun
    PROVE  /\ answers' \in Seq([run : Runs, result : Results])
           /\ \A k \in DOMAIN answers' : k \in Nat /\
                 (\/ k \in DOMAIN answers /\ answers'[k] = answers[k]
                  \/ k = current /\ answers'[k] = [run |-> current, result |-> result])
           /\ Len(answers') \in Nat /\ Len(answers') <= sent
           /\ IF gone THEN answers' = answers ELSE Len(answers') = current
           /\ Len(answers') <= current
<1>1. answers \in Seq([run : Runs, result : Results]) /\ Len(answers) \in Nat
      /\ DOMAIN answers = 1 .. Len(answers) /\ current \in Runs
      /\ current \in Nat /\ sent \in Nat /\ current <= sent /\ Len(answers) < current
  BY Numbers DEF QueueInv, InTurn
<1>2. CASE gone
  BY <1>1, <1>2 DEF Answer
<1>3. CASE ~gone
  <2> DEFINE a == [run |-> current, result |-> result]
  <2>1. answers' = Append(answers, a) /\ a \in [run : Runs, result : Results]
    BY <1>1, <1>3 DEF Answer
  <2>2. current = Len(answers) + 1
    BY <1>1, <1>3, NextAnswer, RunFacts
  <2> HIDE DEF a
  <2>3. /\ answers' \in Seq([run : Runs, result : Results]) /\ Len(answers') = current
        /\ \A k \in 1 .. Len(answers) : answers'[k] = answers[k]
        /\ answers'[current] = a
    BY <1>1, <2>1, <2>2, AppendProperties
  <2>4. DOMAIN answers' = 1 .. current
    BY <2>3, LenProperties
  <2> QED
    BY <1>1, <1>3, <2>2, <2>3, <2>4 DEF a
<1> QED
  BY <1>2, <1>3

LEMMA AnswerQueue ==
    ASSUME TypeOK, QueueInv, NEW result \in Results, Answer(result), current # NoRun,
           loop # "got", UNCHANGED <<clientVars, queueVars>>
    PROVE  QueueInv' /\ \A i \in Ids : Waiting(i)' = Waiting(i)
<1> USE DEF clientVars, queueVars
<1>1. loop' = "getting" /\ current' = NoRun
      /\ UNCHANGED <<sent, asked, gone, queue, queued>>
  BY DEF Answer
<1>2. /\ current \in Nat /\ Len(answers) \in Nat /\ Len(answers') \in Nat
      /\ Len(answers') <= sent /\ Len(answers') <= current
  BY RunFacts, Answers, LenProperties DEF TypeOK, NoRun
<1>3. ASSUME NEW n \in Runs, InQueue(n) PROVE n <= sent /\ Len(answers') < n /\ NoRun < n
  <2>1. n <= sent /\ current < n /\ n \in Nat
    BY <1>3, RunFacts DEF QueueInv, InTurn
  <2> QED
    BY <1>2, <2>1 DEF NoRun
<1>4. ASSUME ~gone, NEW n \in Runs, Len(answers') < n, n <= sent PROVE InQueue(n)
  <2>1. Len(answers') = current /\ Len(answers) < current
    BY <1>4, Answers DEF QueueInv, InTurn
  <2>2. n # current /\ Len(answers) < n /\ n \in Nat
    BY <1>2, <1>4, <2>1, RunFacts
  <2> QED
    BY <1>4, <2>2 DEF QueueInv, InTurn
<1>5. \A n \in Runs : InQueue(n)' <=> InQueue(n)
  BY <1>1 DEF InQueue
<1>6. QueueInOrder' /\ InTurn'
  BY <1>1, <1>3, <1>4, <1>5 DEF QueueInv, QueueInOrder, InTurn
<1>7. ASSUME NEW i \in Ids PROVE Waiting(i)' = Waiting(i)
  BY <1>1, <1>5, SameWaiting
<1>8. \A k \in DOMAIN answers' : answers'[k].run = k
  BY Answers DEF QueueInv
<1> QED
  BY <1>1, <1>6, <1>7, <1>8 DEF QueueInv

\* The loop answers the run it has taken, with a result.
Answering(result) ==
    /\ result \in Results /\ Answer(result) /\ current # NoRun
    /\ loop = "reached" \/ (loop = "running" /\ thread = "over")
    /\ active' = NoRun /\ thread' = "none"
    /\ UNCHANGED <<clientVars, queueVars, target, jobVars, changed, named, began, completed>>

LEMMA LoopAnswers ==
    ASSUME TypeOK, ThreadInv, AnswerError \/ AnswerUnrun \/ AnswerRun
    PROVE  \E result \in Results : Answering(result)
<1>1. current # NoRun
  BY DEF AnswerError, AnswerUnrun, AnswerRun, ThreadInv
<1>2. CASE AnswerError
  <2>1. Answering("error")
    BY <1>1, <1>2 DEF AnswerError, Answering, Results, ThreadInv
  <2> QED
    BY <2>1 DEF Results
<1>3. CASE AnswerUnrun
  <2>1. Answering("130")
    BY <1>1, <1>3 DEF AnswerUnrun, Answering, Results, ThreadInv
  <2> QED
    BY <2>1 DEF Results
<1>4. CASE AnswerRun
  <2> DEFINE result == IF outcome = "none" THEN "internal" ELSE outcome
  <2>1. result \in Results
    BY DEF TypeOK, Results
  <2>2. Answering(result)
    BY <1>1, <1>4, <2>1 DEF AnswerRun, Answering
  <2> QED
    BY <2>1, <2>2
<1> QED
  BY <1>2, <1>3, <1>4

LEMMA ThreadKeeps ==
    ASSUME Thread
    PROVE  OthersUnchanged /\ UNCHANGED <<named, doomed>>
BY DEF Thread, Begin, Check, Refuse, ReplaceEnvironment, CannotEnter, BeginCommand, Return,
       Finish, CleanUp, Parse, Deliver, historyVars

\* The actions of Next one by one, for the proofs to split on.
LEMMA Actions ==
    ASSUME [Next]_vars
    PROVE  \/ ClientGoes \/ CancelInterrupts \/ TakeRun \/ TakeEnd \/ Reach \/ StartRun
           \/ AnswerError \/ AnswerUnrun \/ AnswerRun
           \/ Thread \/ ProgressFails \/ UNCHANGED vars
           \/ \E request \in Requests : ReceiveRun(request)
           \/ \E i \in Ids : ReceiveCancel(i)
           \/ \E c \in AllClosers : Close(c) \/ CloseInterrupts(c) \/ CloseEnds(c)
BY DEF Next, Client, Closing, Loop, Gone, ReceiveLateCancel

LEMMA NextQueue ==
    ASSUME TypeOK, QueueInv, ThreadInv, [Next]_vars
    PROVE  QueueInv'
<1> USE DEF clientVars, queueVars, loopVars
<1>1. CASE ClientGoes \/ CancelInterrupts \/ StartRun \/ TakeEnd
  <2>1. /\ UNCHANGED <<sent, asked, answers, queued, current, queue>>
        /\ (gone => gone') /\ (loop' = "got" <=> loop = "got")
    BY <1>1 DEF ClientGoes, CancelInterrupts, StartRun, TakeEnd, Looping
  <2> QED
    BY <2>1, QuietQueue
<1>2. CASE Thread
  BY <1>2, ThreadKeeps, QuietQueue DEF OthersUnchanged
<1>3. CASE ProgressFails
  BY <1>3, QuietQueue DEF ProgressFails
<1>4. CASE UNCHANGED vars
  BY <1>4, QuietQueue DEF vars
<1>5. ASSUME NEW i \in Ids, ReceiveCancel(i) PROVE QueueInv'
  BY <1>5, QuietQueue DEF ReceiveCancel
<1>6. ASSUME NEW c \in AllClosers, Close(c) \/ CloseInterrupts(c) \/ CloseEnds(c)
      PROVE  QueueInv'
  BY <1>6, QuietQueue DEF Close, CloseInterrupts, CloseEnds
<1>7. CASE AnswerError \/ AnswerUnrun \/ AnswerRun
  <2>1. PICK result \in Results : Answering(result)
    BY <1>7, LoopAnswers
  <2> QED
    BY <2>1, AnswerQueue DEF Answering
<1> QED
  BY <1>1, <1>2, <1>3, <1>4, <1>5, <1>6, <1>7, TakeRunQueue, ReachQueue, ReceiveRunQueue, Actions

-----------------------------------------------------------------------------
(***************************************************************************)
(* Types.                                                                   *)
(***************************************************************************)
LEMMA InitTypes == Init => TypeOK
<1> SUFFICES ASSUME Init PROVE TypeOK
  OBVIOUS
<1>1. /\ sent \in 0 .. MaxRuns /\ queued \in [Ids -> 0 .. MaxRuns]
  BY ServeAssumption DEF Init
<1>2. answers \in Seq([run : Runs, result : Results]) /\ Len(answers) <= sent
  BY EmptySeq DEF Init
<1>3. queue \in Seq(Runs \cup {End})
  BY EmptySeq DEF Init
<1>4. /\ asked \in [Runs -> Requests \cup {NoRequest}] /\ marked \subseteq Ids
      /\ {active, target, current} \subseteq Runs \cup {NoRun}
      /\ {gone, closing, outputClosed, pending} \subseteq BOOLEAN
      /\ closer \in [AllClosers -> {"idle", "flagged", "interrupted", "done"}]
      /\ loop \in {"getting", "got", "reached", "running", "ended"}
  BY DEF Init
<1>5. /\ cancelled \subseteq Runs /\ finished \subseteq Runs
      /\ thread \in Threads /\ outcome \in Results \cup {"none"}
      /\ changed \subseteq ProcessParts
      /\ UNION {named, doomed, began, completed} \subseteq Runs
  BY DEF Init, Threads
<1> QED
  BY <1>1, <1>2, <1>3, <1>4, <1>5 DEF TypeOK

\* The parts of TypeOK that change together.
QueueTypes ==
    /\ sent \in 0 .. MaxRuns
    /\ asked \in [Runs -> Requests \cup {NoRequest}]
    /\ answers \in Seq([run : Runs, result : Results]) /\ Len(answers) <= sent
    /\ queue \in Seq(Runs \cup {End})
    /\ queued \in [Ids -> 0 .. MaxRuns] /\ marked \subseteq Ids

ControlTypes ==
    /\ {active, target, current} \subseteq Runs \cup {NoRun}
    /\ {gone, closing, outputClosed} \subseteq BOOLEAN
    /\ closer \in [AllClosers -> {"idle", "flagged", "interrupted", "done"}]
    /\ loop \in {"getting", "got", "reached", "running", "ended"}
    /\ named \subseteq Runs /\ doomed \subseteq Runs

ThreadTypes ==
    /\ cancelled \subseteq Runs /\ finished \subseteq Runs /\ pending \in BOOLEAN
    /\ thread \in Threads /\ outcome \in Results \cup {"none"}
    /\ changed \subseteq ProcessParts
    /\ began \subseteq Runs /\ completed \subseteq Runs

LEMMA TypeParts == TypeOK <=> QueueTypes /\ ControlTypes /\ ThreadTypes
BY DEF TypeOK, QueueTypes, ControlTypes, ThreadTypes

LEMMA TypedParts == ASSUME QueueTypes', ControlTypes', ThreadTypes' PROVE TypeOK'
BY DEF TypeOK, QueueTypes, ControlTypes, ThreadTypes

LEMMA QuietQueueTypes ==
    ASSUME TypeOK, QueueInv, UNCHANGED <<sent, asked, answers, queued>>, marked' \subseteq Ids,
           queue' = queue \/ queue' = Ended(queue)
    PROVE  QueueTypes'
BY EndQueued DEF TypeOK, QueueTypes

LEMMA CountedQueue ==
    ASSUME QueueInv', DOMAIN queued' = Ids, queued' = [i \in Ids |-> queued'[i]]
    PROVE  queued' \in [Ids -> 0 .. MaxRuns]
<1>1. ASSUME NEW i \in Ids PROVE queued'[i] \in 0 .. MaxRuns
  <2>1. queued'[i] = Cardinality(Waiting(i)')
    BY DEF QueueInv
  <2>2. Waiting(i)' \in SUBSET Runs
    BY DEF Waiting
  <2> QED
    BY <2>1, <2>2, SetsOfRuns
<1> QED
  BY <1>1

LEMMA NextQueueTypes ==
    ASSUME TypeOK, QueueInv, ThreadInv, QueueInv', [Next]_vars
    PROVE  QueueTypes'
<1> USE DEF clientVars, queueVars, loopVars
<1>1. CASE ClientGoes \/ CancelInterrupts \/ StartRun \/ TakeEnd
  <2>1. UNCHANGED <<sent, asked, answers, queued, queue, marked>> /\ marked \subseteq Ids
    BY <1>1 DEF ClientGoes, CancelInterrupts, StartRun, TakeEnd, Looping, TypeOK
  <2> QED
    BY <2>1, QuietQueueTypes
<1>2. CASE Thread
  BY <1>2, ThreadKeeps, QuietQueueTypes DEF OthersUnchanged, TypeOK
<1>3. CASE ProgressFails
  BY <1>3, QuietQueueTypes DEF ProgressFails, TypeOK
<1>4. CASE UNCHANGED vars
  BY <1>4, QuietQueueTypes DEF vars, TypeOK
<1>5. ASSUME NEW i \in Ids, ReceiveCancel(i) PROVE QueueTypes'
  <2>1. marked' \subseteq Ids /\ UNCHANGED <<sent, asked, answers, queued, queue>>
    BY <1>5 DEF ReceiveCancel, TypeOK
  <2> QED
    BY <2>1, QuietQueueTypes
<1>6. ASSUME NEW c \in AllClosers, Close(c) \/ CloseInterrupts(c) \/ CloseEnds(c)
      PROVE  QueueTypes'
  BY <1>6, QuietQueueTypes DEF Close, CloseInterrupts, CloseEnds, TypeOK
<1>7. CASE AnswerError \/ AnswerUnrun \/ AnswerRun
  <2>1. PICK result \in Results : Answering(result)
    BY <1>7, LoopAnswers
  <2>2. /\ answers' \in Seq([run : Runs, result : Results]) /\ Len(answers') <= sent
        /\ UNCHANGED <<sent, asked, queue, queued, marked>>
    BY <2>1, Answers DEF Answering
  <2> QED
    BY <2>2 DEF QueueTypes, TypeOK
<1>8. CASE TakeRun
  <2>1. queue' \in Seq(Runs \cup {End})
    BY <1>8, RunTaken DEF TakeRun, Looping
  <2> QED
    BY <1>8, <2>1 DEF TakeRun, QueueTypes, TypeOK
<1>9. CASE Reach
  <2>1. queued' \in [Ids -> 0 .. MaxRuns]
    BY <1>9, CountedQueue DEF Reach, TypeOK
  <2> QED
    BY <1>9, <2>1 DEF Reach, Unmarked, QueueTypes, TypeOK
<1>10. ASSUME NEW request \in Requests, ReceiveRun(request) PROVE QueueTypes'
  <2>1. queued' \in [Ids -> 0 .. MaxRuns]
    BY <1>10, CountedQueue DEF ReceiveRun, TypeOK
  <2>2. sent + 1 \in Runs /\ sent' \in 0 .. MaxRuns
    BY <1>10, Numbers DEF ReceiveRun, Runs
  <2>3. queue' \in Seq(Runs \cup {End})
    BY <1>10, <2>2, Appends DEF ReceiveRun, TypeOK
  <2>4. asked' \in [Runs -> Requests \cup {NoRequest}] /\ marked' \subseteq Ids
    BY <1>10, <2>2 DEF ReceiveRun, TypeOK
  <2>5. answers' \in Seq([run : Runs, result : Results]) /\ Len(answers') <= sent'
    BY <1>10, Numbers DEF ReceiveRun
  <2> QED
    BY <2>1, <2>2, <2>3, <2>4, <2>5 DEF QueueTypes
<1> QED
  BY <1>1, <1>2, <1>3, <1>4, <1>5, <1>6, <1>7, <1>8, <1>9, <1>10, Actions

LEMMA InterruptTypes ==
    ASSUME TypeOK, NEW n \in Runs, Interrupt(n)
    PROVE  cancelled' \subseteq Runs /\ pending' \in BOOLEAN
BY DEF Interrupt, TypeOK, Raises, ThreadKnown

LEMMA AnswerTypes ==
    ASSUME TypeOK, NEW result \in Results, Answer(result)
    PROVE  /\ closing' \in BOOLEAN /\ outputClosed' \in BOOLEAN /\ doomed' \subseteq Runs
           /\ closer' \in [AllClosers -> {"idle", "flagged", "interrupted", "done"}]
           /\ loop' = "getting" /\ current' = NoRun /\ outcome' = "none"
<1>1. 1 .. sent \subseteq Runs
  BY Numbers DEF Runs
<1>2. CASE UNCHANGED <<closing, closer, doomed>>
  BY <1>2 DEF Answer, TypeOK
<1>3. CASE Flags("loop")
  BY <1>1, <1>3 DEF Answer, Flags, AllClosers, TypeOK
<1> QED
  BY <1>2, <1>3 DEF Answer

\* The first run of an id that waits, if a cancel counts one.
LEMMA LowestWaits ==
    ASSUME TypeOK, QueueInv, NEW i \in Ids, queued[i] > 0 \/ Waiting(i) # {}
    PROVE  /\ Lowest(Waiting(i)) \in Waiting(i) /\ Lowest(Waiting(i)) \in Runs
           /\ \A m \in Waiting(i) : Lowest(Waiting(i)) <= m
<1>1. Waiting(i) \in SUBSET Runs
  BY WaitingRuns
<1>2. Waiting(i) # {}
  <2>1. SUFFICES ASSUME Waiting(i) = {} PROVE FALSE
    OBVIOUS
  <2>2. Cardinality(Waiting(i)) = 0
    BY <2>1, FS_EmptySet
  <2> QED
    BY <2>1, <2>2 DEF QueueInv
<1>3. \E n \in Waiting(i) : \A m \in Waiting(i) : n <= m
  <2>1. Waiting(i) \subseteq Nat
    BY <1>1, RunFacts
  <2> DEFINE Less == OpToRel(<, Nat)
             W == Waiting(i)
  <2>2. IsWellFoundedOn(Less, Nat)
    BY NatLessThanWellFounded
  <2>3. W \subseteq Nat /\ W # {}
    BY <1>2, <2>1
  <2> HIDE DEF Less, W
  <2>4. \E n \in W : \A m \in W : ~(<<m, n>> \in Less)
    BY <2>2, <2>3, WFMin
  <2>5. PICK n \in W : \A m \in W : ~(<<m, n>> \in Less)
    BY <2>4
  <2>6. \A m \in W : n <= m
    <3>1. ASSUME NEW m \in Nat, NEW k \in Nat, m < k PROVE <<m, k>> \in Less
      <4>1. <<m, k>>[1] = m /\ <<m, k>>[2] = k /\ <<m, k>> \in Nat \X Nat
        OBVIOUS
      <4> QED
        BY <3>1, <4>1, Zenon DEF Less, OpToRel
    <3>2. ASSUME NEW m \in W PROVE n <= m
      <4>1. m \in Nat /\ n \in Nat /\ ~(m < n)
        BY <2>3, <2>5, <3>1
      <4> QED
        BY <4>1
    <3> QED
      BY <3>2
  <2> QED
    BY <2>6 DEF W
<1> QED
  BY <1>1, <1>3 DEF Lowest

LEMMA NextControlTypes ==
    ASSUME TypeOK, QueueInv, ThreadInv, [Next]_vars
    PROVE  ControlTypes'
<1> USE DEF clientVars, queueVars, closeVars, loopVars, historyVars
<1>1. CASE ClientGoes \/ CancelInterrupts \/ StartRun \/ TakeEnd \/ Reach
  BY <1>1 DEF ClientGoes, CancelInterrupts, StartRun, TakeEnd, Reach, TypeOK, ControlTypes, NoRun
<1>2. CASE Thread
  BY <1>2, ThreadKeeps DEF OthersUnchanged, TypeOK, ControlTypes
<1>4. CASE ProgressFails
  <2>1. doomed' \subseteq Runs
    <3>1. {n \in 1 .. sent : \E k \in DOMAIN queue : queue[k] = n} \subseteq Runs
      BY Numbers DEF Runs
    <3> QED
      BY <1>4, <3>1 DEF ProgressFails, TypeOK
  <2> QED
    BY <1>4, <2>1 DEF ProgressFails, TypeOK, ControlTypes
<1>5. CASE UNCHANGED vars
  BY <1>5 DEF vars, TypeOK, ControlTypes
<1>6. ASSUME NEW i \in Ids, ReceiveCancel(i) PROVE ControlTypes'
  <2>1. queued[i] > 0 => Lowest(Waiting(i)) \in Runs
    BY LowestWaits
  <2>2. target' \in Runs \cup {NoRun} /\ named' \subseteq Runs /\ doomed' \subseteq Runs
    BY <1>6, <2>1 DEF ReceiveCancel, Executing, TypeOK
  <2> QED
    BY <1>6, <2>2 DEF ReceiveCancel, TypeOK, ControlTypes
<1>7. ASSUME NEW c \in AllClosers, Close(c) \/ CloseInterrupts(c) \/ CloseEnds(c)
      PROVE  ControlTypes'
  <2>1. CASE Close(c)
    <3>1. doomed' \subseteq Runs
      BY <2>1, Numbers DEF Close, Flags, Runs, TypeOK
    <3>2. closer' \in [AllClosers -> {"idle", "flagged", "interrupted", "done"}]
      BY <2>1 DEF Close, Flags, TypeOK
    <3> QED
      BY <2>1, <3>1, <3>2 DEF Close, Flags, TypeOK, ControlTypes
  <2>2. CASE CloseInterrupts(c) \/ CloseEnds(c)
    <3>1. closer' \in [AllClosers -> {"idle", "flagged", "interrupted", "done"}]
      BY <2>2 DEF CloseInterrupts, CloseEnds, TypeOK
    <3> QED
      BY <2>2, <3>1 DEF CloseInterrupts, CloseEnds, TypeOK, ControlTypes
  <2> QED
    BY <1>7, <2>1, <2>2
<1>8. CASE AnswerError \/ AnswerUnrun \/ AnswerRun
  <2>1. PICK result \in Results : Answering(result)
    BY <1>8, LoopAnswers
  <2> QED
    BY <2>1, AnswerTypes DEF Answering, TypeOK, ControlTypes, NoRun
<1>9. CASE TakeRun
  <2>1. current' \in Runs
    BY <1>9, RunTaken DEF TakeRun, Looping
  <2> QED
    BY <1>9, <2>1 DEF TakeRun, TypeOK, ControlTypes
<1>10. ASSUME NEW request \in Requests, ReceiveRun(request) PROVE ControlTypes'
  BY <1>10 DEF ReceiveRun, TypeOK, ControlTypes
<1> QED
  BY <1>1, <1>2, <1>4, <1>5, <1>6, <1>7, <1>8, <1>9, <1>10, Actions

LEMMA NextThreadTypes ==
    ASSUME TypeOK, QueueInv, ThreadInv, [Next]_vars
    PROVE  ThreadTypes'
<1> USE DEF jobVars, threadVars, historyVars
<1>1. CASE ClientGoes \/ TakeEnd \/ TakeRun \/ UNCHANGED vars
  BY <1>1 DEF ClientGoes, TakeEnd, TakeRun, vars, TypeOK, ThreadTypes
<1>2. CASE Reach
  BY <1>2 DEF Reach, TypeOK, ThreadTypes, Results
<1>3. CASE StartRun
  BY <1>3 DEF StartRun, TypeOK, ThreadTypes, Threads
<1>4. CASE CancelInterrupts
  <2>1. target \in Runs
    BY <1>4 DEF CancelInterrupts, TypeOK
  <2> QED
    BY <1>4, <2>1, InterruptTypes DEF CancelInterrupts, TypeOK, ThreadTypes
<1>5. CASE Thread
  <2> USE DEF TypeOK, ThreadTypes
  <2>1. thread \notin {"none", "over"} => current \in Runs
    BY DEF ThreadInv
  <2>2. CASE Begin
    BY <2>1, <2>2 DEF Begin, Threads, Results
  <2>3. CASE Check \/ ReplaceEnvironment
    BY <2>3 DEF Check, ReplaceEnvironment, Threads, ProcessParts
  <2>4. CASE Refuse \/ CannotEnter
    BY <2>1, <2>4 DEF Refuse, CannotEnter, OverWithOwn, At, Threads, Results
  <2>5. CASE BeginCommand
    BY <2>1, <2>5 DEF BeginCommand, At, Threads
  <2>6. CASE Return
    BY <2>1, <2>6 DEF Return, At, Threads, Results
  <2>7. CASE Finish \/ CleanUp \/ Parse
    BY <2>1, <2>7 DEF Finish, FinishedNow, CleanUp, Parse, At, Threads
  <2>8. CASE Deliver
    <3>1. /\ cancelled' \subseteq Runs /\ pending' \in BOOLEAN
          /\ began' \subseteq Runs /\ completed' \subseteq Runs
      BY <2>8 DEF Deliver
    <3>2. /\ finished' \subseteq Runs /\ thread' \in Threads
          /\ outcome' \in Results \cup {"none"} /\ changed' \subseteq ProcessParts
      BY <2>1, <2>8 DEF Deliver, InterruptedUnguarded, InterruptedOutside, InterruptedEntering,
            InterruptedCommand, InterruptedCleanup, LeftByHandler, Threads, Results
    <3> QED
      BY <3>1, <3>2
  <2> QED
    BY <1>5, <2>2, <2>3, <2>4, <2>5, <2>6, <2>7, <2>8 DEF Thread
<1>6. CASE ProgressFails
  <2>1. current \in Runs
    BY <1>6 DEF ProgressFails, At, ThreadInv, TypeOK
  <2> QED
    BY <1>6, <2>1, InterruptTypes DEF ProgressFails, TypeOK, ThreadTypes
<1>7. ASSUME NEW i \in Ids, ReceiveCancel(i) PROVE ThreadTypes'
  BY <1>7 DEF ReceiveCancel, TypeOK, ThreadTypes
<1>8. ASSUME NEW c \in AllClosers, Close(c) \/ CloseInterrupts(c) \/ CloseEnds(c)
      PROVE  ThreadTypes'
  <2>1. active # NoRun => active \in Runs
    BY DEF TypeOK
  <2> QED
    BY <1>8, <2>1, InterruptTypes DEF Close, CloseInterrupts, CloseEnds, TypeOK, ThreadTypes
<1>9. CASE AnswerError \/ AnswerUnrun \/ AnswerRun
  <2>1. PICK result \in Results : Answering(result)
    BY <1>9, LoopAnswers
  <2> QED
    BY <2>1, AnswerTypes DEF Answering, TypeOK, ThreadTypes, Threads
<1>10. ASSUME NEW request \in Requests, ReceiveRun(request) PROVE ThreadTypes'
  BY <1>10 DEF ReceiveRun, TypeOK, ThreadTypes
<1> QED
  BY <1>1, <1>2, <1>3, <1>4, <1>5, <1>6, <1>7, <1>8, <1>9, <1>10, Actions

LEMMA NextTypes ==
    ASSUME TypeOK, QueueInv, ThreadInv, QueueInv', [Next]_vars
    PROVE  TypeOK'
BY NextQueueTypes, NextControlTypes, NextThreadTypes, TypedParts

-----------------------------------------------------------------------------
(***************************************************************************)
(* The run's thread and its interrupt.                                      *)
(***************************************************************************)
LEMMA QuietThread ==
    ASSUME ThreadInv, UNCHANGED <<loopVars, jobVars, threadVars, completed>>,
           target' \in {target, NoRun, active}
    PROVE  ThreadInv'
BY DEF ThreadInv, Over, loopVars, jobVars, threadVars

\* An interrupt is raised only in the thread of the run that is active, and only where
\* that thread is still to settle its outcome.
LEMMA InterruptThread ==
    ASSUME TypeOK, ThreadInv, NEW n \in Runs, n = active \/ Over(n), Interrupt(n),
           target' \in {target, NoRun},
           UNCHANGED <<loopVars, finished, threadVars, completed>>
    PROVE  ThreadInv'
<1> USE DEF loopVars, threadVars
<1>1. cancelled' = cancelled \cup {n} /\ pending' = (pending \/ Raises(n))
  BY DEF Interrupt
<1>2. ASSUME Raises(n) PROVE thread \in Interruptible /\ current = n
  <2>1. n = active /\ n # NoRun /\ ~Over(n)
    BY <1>2, RunFacts DEF Raises, Over
  <2>2. loop = "running" /\ current = n
    BY <2>1 DEF ThreadInv
  <2>3. thread \notin {"none", "spawned", "finished", "parsing", "over"}
    BY <1>2, <2>1, <2>2 DEF ThreadInv, Raises, ThreadKnown, Over
  <2> QED
    BY <2>2, <2>3 DEF TypeOK, Threads, Interruptible
<1>3. pending' => thread' \in Interruptible /\ current' \in cancelled'
  BY <1>1, <1>2 DEF ThreadInv
<1>4. \A m \in Runs : Over(m) => Over(m)'
  BY <1>1 DEF Over
<1>5. target' \in {NoRun, active'} \/ Over(target)'
  BY <1>4 DEF ThreadInv, TypeOK, Over
<1>6. thread \in {"parsing", "over"} => Over(current)'
  BY <1>1 DEF ThreadInv, Over
<1> QED
  BY <1>1, <1>3, <1>5, <1>6 DEF ThreadInv

LEMMA LoopThread ==
    ASSUME TypeOK, QueueInv, ThreadInv, CancelInv, TakeRun \/ TakeEnd \/ Reach \/ StartRun
    PROVE  ThreadInv'
<1>1. CASE TakeRun
  <2>1. current' \in Runs /\ current' # NoRun
    BY <1>1, RunTaken, RunFacts DEF TakeRun, Looping
  <2> QED
    BY <1>1, <2>1 DEF TakeRun, Looping, ThreadInv, Over, jobVars, threadVars, historyVars,
                      Interruptible
<1>2. CASE TakeEnd
  BY <1>2 DEF TakeEnd, Looping, ThreadInv, Over, jobVars, threadVars, historyVars, Interruptible
<1>3. CASE Reach
  BY <1>3 DEF Reach, ThreadInv, Over, jobVars, historyVars, Interruptible
<1>4. CASE StartRun
  <2>1. current \in Runs /\ current \notin completed
    BY <1>4 DEF StartRun, ThreadInv, TypeOK, CancelInv, PastInv, NotBegun
  <2> QED
    BY <1>4, <2>1 DEF StartRun, MayRun, ThreadInv, Over, jobVars, historyVars, Interruptible
<1> QED
  BY <1>1, <1>2, <1>3, <1>4

LEMMA AnswerThread ==
    ASSUME TypeOK, ThreadInv, NEW result, Answering(result)
    PROVE  ThreadInv'
<1>1. /\ loop' = "getting" /\ current' = NoRun /\ outcome' = "none"
      /\ active' = NoRun /\ thread' = "none"
      /\ UNCHANGED <<target, jobVars, changed, completed>>
  BY AnswerTypes DEF Answering
<1>2. target \in {NoRun, NoRun} \/ Over(target)
  BY DEF Answering, ThreadInv
<1>3. ~pending /\ changed = {}
  BY DEF Answering, ThreadInv, Interruptible
<1> QED
  BY <1>1, <1>2, <1>3 DEF ThreadInv, Over, jobVars

LEMMA StepsThread ==
    ASSUME TypeOK, ThreadInv, CancelInv, Thread
    PROVE  ThreadInv'
<1>1. UNCHANGED <<target, loop, current, active>>
  BY ThreadKeeps DEF OthersUnchanged, loopVars
<1>2. thread # "none" => current \in Runs /\ loop = "running"
  BY DEF ThreadInv, TypeOK
<1> USE <1>1, <1>2 DEF ThreadInv, Over, jobVars, historyVars, Interruptible
<1>3. CASE Begin
  BY <1>3 DEF Begin
<1>4. CASE Check \/ ReplaceEnvironment
  BY <1>4 DEF Check, ReplaceEnvironment, At
<1>5. CASE Refuse \/ CannotEnter
  BY <1>5 DEF Refuse, CannotEnter, OverWithOwn, At
<1>6. CASE BeginCommand
  BY <1>6 DEF BeginCommand, At
<1>7. CASE Return
  BY <1>7 DEF Return, At
<1>8. CASE Finish \/ CleanUp \/ Parse
  BY <1>8 DEF Finish, FinishedNow, CleanUp, Parse, At
<1>9. CASE Deliver
  <2>1. /\ pending /\ ~pending' /\ current \in cancelled /\ thread \in Interruptible
        /\ UNCHANGED <<cancelled, completed>>
    BY <1>9 DEF Deliver
  <2>2. CASE InterruptedUnguarded
    BY <2>1, <2>2 DEF InterruptedUnguarded
  <2>3. CASE InterruptedOutside
    BY <2>1, <2>3 DEF InterruptedOutside
  <2>4. CASE InterruptedEntering
    BY <2>1, <2>4 DEF InterruptedEntering, LeftByHandler
  <2>5. CASE InterruptedCommand
    BY <2>1, <2>5 DEF InterruptedCommand
  <2>6. CASE InterruptedCleanup
    BY <2>1, <2>6 DEF InterruptedCleanup
  <2> QED
    BY <1>9, <2>2, <2>3, <2>4, <2>5, <2>6 DEF Deliver
<1> QED
  BY <1>3, <1>4, <1>5, <1>6, <1>7, <1>8, <1>9 DEF Thread

LEMMA NextThread ==
    ASSUME TypeOK, QueueInv, ThreadInv, CancelInv, [Next]_vars
    PROVE  ThreadInv'
<1>1. CASE ClientGoes \/ UNCHANGED vars
  BY <1>1, QuietThread DEF ClientGoes, vars, historyVars
<1>2. ASSUME NEW request \in Requests, ReceiveRun(request) PROVE ThreadInv'
  BY <1>2, QuietThread DEF ReceiveRun, historyVars
<1>3. ASSUME NEW i \in Ids, ReceiveCancel(i) PROVE ThreadInv'
  BY <1>3, QuietThread DEF ReceiveCancel
<1>4. ASSUME NEW c \in AllClosers, Close(c) \/ CloseInterrupts(c) \/ CloseEnds(c)
      PROVE  ThreadInv'
  <2>1. CASE Close(c) \/ CloseEnds(c)
    BY <2>1, QuietThread DEF Close, CloseEnds, historyVars
  <2>2. CASE CloseInterrupts(c) /\ active = NoRun
    BY <2>2, QuietThread DEF CloseInterrupts, historyVars, jobVars
  <2>3. CASE CloseInterrupts(c) /\ active # NoRun
    <3>1. active \in Runs
      BY <2>3 DEF TypeOK
    <3> QED
      BY <2>3, <3>1, InterruptThread DEF CloseInterrupts, historyVars
  <2> QED
    BY <1>4, <2>1, <2>2, <2>3
<1>5. CASE CancelInterrupts
  <2>1. target \in Runs /\ (target = active \/ Over(target))
    BY <1>5 DEF CancelInterrupts, TypeOK, ThreadInv
  <2> QED
    BY <1>5, <2>1, InterruptThread DEF CancelInterrupts, historyVars
<1>6. CASE ProgressFails
  <2>1. current \in Runs /\ current = active
    BY <1>6 DEF ProgressFails, At, TypeOK, ThreadInv
  <2> QED
    BY <1>6, <2>1, InterruptThread DEF ProgressFails
<1>7. CASE AnswerError \/ AnswerUnrun \/ AnswerRun
  BY <1>7, LoopAnswers, AnswerThread
<1> QED
  BY <1>1, <1>2, <1>3, <1>4, <1>5, <1>6, <1>7, LoopThread, StepsThread, Actions

-----------------------------------------------------------------------------
(***************************************************************************)
(* Cancels and closes.                                                      *)
(***************************************************************************)

\* The session stays closed, and what was named stays named.
LEMMA Lasting ==
    ASSUME [Next]_vars
    PROVE  (closing => closing') /\ named \subseteq named' /\ doomed \subseteq doomed'
<1> USE DEF closeVars, historyVars
<1>1. CASE ClientGoes \/ CancelInterrupts \/ TakeRun \/ TakeEnd \/ Reach \/ StartRun
             \/ ProgressFails
  BY <1>1 DEF ClientGoes, CancelInterrupts, TakeRun, TakeEnd, Reach, StartRun, ProgressFails
<1>2. CASE AnswerError \/ AnswerUnrun \/ AnswerRun
  BY <1>2 DEF AnswerError, AnswerUnrun, AnswerRun, Answer, Flags
<1>3. CASE Thread
  BY <1>3, ThreadKeeps DEF OthersUnchanged
<1>4. ASSUME NEW request \in Requests, ReceiveRun(request)
      PROVE  (closing => closing') /\ named \subseteq named' /\ doomed \subseteq doomed'
  BY <1>4 DEF ReceiveRun
<1>5. ASSUME NEW i \in Ids, ReceiveCancel(i)
      PROVE  (closing => closing') /\ named \subseteq named' /\ doomed \subseteq doomed'
  BY <1>5 DEF ReceiveCancel
<1>6. ASSUME NEW c \in AllClosers, Close(c) \/ CloseInterrupts(c) \/ CloseEnds(c)
      PROVE  (closing => closing') /\ named \subseteq named' /\ doomed \subseteq doomed'
  BY <1>6 DEF Close, CloseInterrupts, CloseEnds, Flags
<1>7. UNCHANGED vars => (closing' = closing) /\ named' = named /\ doomed' = doomed
  BY DEF vars
<1> QED
  BY <1>1, <1>2, <1>3, <1>4, <1>5, <1>6, <1>7, Actions

\* Only runs that did not begin are overtaken by a cancel or a close; by a cancel, only
\* the first of its id that waits.
LEMMA DoomedGrows ==
    ASSUME TypeOK, QueueInv, ThreadInv, [Next]_vars
    PROVE  /\ \A n \in doomed' : n \in doomed \/ (n \in Runs /\ n <= sent /\ NotBegun(n))
           /\ doomed' = doomed \/ closing' \/ \E i \in Ids : ReceiveCancel(i)
<1> USE DEF closeVars, historyVars
<1>1. CASE ClientGoes \/ CancelInterrupts \/ TakeRun \/ TakeEnd \/ Reach \/ StartRun
  BY <1>1 DEF ClientGoes, CancelInterrupts, TakeRun, TakeEnd, Reach, StartRun
<1>2. ASSUME NEW c, Flags(c) \/ ProgressFails
      PROVE  /\ \A n \in doomed' : n \in doomed \/ (n \in Runs /\ n <= sent /\ NotBegun(n))
             /\ closing'
  <2>1. ASSUME NEW n \in doomed'
        PROVE  n \in doomed \/ (n \in 1 .. sent /\ NotBegun(n))
    BY <1>2, <2>1 DEF Flags, ProgressFails, NotBegun, InQueue
  <2>2. \A n \in 1 .. sent : n \in Runs /\ n <= sent
    BY Numbers DEF Runs
  <2> QED
    BY <1>2, <2>1, <2>2 DEF Flags, ProgressFails
<1>3. CASE AnswerError \/ AnswerUnrun \/ AnswerRun
  <2>1. doomed' = doomed \/ Flags("loop")
    BY <1>3 DEF AnswerError, AnswerUnrun, AnswerRun, Answer
  <2> QED
    BY <1>2, <2>1
<1>4. CASE Thread
  BY <1>4, ThreadKeeps
<1>5. ASSUME NEW request \in Requests, ReceiveRun(request) PROVE doomed' = doomed
  BY <1>5 DEF ReceiveRun
<1>6. ASSUME NEW i \in Ids, ReceiveCancel(i), NEW n \in doomed', n \notin doomed
      PROVE  n \in Runs /\ n <= sent /\ NotBegun(n)
  <2>1. n \in Waiting(i) /\ n \in Runs
    BY <1>6, LowestWaits DEF ReceiveCancel
  <2>2. NotBegun(n)
    BY <2>1 DEF Waiting, NotBegun, InQueue
  <2>3. n <= sent
    BY <2>1, <2>2, RunFacts DEF NotBegun, QueueInv, InTurn
  <2> QED
    BY <2>1, <2>2, <2>3
<1>7. ASSUME NEW c \in AllClosers, Close(c) \/ CloseInterrupts(c) \/ CloseEnds(c)
      PROVE  doomed' = doomed \/ Flags(c)
  BY <1>7 DEF Close, CloseInterrupts, CloseEnds
<1>8. UNCHANGED vars => doomed' = doomed
  BY DEF vars
<1> QED
  BY <1>1, <1>2, <1>3, <1>4, <1>5, <1>6, <1>7, <1>8, Actions

\* A run that waits, or is taken and not begun, is behind those that were.
LEMMA CurrentBegun ==
    ASSUME QueueInv, NEW n \in Runs, current = n, loop \notin {"got", "reached"}
    PROVE  ~NotBegun(n) /\ n <= sent /\ Len(answers) < n
BY RunFacts DEF QueueInv, InTurn, NotBegun

LEMMA NotBegunStays ==
    ASSUME TypeOK, QueueInv, ThreadInv, [Next]_vars, NEW n \in Runs, NotBegun(n)'
    PROVE  NotBegun(n) \/ n = sent + 1
<1> USE DEF NotBegun, clientVars, queueVars, loopVars
<1>1. CASE ClientGoes \/ CancelInterrupts \/ StartRun \/ TakeEnd \/ Reach
  BY <1>1 DEF ClientGoes, CancelInterrupts, StartRun, TakeEnd, Looping, Reach, InQueue
<1>2. CASE Thread
  BY <1>2, ThreadKeeps DEF OthersUnchanged, InQueue
<1>3. CASE ProgressFails
  <2>1. InQueue(n)' => InQueue(n)
    BY <1>3, EndQueued DEF ProgressFails, InQueue
  <2> QED
    BY <1>3, <2>1 DEF ProgressFails
<1>4. CASE UNCHANGED vars
  BY <1>4 DEF vars, InQueue
<1>5. ASSUME NEW i \in Ids, ReceiveCancel(i) PROVE NotBegun(n)
  BY <1>5 DEF ReceiveCancel, InQueue
<1>6. ASSUME NEW c \in AllClosers, Close(c) \/ CloseInterrupts(c) \/ CloseEnds(c)
      PROVE  NotBegun(n)
  <2>1. InQueue(n)' => InQueue(n)
    BY <1>6, EndQueued DEF Close, CloseInterrupts, CloseEnds, InQueue
  <2> QED
    BY <1>6, <2>1 DEF Close, CloseInterrupts, CloseEnds
<1>7. CASE AnswerError \/ AnswerUnrun \/ AnswerRun
  BY <1>7 DEF AnswerError, AnswerUnrun, AnswerRun, Answer, InQueue
<1>8. CASE TakeRun
  <2>1. /\ InQueue(Head(queue)) /\ (InQueue(n)' => InQueue(n))
    BY <1>8, RunTaken DEF TakeRun, Looping
  <2> QED
    BY <1>8, <2>1 DEF TakeRun
<1>9. ASSUME NEW request \in Requests, ReceiveRun(request) PROVE NotBegun(n) \/ n = sent + 1
  <2>1. sent + 1 \in Runs
    BY <1>9, ReceiveRunQueue
  <2>2. InQueue(n)' => InQueue(n) \/ n = sent + 1
    BY <1>9, <2>1, RunQueued DEF ReceiveRun
  <2> QED
    BY <1>9, <2>2 DEF ReceiveRun
<1> QED
  BY <1>1, <1>2, <1>3, <1>4, <1>5, <1>6, <1>7, <1>8, <1>9, Actions

\* Only the active run's thread begins a command, or ends one.
LEMMA BeganGrows ==
    ASSUME TypeOK, ThreadInv, [Next]_vars
    PROVE  \A n \in began' \cup completed' :
              n \in began \cup completed \/ (n \in Runs /\ n = current /\ loop = "running")
<1> USE DEF historyVars
<1>1. CASE Thread
  <2>1. began' \cup completed' \subseteq began \cup completed \cup {current}
    BY <1>1 DEF Thread, Begin, Check, Refuse, ReplaceEnvironment, CannotEnter, BeginCommand,
                Return, Finish, CleanUp, Parse, Deliver, OverWithOwn
  <2>2. thread # "none"
    BY <1>1 DEF Thread, Begin, Check, Refuse, ReplaceEnvironment, CannotEnter, BeginCommand,
                Return, Finish, CleanUp, Parse, Deliver, At, InterruptedUnguarded,
                InterruptedOutside, InterruptedEntering, InterruptedCommand, InterruptedCleanup
  <2> QED
    BY <2>1, <2>2 DEF ThreadInv, TypeOK
<1>2. CASE ~Thread
  <2>1. UNCHANGED <<began, completed>>
    BY <1>2, Actions DEF ClientGoes, CancelInterrupts, TakeRun, TakeEnd, Reach, StartRun,
             AnswerError, AnswerUnrun, AnswerRun, ProgressFails, vars, ReceiveRun,
             ReceiveCancel, Close, CloseInterrupts, CloseEnds
  <2> QED
    BY <2>1
<1> QED
  BY <1>1, <1>2

LEMMA SentGrows ==
    ASSUME TypeOK, [Next]_vars
    PROVE  sent' \in {sent, sent + 1}
<1>1. ASSUME NEW request \in Requests, ReceiveRun(request) PROVE sent' = sent + 1
  BY <1>1 DEF ReceiveRun
<1>2. Thread => sent' = sent
  BY ThreadKeeps DEF OthersUnchanged, clientVars
<1> QED
  BY <1>1, <1>2, Actions DEF ClientGoes, CancelInterrupts, TakeRun, TakeEnd, Reach, StartRun,
             AnswerError, AnswerUnrun, AnswerRun, ProgressFails, vars,
             ReceiveCancel, Close, CloseInterrupts, CloseEnds, clientVars

LEMMA NextPast ==
    ASSUME TypeOK, TypeOK', QueueInv, QueueInv', ThreadInv, CancelInv, [Next]_vars
    PROVE  PastInv'
<1>1. sent \in Nat /\ sent' \in {sent, sent + 1}
  BY Numbers, SentGrows
<1>2. ASSUME NEW n \in doomed' \cup began' \cup completed'
      PROVE  n \in Runs /\ n <= sent
  <2>1. n \in Runs
    BY DEF TypeOK
  <2>2. n \in doomed \cup began \cup completed \/ NotBegun(n) \/ (n = current /\ loop = "running")
    BY <2>1, BeganGrows, DoomedGrows
  <2>3. NotBegun(n) => n <= sent
    BY <2>1, RunFacts DEF NotBegun, QueueInv, InTurn
  <2> QED
    BY <2>1, <2>2, <2>3, CurrentBegun DEF CancelInv, PastInv
<1>3. ASSUME NEW n \in began' \cup completed' PROVE ~NotBegun(n)'
  <2>1. n \in Runs /\ n <= sent /\ n # sent + 1
    BY <1>1, <1>2, RunFacts
  <2>2. ~NotBegun(n)
    BY <2>1, BeganGrows, CurrentBegun DEF CancelInv, PastInv
  <2> QED
    BY <2>1, <2>2, NotBegunStays
<1>4. \A n \in doomed' \cup began' \cup completed' : n <= sent'
  <2> SUFFICES ASSUME NEW n \in doomed' \cup began' \cup completed' PROVE n <= sent'
    OBVIOUS
  <2>1. n \in Nat /\ n <= sent
    BY <1>2, RunFacts
  <2> QED
    BY <1>1, <2>1
<1> QED
  BY <1>3, <1>4 DEF PastInv

LEMMA NextNamed ==
    ASSUME TypeOK, QueueInv, ThreadInv, CancelInv, [Next]_vars
    PROVE  NamedInv'
<1> USE DEF closeVars, jobVars, historyVars, NamedInv, CancelInv
<1>1. (closing => closing') /\ named \subseteq named'
  BY Lasting
<1>2. UNCHANGED <<closer, cancelled, target>> => NamedInv'
  BY <1>1
<1>3. ASSUME NEW c \in AllClosers, Flags(c), UNCHANGED <<cancelled, target>> PROVE NamedInv'
  BY <1>1, <1>3 DEF Flags
<1>4. CASE ClientGoes \/ TakeRun \/ TakeEnd \/ Reach \/ StartRun
  BY <1>2, <1>4 DEF ClientGoes, TakeRun, TakeEnd, Reach, StartRun
<1>5. CASE CancelInterrupts
  BY <1>1, <1>5 DEF CancelInterrupts, Interrupt
<1>6. CASE ProgressFails
  BY <1>1, <1>6 DEF ProgressFails, Interrupt
<1>7. CASE AnswerError \/ AnswerUnrun \/ AnswerRun
  <2>1. Flags("loop") \/ UNCHANGED closer
    BY <1>7 DEF AnswerError, AnswerUnrun, AnswerRun, Answer
  <2>2. UNCHANGED <<cancelled, target>>
    BY <1>7 DEF AnswerError, AnswerUnrun, AnswerRun
  <2> QED
    BY <1>2, <1>3, <2>1, <2>2 DEF AllClosers
<1>8. CASE Thread
  <2>1. UNCHANGED cancelled
    BY <1>8 DEF Thread, Begin, Check, Refuse, ReplaceEnvironment, CannotEnter, BeginCommand,
                Return, Finish, CleanUp, Parse, Deliver
  <2> QED
    BY <1>2, <1>8, <2>1, ThreadKeeps DEF OthersUnchanged
<1>9. ASSUME NEW request \in Requests, ReceiveRun(request) PROVE NamedInv'
  BY <1>2, <1>9 DEF ReceiveRun
<1>10. ASSUME NEW i \in Ids, ReceiveCancel(i) PROVE NamedInv'
  <2>1. CASE target' = target
    BY <1>2, <1>10, <2>1 DEF ReceiveCancel
  <2>2. CASE target' = active /\ active # NoRun /\ named' = named \cup ({active} \ Answered)
    <3>1. active \in Runs /\ active = current /\ loop = "running"
      BY <2>2 DEF ThreadInv, TypeOK
    <3>2. Len(answers) < active /\ active \in Nat
      BY <3>1, CurrentBegun, RunFacts
    <3>3. active \notin Answered
      <4>1. SUFFICES ASSUME NEW k \in DOMAIN answers, answers[k].run = active PROVE FALSE
        BY DEF Answered
      <4>2. k = active /\ k <= Len(answers) /\ k \in Nat /\ Len(answers) \in Nat
        BY <4>1, Numbers DEF QueueInv
      <4> QED
        BY <3>2, <4>2
    <3> QED
      BY <1>1, <1>10, <2>2, <3>3 DEF ReceiveCancel
  <2> QED
    BY <1>10, <2>1, <2>2 DEF ReceiveCancel, Executing
<1>11. ASSUME NEW c \in AllClosers, Close(c) \/ CloseInterrupts(c) \/ CloseEnds(c)
       PROVE  NamedInv'
  <2>1. CASE Close(c)
    BY <1>3, <2>1 DEF Close
  <2>2. CASE CloseInterrupts(c)
    <3>1. closing /\ (\A b \in AllClosers \ {c} : closer'[b] = closer[b])
      BY <2>2 DEF CloseInterrupts, TypeOK
    <3>2. closing' /\ target' = target
      BY <1>1, <2>2, <3>1 DEF CloseInterrupts
    <3> QED
      BY <1>1, <3>2
  <2>3. CASE CloseEnds(c)
    BY <1>1, <2>3 DEF CloseEnds, TypeOK
  <2> QED
    BY <1>11, <2>1, <2>2, <2>3
<1>12. CASE UNCHANGED vars
  BY <1>2, <1>12 DEF vars
<1> QED
  BY <1>4, <1>5, <1>6, <1>7, <1>8, <1>9, <1>10, <1>11, <1>12, Actions

-----------------------------------------------------------------------------
\* Steps that keep the runs that wait and the marks.
LEMMA QuietMark ==
    ASSUME MarkInv, closing => closing', named \subseteq named',
           \A i \in Ids : Waiting(i)' = Waiting(i), marked \subseteq Ids, marked' = marked,
           doomed' = doomed \/ closing',
           loop' = "reached" => loop = "reached" /\ UNCHANGED <<current, outcome>>,
           loop' = "running" => current' \notin doomed'
    PROVE  MarkInv'
<1>1. \A i \in marked' : Waiting(i)' # {} /\ Lowest(Waiting(i)') \in named'
  BY DEF MarkInv
<1>2. loop' = "reached" /\ outcome' = "130" => current' \in named'
  BY DEF MarkInv
<1>3. \A i \in Ids : \A n \in Waiting(i)' : n \in doomed' =>
          closing' \/ (i \in marked' /\ n = Lowest(Waiting(i)'))
  BY DEF MarkInv
<1>4. loop' = "reached" /\ current' \in doomed' => closing' \/ outcome' = "130"
  BY DEF MarkInv
<1> QED
  BY <1>1, <1>2, <1>3, <1>4 DEF MarkInv

LEMMA LowestIs ==
    ASSUME NEW S, S \subseteq Nat, NEW l \in S, \A m \in S : l <= m
    PROVE  Lowest(S) = l
<1>1. Lowest(S) \in S /\ \A m \in S : Lowest(S) <= m
  BY DEF Lowest
<1>2. Lowest(S) <= l /\ l <= Lowest(S) /\ Lowest(S) \in Nat /\ l \in Nat
  BY <1>1
<1> QED
  BY <1>2

\* A run that comes is the last of its id.
LEMMA ReceiveRunMark ==
    ASSUME TypeOK, QueueInv, ThreadInv, CancelInv, NEW request \in Requests, ReceiveRun(request)
    PROVE  MarkInv'
<1> DEFINE n == sent + 1
<1>1. /\ n \in Runs
      /\ \A i \in Ids : Waiting(i)' = IF i = request.id THEN Waiting(i) \cup {n} ELSE Waiting(i)
  BY ReceiveRunQueue
<1>2. UNCHANGED <<marked, named, doomed, closing, loop, current, outcome>>
  BY DEF ReceiveRun, closeVars, loopVars, threadVars, historyVars
<1>3. \A i \in Ids : \A m \in Waiting(i) : m \in Nat /\ n \in Nat /\ m < n
  <2>1. sent \in Nat
    BY Numbers
  <2>2. ASSUME NEW i \in Ids, NEW m \in Waiting(i) PROVE m <= sent /\ m \in Nat
    BY RunFacts DEF Waiting, InQueue, QueueInv, InTurn
  <2> QED
    BY <2>1, <2>2
<1>4. ASSUME NEW i \in Ids, Waiting(i) # {} PROVE Lowest(Waiting(i)') = Lowest(Waiting(i))
  <2>1. /\ Lowest(Waiting(i)) \in Waiting(i) /\ \A m \in Waiting(i) : Lowest(Waiting(i)) <= m
    BY <1>4, LowestWaits
  <2>2. Lowest(Waiting(i)) < n /\ Lowest(Waiting(i)) \in Nat /\ n \in Nat
    BY <1>3, <2>1
  <2>3. \A m \in Waiting(i)' : Lowest(Waiting(i)) <= m
    BY <1>1, <2>1, <2>2
  <2>4. Lowest(Waiting(i)) \in Waiting(i)'
    BY <1>1, <2>1
  <2>5. Waiting(i)' \subseteq Nat
    BY <1>1, WaitingRuns, RunFacts
  <2> QED
    BY <2>3, <2>4, <2>5, LowestIs
<1>5. n \notin doomed
  <2>1. \A m \in doomed : m <= sent
    BY DEF CancelInv, PastInv
  <2> QED
    BY <2>1, Numbers
<1>6. marked \subseteq Ids
  BY DEF TypeOK
<1>7. MarkInv
  BY DEF CancelInv
<1> HIDE DEF n
<1>8. \A i \in marked' : Waiting(i)' # {} /\ Lowest(Waiting(i)') \in named'
  BY <1>1, <1>2, <1>4, <1>6, <1>7 DEF MarkInv
<1>9. ASSUME NEW i \in Ids, NEW m \in Waiting(i)', m \in doomed'
      PROVE  closing' \/ (i \in marked' /\ m = Lowest(Waiting(i)'))
  <2>1. m \in Waiting(i)
    BY <1>1, <1>2, <1>5, <1>9
  <2> QED
    BY <1>2, <1>4, <1>7, <1>9, <2>1 DEF MarkInv
<1> QED
  BY <1>2, <1>7, <1>8, <1>9 DEF MarkInv

\* The run that is reached is the first of its id that waits, and takes the mark.
LEMMA ReachMark ==
    ASSUME TypeOK, QueueInv, ThreadInv, CancelInv, Reach
    PROVE  MarkInv'
<1> DEFINE i0 == asked[current].id
<1>1. /\ current \in Runs /\ i0 \in Ids /\ ~InQueue(current)
      /\ \A i \in Ids : Waiting(i)' = Waiting(i) \ {current}
  BY ReachQueue DEF Requests
<1>2. /\ loop = "got" /\ loop' = "reached" /\ marked' = marked \ {i0}
      /\ outcome' = (IF i0 \in marked THEN "130" ELSE "none")
      /\ UNCHANGED <<named, doomed, closing, current>>
  BY DEF Reach, Unmarked, closeVars, historyVars
<1>3. \A i \in Ids : current \in Waiting(i) <=> i = i0
  BY <1>1, <1>2 DEF Waiting, InQueue
<1>4. Lowest(Waiting(i0)) = current
  <2>1. \A m \in Waiting(i0) : m \in Nat /\ current <= m
    BY <1>1, RunFacts DEF Waiting, InQueue, QueueInv, InTurn
  <2>2. current \in Waiting(i0) /\ Waiting(i0) \subseteq Nat
    BY <1>1, <1>3, <2>1
  <2> QED
    BY <2>1, <2>2, LowestIs
<1>5. MarkInv /\ marked \subseteq Ids
  BY DEF CancelInv, TypeOK
<1> HIDE DEF i0
<1>6. \A i \in Ids \ {i0} : Waiting(i)' = Waiting(i)
  BY <1>1, <1>3
<1>7. \A i \in marked' : Waiting(i)' # {} /\ Lowest(Waiting(i)') \in named'
  BY <1>2, <1>5, <1>6 DEF MarkInv
<1>8. outcome' = "130" => current' \in named'
  BY <1>2, <1>4, <1>5 DEF MarkInv
<1>9. ASSUME NEW i \in Ids, NEW m \in Waiting(i)', m \in doomed'
      PROVE  closing' \/ (i \in marked' /\ m = Lowest(Waiting(i)'))
  <2>1. m \in Waiting(i) /\ m # current /\ m \in doomed
    BY <1>1, <1>2, <1>9
  <2>2. closing \/ (i \in marked /\ m = Lowest(Waiting(i)))
    BY <1>5, <2>1 DEF MarkInv
  <2> QED
    BY <1>2, <1>4, <1>6, <2>1, <2>2
<1>10. current' \in doomed' => closing' \/ outcome' = "130"
  BY <1>1, <1>2, <1>3, <1>5 DEF MarkInv
<1> QED
  BY <1>2, <1>7, <1>8, <1>9, <1>10 DEF MarkInv

LEMMA ReceiveCancelMark ==
    ASSUME TypeOK, QueueInv, ThreadInv, CancelInv, NEW i \in Ids, ReceiveCancel(i)
    PROVE  MarkInv'
<1>1. /\ UNCHANGED <<closing, loop, current, outcome>> /\ named \subseteq named'
      /\ \A k \in Ids : Waiting(k)' = Waiting(k)
  BY QuietQueue DEF ReceiveCancel, closeVars, loopVars, threadVars, clientVars
<1>2. MarkInv /\ marked \subseteq Ids
  BY DEF CancelInv, TypeOK
<1>3. CASE UNCHANGED <<marked, doomed>>
  BY <1>1, <1>2, <1>3, QuietMark DEF MarkInv
<1>4. CASE ~UNCHANGED <<marked, doomed>>
  <2>1. /\ queued[i] > 0 /\ marked' = marked \cup {i}
        /\ named' = named \cup {Lowest(Waiting(i))}
        /\ doomed' = doomed \cup {Lowest(Waiting(i))}
    BY <1>4 DEF ReceiveCancel
  <2>2. Lowest(Waiting(i)) \in Waiting(i) /\ Lowest(Waiting(i)) \in Runs
    BY <2>1, LowestWaits
  <2>3. asked[Lowest(Waiting(i))].id = i
    BY <2>2 DEF Waiting
  <2>4. loop \in {"reached", "running"} => current # Lowest(Waiting(i))
    <3> SUFFICES ASSUME loop \in {"reached", "running"} PROVE current # Lowest(Waiting(i))
      OBVIOUS
    <3>1. InQueue(Lowest(Waiting(i)))
      BY <2>2 DEF Waiting, InQueue
    <3>2. current < Lowest(Waiting(i)) /\ current \in Nat
      BY <2>2, <3>1, Numbers DEF QueueInv, InTurn
    <3> QED
      BY <3>2
  <2>5. \A k \in marked' : Waiting(k)' # {} /\ Lowest(Waiting(k)') \in named'
    BY <1>1, <1>2, <2>1, <2>2 DEF MarkInv
  <2>6. ASSUME NEW k \in Ids, NEW m \in Waiting(k)', m \in doomed'
        PROVE  closing' \/ (k \in marked' /\ m = Lowest(Waiting(k)'))
    <3>1. asked[m].id = k
      BY <1>1, <2>6 DEF Waiting
    <3> QED
      BY <1>1, <1>2, <2>1, <2>3, <2>6, <3>1 DEF MarkInv
  <2> QED
    BY <1>1, <1>2, <2>1, <2>4, <2>5, <2>6 DEF MarkInv
<1> QED
  BY <1>3, <1>4

LEMMA NextMark ==
    ASSUME TypeOK, QueueInv, ThreadInv, CancelInv, [Next]_vars
    PROVE  MarkInv'
<1> USE DEF closeVars, queueVars, clientVars, loopVars, threadVars, historyVars
<1>1. (closing => closing') /\ named \subseteq named' /\ MarkInv /\ marked \subseteq Ids
  BY Lasting DEF CancelInv, TypeOK
<1>2. loop = "running" => current \in Runs /\ current \notin doomed /\ ~NotBegun(current)
  BY CurrentBegun DEF ThreadInv, TypeOK, CancelInv, MarkInv
<1>3. loop = "running" /\ current' = current /\ ~(\E i \in Ids : ReceiveCancel(i)) =>
         current' \notin doomed'
  BY <1>2, DoomedGrows
<1>4. CASE ClientGoes \/ CancelInterrupts
  <2>1. UNCHANGED <<sent, asked, answers, queued, current, queue, loop, marked, outcome, doomed>>
        /\ (gone => gone')
    BY <1>4 DEF ClientGoes, CancelInterrupts
  <2>2. \A i \in Ids : Waiting(i)' = Waiting(i)
    BY <2>1, QuietQueue
  <2> QED
    BY <1>1, <2>1, <2>2, QuietMark DEF MarkInv
<1>5. CASE StartRun
  <2>1. /\ UNCHANGED <<sent, asked, answers, queued, current, queue, gone, marked, doomed>>
        /\ loop = "reached" /\ loop' = "running" /\ ~closing /\ outcome = "none"
    BY <1>5 DEF StartRun, MayRun
  <2>2. \A i \in Ids : Waiting(i)' = Waiting(i)
    BY <2>1, QuietQueue
  <2>3. current' \notin doomed'
    BY <1>1, <2>1 DEF MarkInv
  <2> QED
    BY <1>1, <2>1, <2>2, <2>3, QuietMark
<1>6. CASE TakeRun \/ TakeEnd
  <2>1. loop' \in {"got", "ended"} /\ UNCHANGED <<marked, doomed>>
    BY <1>6 DEF TakeRun, TakeEnd
  <2>2. TakeEnd => UNCHANGED <<sent, asked, answers, queued, current, queue, gone>>
                   /\ loop = "getting" /\ loop' = "ended"
    BY DEF TakeEnd, Looping
  <2>3. \A i \in Ids : Waiting(i)' = Waiting(i)
    BY <1>6, <2>2, QuietQueue, TakeRunQueue
  <2> QED
    BY <1>1, <2>1, <2>3, QuietMark
<1>7. CASE Thread
  <2>1. UNCHANGED <<sent, asked, answers, queued, current, queue, loop, gone, marked, doomed>>
    BY <1>7, ThreadKeeps DEF OthersUnchanged
  <2>2. loop = "running"
    <3>1. thread # "none"
      BY <1>7 DEF Thread, Begin, Check, Refuse, ReplaceEnvironment, CannotEnter, BeginCommand,
                  Return, Finish, CleanUp, Parse, Deliver, At, InterruptedUnguarded,
                  InterruptedOutside, InterruptedEntering, InterruptedCommand,
                  InterruptedCleanup
    <3> QED
      BY <3>1 DEF ThreadInv
  <2>3. \A i \in Ids : Waiting(i)' = Waiting(i)
    BY <2>1, QuietQueue
  <2> QED
    BY <1>1, <2>1, <2>2, <2>3, QuietMark DEF MarkInv
<1>8. CASE ProgressFails
  <2>1. /\ UNCHANGED <<sent, asked, answers, queued, current, loop, gone, marked, outcome>>
        /\ queue' = queue \/ queue' = Ended(queue)
    BY <1>8 DEF ProgressFails
  <2>2. \A i \in Ids : Waiting(i)' = Waiting(i)
    BY <2>1, QuietQueue
  <2>3. closing' /\ loop = "running"
    BY <1>8 DEF ProgressFails, At, ThreadInv
  <2>4. current \notin doomed'
    <3>1. ~InQueue(current)
      BY <1>2, <2>3 DEF NotBegun
    <3> QED
      BY <1>2, <1>8, <2>3, <3>1 DEF ProgressFails, InQueue
  <2> QED
    BY <1>1, <2>1, <2>2, <2>3, <2>4, QuietMark
<1>9. ASSUME NEW c \in AllClosers, Close(c) \/ CloseInterrupts(c) \/ CloseEnds(c)
      PROVE  MarkInv'
  <2>1. /\ UNCHANGED <<sent, asked, answers, queued, current, loop, gone, marked, outcome>>
        /\ queue' = queue \/ queue' = Ended(queue)
        /\ doomed' = doomed \/ Flags(c)
    BY <1>9 DEF Close, CloseInterrupts, CloseEnds
  <2>2. \A i \in Ids : Waiting(i)' = Waiting(i)
    BY <2>1, QuietQueue
  <2>3. loop' = "running" => current' \notin doomed'
    <3>1. loop = "running" => ~InQueue(current)
      BY <1>2 DEF NotBegun
    <3> QED
      BY <1>2, <2>1, <3>1 DEF Flags, InQueue
  <2>4. doomed' = doomed \/ closing'
    BY <2>1 DEF Flags
  <2> QED
    BY <1>1, <2>1, <2>2, <2>3, <2>4, QuietMark
<1>10. CASE AnswerError \/ AnswerUnrun \/ AnswerRun
  <2>1. PICK result \in Results : Answering(result)
    BY <1>10, LoopAnswers
  <2>2. /\ Answer(result) /\ current # NoRun /\ loop # "got"
        /\ UNCHANGED <<clientVars, queueVars>> /\ marked' = marked /\ loop' = "getting"
    BY <2>1 DEF Answering, Answer
  <2>3. \A i \in Ids : Waiting(i)' = Waiting(i)
    BY <2>2, AnswerQueue
  <2>4. doomed' = doomed \/ closing'
    BY <2>2 DEF Answer, Flags
  <2> QED
    BY <1>1, <2>2, <2>3, <2>4, QuietMark
<1>11. CASE UNCHANGED vars
  <2>1. /\ UNCHANGED <<sent, asked, answers, queued, current, queue, loop, gone>>
        /\ UNCHANGED <<marked, outcome, doomed>>
    BY <1>11 DEF vars
  <2>2. \A i \in Ids : Waiting(i)' = Waiting(i)
    BY <2>1, QuietQueue
  <2> QED
    BY <1>1, <2>1, <2>2, QuietMark DEF MarkInv
<1> QED
  BY <1>4, <1>5, <1>6, <1>7, <1>8, <1>9, <1>10, <1>11, ReceiveRunMark, ReachMark,
     ReceiveCancelMark, Actions

-----------------------------------------------------------------------------
(***************************************************************************)
(* Answers.                                                                 *)
(***************************************************************************)

\* The answer the loop gives is what happened to the run.
LEMMA TrueAnswer ==
    ASSUME TypeOK, ThreadInv, CancelInv, AnswerError \/ AnswerUnrun \/ AnswerRun
    PROVE  \E result \in Results :
              /\ Answering(result)
              /\ result = "own" <=> current \in completed
              /\ result \in {"130", "internal"} => current \in named \/ closing
<1>1. /\ loop = "reached" => current \in Runs /\ current \notin completed
      /\ loop = "reached" /\ outcome # "none" => outcome = "130" /\ current \in named
  BY DEF ThreadInv, TypeOK, CancelInv, PastInv, MarkInv, NotBegun
<1>2. \A n \in cancelled : n \in named \/ closing
  BY DEF CancelInv, NamedInv
<1>3. current # NoRun
  BY DEF AnswerError, AnswerUnrun, AnswerRun, ThreadInv
<1>4. CASE AnswerError
  <2>1. Answering("error") /\ "error" \in Results
    BY <1>3, <1>4 DEF AnswerError, Answering, Results, ThreadInv
  <2> QED
    BY <1>1, <1>4, <2>1 DEF AnswerError
<1>5. CASE AnswerUnrun
  <2>1. Answering("130") /\ "130" \in Results
    BY <1>3, <1>5 DEF AnswerUnrun, Answering, Results, ThreadInv
  <2>2. current \in named \/ closing
    BY <1>1, <1>5 DEF AnswerUnrun, MayRun
  <2> QED
    BY <1>1, <1>5, <2>1, <2>2 DEF AnswerUnrun
<1>6. CASE AnswerRun
  <2> DEFINE result == IF outcome = "none" THEN "internal" ELSE outcome
  <2>1. result \in Results
    BY DEF TypeOK, Results
  <2>2. Answering(result)
    BY <1>3, <1>6, <2>1 DEF AnswerRun, Answering
  <2>3. /\ result = "own" <=> current \in completed
        /\ outcome \in {"none", "130"} => current \in cancelled
        /\ outcome \in {"none", "own", "130"}
    BY <1>6 DEF AnswerRun, ThreadInv
  <2> QED
    BY <1>2, <2>1, <2>2, <2>3
<1> QED
  BY <1>4, <1>5, <1>6

LEMMA NextAnswers ==
    ASSUME TypeOK, QueueInv, ThreadInv, CancelInv, AnswerInv, [Next]_vars
    PROVE  AnswersAreTrue' /\ StoppedOnlyIfNamed'
<1>1. (closing => closing') /\ named \subseteq named'
  BY Lasting
<1>2. ASSUME NEW k \in DOMAIN answers
      PROVE  answers[k].run = k /\ (answers[k].run \in completed' <=> answers[k].run \in completed)
  <2>1. answers[k].run = k /\ k <= Len(answers) /\ k \in Nat /\ Len(answers) \in Nat
    BY Numbers DEF QueueInv
  <2>2. current \in Runs /\ loop = "running" => k # current
    BY <2>1, CurrentBegun, Numbers
  <2>3. completed \subseteq completed'
    <3>1. Thread => completed \subseteq completed'
      BY DEF Thread, Begin, Check, Refuse, ReplaceEnvironment, CannotEnter, BeginCommand,
             Return, Finish, CleanUp, Parse, Deliver, OverWithOwn, historyVars
    <3>2. ~Thread => completed' = completed
      BY Actions DEF ClientGoes, CancelInterrupts, TakeRun, TakeEnd, Reach, StartRun,
             AnswerError, AnswerUnrun, AnswerRun, ProgressFails, vars, ReceiveRun,
             ReceiveCancel, Close, CloseInterrupts, CloseEnds, historyVars
    <3> QED
      BY <3>1, <3>2
  <2>4. k \in completed' => k \in completed
    <3>1. ASSUME k \in completed', k \notin completed PROVE FALSE
      <4>1. k = current /\ loop = "running" /\ k \in Runs
        <5>1. Thread
          BY <3>1, Actions DEF ClientGoes, CancelInterrupts, TakeRun, TakeEnd, Reach, StartRun,
             AnswerError, AnswerUnrun, AnswerRun, ProgressFails, vars, ReceiveRun,
             ReceiveCancel, Close, CloseInterrupts, CloseEnds, historyVars
        <5>2. k = current /\ thread # "none"
          BY <3>1, <5>1 DEF Thread, Begin, Check, Refuse, ReplaceEnvironment, CannotEnter,
             BeginCommand, Return, Finish, CleanUp, Parse, Deliver, OverWithOwn, historyVars, At
        <5> QED
          BY <5>2 DEF ThreadInv, TypeOK
      <4> QED
        BY <2>2, <4>1
    <3> QED
      BY <3>1
  <2> QED
    BY <2>1, <2>3, <2>4
<1>3. ASSUME ~(AnswerError \/ AnswerUnrun \/ AnswerRun) PROVE answers' = answers
  BY <1>3, Actions, ThreadKeeps DEF ClientGoes, CancelInterrupts, TakeRun, TakeEnd, Reach,
     StartRun, ProgressFails, vars, ReceiveRun, ReceiveCancel, Close, CloseInterrupts, CloseEnds,
     OthersUnchanged
<1>4. CASE answers' = answers
  BY <1>1, <1>2, <1>4 DEF AnswerInv, AnswersAreTrue, StoppedOnlyIfNamed
<1>5. CASE AnswerError \/ AnswerUnrun \/ AnswerRun
  <2>1. PICK result \in Results :
          /\ Answering(result)
          /\ result = "own" <=> current \in completed
          /\ result \in {"130", "internal"} => current \in named \/ closing
    BY <1>5, TrueAnswer
  <2>2. completed' = completed
    BY <2>1 DEF Answering
  <2>3. \A k \in DOMAIN answers' :
           \/ k \in DOMAIN answers /\ answers'[k] = answers[k]
           \/ k = current /\ answers'[k] = [run |-> current, result |-> result]
    BY <2>1, Answers DEF Answering
  <2> QED
    BY <1>1, <1>2, <2>1, <2>2, <2>3 DEF AnswerInv, AnswersAreTrue, StoppedOnlyIfNamed
<1> QED
  BY <1>3, <1>4, <1>5

LEMMA NextBegun ==
    ASSUME TypeOK, QueueInv, ThreadInv, CancelInv, AnswerInv, [Next]_vars
    PROVE  QueuedNeverRuns'
<1> SUFFICES ASSUME NEW n \in doomed', n \in began' PROVE FALSE
  BY DEF QueuedNeverRuns
<1>1. CASE n \in began
  <2>1. n \notin doomed /\ ~NotBegun(n)
    BY <1>1 DEF AnswerInv, QueuedNeverRuns, CancelInv, PastInv
  <2> QED
    BY <2>1, DoomedGrows
<1>2. CASE n \notin began
  <2>1. Thread
    BY <1>2, Actions DEF ClientGoes, CancelInterrupts, TakeRun, TakeEnd, Reach, StartRun,
         AnswerError, AnswerUnrun, AnswerRun, ProgressFails, vars, ReceiveRun,
         ReceiveCancel, Close, CloseInterrupts, CloseEnds, historyVars
  <2>2. n = current /\ thread # "none"
    BY <1>2, <2>1 DEF Thread, Begin, Check, Refuse, ReplaceEnvironment, CannotEnter,
         BeginCommand, Return, Finish, CleanUp, Parse, Deliver, historyVars, At
  <2>3. current \notin doomed
    BY <2>2 DEF ThreadInv, CancelInv, MarkInv
  <2> QED
    BY <2>1, <2>2, <2>3, ThreadKeeps
<1> QED
  BY <1>1, <1>2

-----------------------------------------------------------------------------
LEMMA InitServeInv == Init => ServeInv
<1> SUFFICES ASSUME Init PROVE ServeInv
  OBVIOUS
<1>1. \A n \in Runs : ~InQueue(n)
  BY EmptySeq, LenProperties DEF Init, InQueue
<1>2. QueueInOrder /\ InTurn
  BY <1>1, RunFacts DEF Init, QueueInOrder, InTurn
<1>3. \A i \in Ids : Waiting(i) = {}
  BY <1>1 DEF Init, Waiting, InQueue
<1>4. \A i \in Ids : queued[i] = Cardinality(Waiting(i))
  BY <1>3, FS_EmptySet DEF Init
<1>5. \A n \in Runs : ~(n <= sent)
  BY RunFacts DEF Init
<1>6. DOMAIN answers = {}
  BY DEF Init
<1>7. QueueInv
  BY <1>2, <1>4, <1>5, <1>6 DEF QueueInv
<1>8. ThreadInv
  BY DEF Init, ThreadInv, Over, Interruptible
<1>9. CancelInv
  BY <1>3 DEF Init, CancelInv, NamedInv, MarkInv, PastInv
<1>10. AnswerInv
  BY <1>6 DEF Init, AnswerInv, AnswersAreTrue, StoppedOnlyIfNamed, QueuedNeverRuns
<1> QED
  BY <1>7, <1>8, <1>9, <1>10 DEF ServeInv

LEMMA NextServeInv == TypeOK /\ ServeInv /\ [Next]_vars => TypeOK' /\ ServeInv'
<1> SUFFICES ASSUME TypeOK, QueueInv, ThreadInv, CancelInv, AnswerInv, [Next]_vars
             PROVE  TypeOK' /\ QueueInv' /\ ThreadInv' /\ CancelInv' /\ AnswerInv'
  BY DEF ServeInv
<1>1. QueueInv' /\ ThreadInv'
  BY NextQueue, NextThread
<1>2. TypeOK'
  BY <1>1, NextTypes
<1>3. CancelInv'
  BY <1>1, <1>2, NextNamed, NextMark, NextPast DEF CancelInv
<1>4. AnswerInv'
  BY NextAnswers, NextBegun DEF AnswerInv
<1> QED
  BY <1>1, <1>2, <1>3, <1>4

LEMMA Invariance == Spec => [](TypeOK /\ ServeInv)
<1> QED
  BY InitTypes, InitServeInv, NextServeInv, PTL DEF Spec

\* Every variable keeps its type, whatever the constants.
THEOREM TypeCorrect == Spec => []TypeOK
<1> QED
  BY Invariance, PTL

\* Every request is answered in its turn, once, and with what happened to it.
THEOREM AnswersTrue == Spec => []AnswersAreTrue
<1>1. ServeInv => AnswersAreTrue
  BY DEF ServeInv, AnswerInv
<1> QED
  BY <1>1, Invariance, PTL

\* No run is stopped by a cancel that is meant for another.
THEOREM OnlyNamedStop == Spec => []StoppedOnlyIfNamed
<1>1. ServeInv => StoppedOnlyIfNamed
  BY DEF ServeInv, AnswerInv
<1> QED
  BY <1>1, Invariance, PTL

\* A run that is cancelled, or overtaken by the close, while it is queued never begins.
THEOREM CancelledNeverRuns == Spec => []QueuedNeverRuns
<1>1. ServeInv => QueuedNeverRuns
  BY DEF ServeInv, AnswerInv
<1> QED
  BY <1>1, Invariance, PTL

\* The process is as it was whenever a run is answered, wherever the interrupt came.
THEOREM StateRestored == Spec => []ServerStateRestored
<1>1. ServeInv => ServerStateRestored
  BY DEF ServeInv, ThreadInv, ServerStateRestored
<1> QED
  BY <1>1, Invariance, PTL
=============================================================================
