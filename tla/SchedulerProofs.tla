--------------------------- MODULE SchedulerProofs ---------------------------
(***************************************************************************)
(* Proofs about Scheduler: its type invariant, one live job for each       *)
(* target, the truth of the status table, the liveness of what a duplicate *)
(* submission is answered with, the order of the queue, and that it        *)
(* implements ReviewBoard, for any number of callers, targets, ids and     *)
(* workers and any capacity.  Then about PollSubmitter: that all of this   *)
(* holds beside the submitter, and that the submitter is owed its wakeup.  *)
(***************************************************************************)
EXTENDS PollSubmitter, FiniteSetTheorems, SequenceTheorems, WellFoundedInduction, TLAPS

(* Partial functions.                                                      *)

LEMMA WithType ==
    ASSUME NEW f, NEW S, NEW T, NEW x \in S, NEW y \in T, IsPartialFun(f, S, T)
    PROVE  /\ IsPartialFun(With(f, x, y), S, T)
           /\ DOMAIN With(f, x, y) = DOMAIN f \cup {x}
BY DEF IsPartialFun, With

LEMMA WithoutType ==
    ASSUME NEW f, NEW S, NEW T, NEW X, IsPartialFun(f, S, T)
    PROVE  /\ IsPartialFun(Without(f, X), S, T)
           /\ DOMAIN Without(f, X) = DOMAIN f \ X
BY DEF IsPartialFun, Without

LEMMA StatusType ==
    ASSUME NEW f, IsPartialFun(f, JobIds, Job), NEW id \in DOMAIN f,
           NEW s \in LiveStatus \cup TerminalStatus
    PROVE  IsPartialFun([f EXCEPT ![id].status = s], JobIds, Job)
BY DEF IsPartialFun, Job

LEMMA EmptyType ==
    ASSUME NEW S, NEW T
    PROVE  IsPartialFun(EmptyFun, S, T) /\ DOMAIN EmptyFun = {}
BY DEF IsPartialFun, EmptyFun

(* What a list of ids looks like after an insertion.                       *)
LEMMA InsertAtProperties ==
    ASSUME NEW T, NEW q \in Seq(T), NEW p \in 1..(Len(q) + 1), NEW e \in T
    PROVE  /\ InsertAt(q, p, e) \in Seq(T)
           /\ Len(InsertAt(q, p, e)) = Len(q) + 1
           /\ \A i \in 1..(Len(q) + 1) :
                InsertAt(q, p, e)[i] = IF i < p THEN q[i]
                                       ELSE IF i = p THEN e ELSE q[i - 1]
<1> DEFINE before == SubSeq(q, 1, p - 1)
           after == SubSeq(q, p, Len(q))
<1>1. before \in Seq(T) /\ Len(before) = p - 1 /\ \A i \in 1..(p - 1) : before[i] = q[i]
  BY SubSeqProperties
<1>2. after \in Seq(T) /\ Len(after) = Len(q) + 1 - p
        /\ \A i \in 1..(Len(q) + 1 - p) : after[i] = q[p + i - 1]
  BY SubSeqProperties
<1>3. <<e>> \in Seq(T) /\ Len(<<e>>) = 1 /\ <<e>>[1] = e
  OBVIOUS
<1>4. before \o <<e>> \in Seq(T) /\ Len(before \o <<e>>) = p
        /\ \A i \in 1..p : (before \o <<e>>)[i] = IF i < p THEN q[i] ELSE e
  BY <1>1, <1>3
<1> DEFINE front == before \o <<e>>
<1> HIDE DEF before, after
<1>5. front \o after \in Seq(T) /\ Len(front \o after) = Len(q) + 1
        /\ \A i \in 1..(Len(q) + 1) : (front \o after)[i] =
             IF i <= p THEN front[i] ELSE after[i - p]
  <2>1. front \in Seq(T) /\ Len(front) = p
    BY <1>4
  <2> HIDE DEF front
  <2>2. /\ front \o after \in Seq(T) /\ Len(front \o after) = Len(front) + Len(after)
        /\ \A i \in 1..(Len(front) + Len(after)) : (front \o after)[i] =
             IF i <= Len(front) THEN front[i] ELSE after[i - Len(front)]
    BY <1>2, <2>1, ConcatProperties
  <2>3. Len(front) + Len(after) = Len(q) + 1
    BY <1>2, <2>1
  <2>4. QED
    BY <2>1, <2>2, <2>3
<1>6. \A i \in 1..(Len(q) + 1) : i > p => after[i - p] = q[i - 1]
  BY <1>2
<1>7. InsertAt(q, p, e) = front \o after
  BY DEF InsertAt, before, after
<1>8. QED
  BY <1>4, <1>5, <1>6, <1>7

-----------------------------------------------------------------------------

(* The inductive invariant.  The status of a job says which table holds it *)
(* (StatusTellsTheTruth), so a job is moved between tables without being   *)
(* left in one or found in two; by_target points at every live job; while  *)
(* the loop runs, a finished job is named once in the eviction order, so   *)
(* an id that comes back is never evicted in place of its first bearer.    *)

QueueIsInjective ==
    \A i, j \in DOMAIN queue : queue[i].id = queue[j].id => i = j

LiveIsIndexed ==
    \A id \in DOMAIN jobs : IsLive(id) =>
        jobs[id].target \in DOMAIN byTarget /\ byTarget[jobs[id].target] = id

TerminalIsInjective ==
    \A i, j \in DOMAIN terminal : terminal[i] = terminal[j] => i = j

TerminalIsFinished ==
    \A i \in DOMAIN terminal :
        terminal[i] \in DOMAIN jobs /\ jobs[terminal[i]].status \in TerminalStatus

Tables ==
    /\ IsFiniteSet(DOMAIN tasks) /\ IsFiniteSet(active)
    /\ StatusTellsTheTruth
    /\ QueueIsInjective
    /\ LiveIsIndexed
    /\ phase # "loop" => inHand = NoSubmission
    /\ phase = "loop" => /\ DOMAIN tasks \subseteq active
                         /\ TerminalIsInjective
                         /\ TerminalIsFinished
                         /\ DuplicateSeesLiveJob

IInv == TypeOK /\ Tables

LEMMA InitIInv == Init => IInv
<1> SUFFICES ASSUME Init PROVE IInv
  OBVIOUS
<1>1. /\ IsFiniteSet(DOMAIN tasks) /\ Cardinality(DOMAIN tasks) = 0
      /\ IsFiniteSet(active)
  BY FS_EmptySet, EmptyType DEF Init
<1>2. TypeOK
  <2>1. /\ IsPartialFun(jobs, JobIds, Job)
        /\ IsPartialFun(byTarget, Targets, JobIds)
        /\ IsPartialFun(tasks, JobIds, {"busy"} \cup Outcomes)
    BY EmptyType DEF Init
  <2>2. queue \in Seq(Queued) /\ terminal \in Seq(JobIds) /\ channel \in Seq(Submission)
    BY DEF Init
  <2>3. Len(queue) = 0 /\ Len(channel) = 0
    BY DEF Init
  <2>4. client \in [Clients -> Answers]
    BY DEF Init, Answers
  <2>5. active \subseteq JobIds /\ inHand \in Submission \cup {NoSubmission}
    BY DEF Init
  <2>6. permit \in BOOLEAN /\ phase \in {"loop", "draining", "stopped"} /\ cancelled \in BOOLEAN
    BY DEF Init
  <2>7. 0 <= Capacity /\ 0 <= MaxWorkers
    BY SchedulerAssumption
  <2>8. QED
    BY <1>1, <2>1, <2>2, <2>3, <2>4, <2>5, <2>6, <2>7 DEF TypeOK
<1>3. QED
  BY <1>1, <1>2, EmptyType DEF Init, IInv, Tables, StatusTellsTheTruth, QueueIsInjective, LiveIsIndexed, TerminalIsInjective,
       TerminalIsFinished, DuplicateSeesLiveJob

-----------------------------------------------------------------------------

(* Steps that leave the tables alone.                                      *)

LEMMA SameTables ==
    ASSUME Tables, UNCHANGED <<jobs, queue, active, byTarget, terminal, phase>>,
           DOMAIN tasks' \subseteq DOMAIN tasks,
           phase # "loop" => inHand' = NoSubmission
    PROVE  Tables'
<1>1. IsFiniteSet(DOMAIN tasks') /\ IsFiniteSet(active')
  BY FS_Subset DEF Tables
<1>2. StatusTellsTheTruth' /\ QueueIsInjective' /\ LiveIsIndexed'
  BY DEF Tables, StatusTellsTheTruth, QueueIsInjective, LiveIsIndexed, IsLive
<1>3. phase' = "loop" => /\ DOMAIN tasks' \subseteq active'
                         /\ TerminalIsInjective' /\ TerminalIsFinished'
                         /\ DuplicateSeesLiveJob'
  BY DEF Tables, TerminalIsInjective, TerminalIsFinished, DuplicateSeesLiveJob, IsLive
<1>4. QED
  BY <1>1, <1>2, <1>3 DEF Tables

LEMMA ClientTypes ==
    ASSUME TypeOK, NEW c \in Clients, NEW a \in Answers
    PROVE  [client EXCEPT ![c] = a] \in [Clients -> Answers]
BY DEF TypeOK

LEMMA SubmitStep ==
    ASSUME IInv, NEW c \in Clients, NEW t \in Targets, NEW r \in BOOLEAN, Submit(c, t, r)
    PROVE  IInv'
<1>1. channel' \in Seq(Submission) /\ Len(channel') <= Capacity
  BY SchedulerAssumption DEF IInv, TypeOK, Submit, Submission
<1>2. client' \in [Clients -> Answers]
  BY ClientTypes DEF IInv, Submit, Answers
<1>3. TypeOK'
  BY <1>1, <1>2 DEF IInv, TypeOK, Submit
<1>4. Tables'
  BY SameTables DEF IInv, Tables, Submit
<1>5. QED
  BY <1>3, <1>4 DEF IInv

LEMMA SubmitRefusedStep ==
    ASSUME IInv, NEW c \in Clients, SubmitRefused(c)
    PROVE  IInv'
<1>1. client' \in [Clients -> Answers]
  BY ClientTypes DEF IInv, SubmitRefused, Answers
<1>2. TypeOK'
  BY <1>1 DEF IInv, TypeOK, SubmitRefused
<1>3. Tables'
  BY SameTables DEF IInv, Tables, SubmitRefused
<1>4. QED
  BY <1>2, <1>3 DEF IInv

LEMMA TaskEndsStep ==
    ASSUME IInv, NEW id \in JobIds, TaskEnds(id)
    PROVE  IInv'
<1>1. DOMAIN tasks' = DOMAIN tasks /\ IsPartialFun(tasks', JobIds, {"busy"} \cup Outcomes)
  BY DEF IInv, TypeOK, TaskEnds, IsPartialFun
<1>2. TypeOK'
  BY <1>1 DEF IInv, TypeOK, TaskEnds
<1>3. Tables'
  BY <1>1, SameTables DEF IInv, Tables, TaskEnds
<1>4. QED
  BY <1>2, <1>3 DEF IInv

LEMMA WorkerFreed ==
    ASSUME TypeOK, Tables, NEW id
    PROVE  Cardinality(DOMAIN tasks \ {id}) <= MaxWorkers
<1>1. Cardinality(DOMAIN tasks \ {id}) <= Cardinality(DOMAIN tasks)
  BY FS_Subset DEF Tables
<1>2. Cardinality(DOMAIN tasks) \in Nat /\ Cardinality(DOMAIN tasks \ {id}) \in Nat
  BY FS_CardinalityType, FS_Subset DEF Tables
<1>3. QED
  BY <1>1, <1>2, SchedulerAssumption DEF TypeOK

LEMMA JoinPanickedStep ==
    ASSUME IInv, NEW id \in JobIds, JoinPanicked(id)
    PROVE  IInv'
<1>1. DOMAIN tasks' = DOMAIN tasks \ {id} /\ IsPartialFun(tasks', JobIds, {"busy"} \cup Outcomes)
  <2>1. tasks' = Without(tasks, {id}) /\ IsPartialFun(tasks, JobIds, {"busy"} \cup Outcomes)
    BY DEF IInv, TypeOK, JoinPanicked
  <2>2. QED
    BY ONLY <2>1, WithoutType
<1>2. Cardinality(DOMAIN tasks') <= MaxWorkers
  BY <1>1, WorkerFreed DEF IInv
<1>3. TypeOK'
  BY <1>1, <1>2 DEF IInv, TypeOK, JoinPanicked
<1>4. Tables'
  BY <1>1, SameTables DEF IInv, Tables, JoinPanicked
<1>5. QED
  BY <1>3, <1>4 DEF IInv

LEMMA RecvStep ==
    ASSUME IInv, Recv
    PROVE  IInv'
<1>1. channel' \in Seq(Submission) /\ Len(channel') <= Capacity /\ inHand' \in Submission
  BY HeadTailProperties, SchedulerAssumption DEF IInv, TypeOK, Recv
<1>2. TypeOK'
  BY <1>1 DEF IInv, TypeOK, Recv
<1>3. Tables'
  BY SameTables DEF IInv, Tables, Recv, Selecting
<1>4. QED
  BY <1>2, <1>3 DEF IInv

LEMMA AnswerTypes ==
    ASSUME IInv, inHand # NoSubmission, NEW reply \in Answers, Answer(reply), NotifyIfWasFull
    PROVE  /\ client' \in [Clients -> Answers]
           /\ inHand' = NoSubmission
           /\ permit' \in BOOLEAN
<1>1. inHand \in Submission
  BY DEF IInv, TypeOK
<1>2. inHand.client \in Clients
  BY <1>1 DEF Submission
<1>3. client' \in [Clients -> Answers]
  BY <1>2, ClientTypes DEF IInv, Answer
<1>4. QED
  BY <1>3 DEF IInv, TypeOK, Answer, NotifyIfWasFull

LEMMA AnswerDuplicateStep ==
    ASSUME IInv, AnswerDuplicate
    PROVE  IInv'
<1>1. PICK reply \in Answers : Answer(reply)
  BY DEF AnswerDuplicate, Answers
<1>2. TypeOK'
  BY <1>1, AnswerTypes DEF IInv, TypeOK, AnswerDuplicate
<1>3. Tables'
  BY <1>1, AnswerTypes, SameTables DEF IInv, Tables, AnswerDuplicate
<1>4. QED
  BY <1>2, <1>3 DEF IInv

LEMMA AnswerFullStep ==
    ASSUME IInv, AnswerFull
    PROVE  IInv'
<1>1. Answer("full") /\ "full" \in Answers
  BY DEF AnswerFull, Answers
<1>2. TypeOK'
  BY <1>1, AnswerTypes DEF IInv, TypeOK, AnswerFull
<1>3. Tables'
  BY <1>1, AnswerTypes, SameTables DEF IInv, Tables, AnswerFull
<1>4. QED
  BY <1>2, <1>3 DEF IInv

LEMMA CancelStep ==
    ASSUME IInv, Cancel
    PROVE  IInv'
<1>1. TypeOK'
  BY DEF IInv, TypeOK, Cancel
<1>2. Tables'
  BY SameTables DEF IInv, Tables, Cancel
<1>3. QED
  BY <1>1, <1>2 DEF IInv

LEMMA DrainChannelStep ==
    ASSUME IInv, DrainChannel
    PROVE  IInv'
<1>1. channel' \in Seq(Submission) /\ Len(channel') <= Capacity /\ Head(channel) \in Submission
  BY HeadTailProperties, SchedulerAssumption DEF IInv, TypeOK, DrainChannel
<1>2. client' \in [Clients -> Answers]
  BY <1>1, ClientTypes DEF IInv, DrainChannel, Answers, Submission
<1>3. TypeOK'
  BY <1>1, <1>2 DEF IInv, TypeOK, DrainChannel
<1>4. Tables'
  BY SameTables DEF IInv, Tables, DrainChannel
<1>5. QED
  BY <1>3, <1>4 DEF IInv

-----------------------------------------------------------------------------

(* Steps that move a job from one table to the next.                       *)

LEMMA QueueTable ==
    ASSUME IInv
    PROVE  /\ \A i \in DOMAIN queue : /\ queue[i].id \in DOMAIN jobs
                                      /\ jobs[queue[i].id].status = "Queued"
                                      /\ queue[i].id \notin active
           /\ \A id \in active : id \in DOMAIN jobs /\ jobs[id].status = "Running"
           /\ \A id \in DOMAIN jobs : /\ jobs[id].target \in Targets
                                      /\ jobs[id].status \in LiveStatus \cup TerminalStatus
<1>1. /\ \A i \in DOMAIN queue : /\ queue[i].id \in DOMAIN jobs
                                 /\ jobs[queue[i].id].status = "Queued"
      /\ \A id \in active : id \in DOMAIN jobs /\ jobs[id].status = "Running"
  BY DEF IInv, Tables, StatusTellsTheTruth
<1>2. \A id \in DOMAIN jobs : jobs[id] \in Job
  BY DEF IInv, TypeOK, IsPartialFun
<1>3. QED
  BY <1>1, <1>2 DEF Job

LEMMA DispatchStep ==
    ASSUME IInv, Dispatch
    PROVE  IInv'
<1> DEFINE id == Head(queue).id
<1>1. queue \in Seq(Queued) /\ queue # <<>> /\ Len(queue) \in Nat /\ Len(queue) > 0
  BY DEF IInv, TypeOK, Dispatch, CanDispatch
<1>2. /\ queue' = Tail(queue) /\ queue' \in Seq(Queued) /\ Len(queue') = Len(queue) - 1
      /\ DOMAIN queue = 1..Len(queue) /\ DOMAIN queue' = 1..(Len(queue) - 1)
      /\ \A i \in 1..(Len(queue) - 1) : queue'[i] = queue[i + 1]
      /\ Head(queue) = queue[1] /\ queue[1] \in Queued
  <2>1. queue' = Tail(queue)
    BY DEF Dispatch
  <2>2. QED
    BY <1>1, <2>1, HeadTailProperties
<1>3. id \in JobIds
  BY <1>2 DEF Queued
<1>4. id \in DOMAIN jobs /\ jobs[id].status = "Queued" /\ id \notin active
  BY <1>1, <1>2, QueueTable
<1> HIDE DEF id
<1>5. /\ jobs' = [jobs EXCEPT ![id].status = "Running"]
      /\ active' = active \cup {id} /\ tasks' = With(tasks, id, "busy")
      /\ UNCHANGED <<byTarget, terminal, channel, inHand, phase, cancelled, client>>
      /\ permit' = TRUE /\ phase = "loop"
      /\ Cardinality(DOMAIN tasks) < MaxWorkers
  BY DEF Dispatch, SetStatus, CanDispatch, id
<1>6. /\ DOMAIN jobs' = DOMAIN jobs
      /\ \A j \in DOMAIN jobs : /\ jobs'[j].target = jobs[j].target
                                /\ jobs'[j].status = IF j = id THEN "Running" ELSE jobs[j].status
  <2>1. \A j \in DOMAIN jobs : jobs[j] \in Job
    BY DEF IInv, TypeOK, IsPartialFun
  <2>2. QED
    BY <1>4, <1>5, <2>1 DEF Job
<1>7. IsPartialFun(jobs', JobIds, Job)
  BY <1>4, <1>5, StatusType DEF IInv, TypeOK, LiveStatus
<1>8. IsPartialFun(tasks', JobIds, {"busy"} \cup Outcomes) /\ DOMAIN tasks' = DOMAIN tasks \cup {id}
  <2>1. IsPartialFun(tasks, JobIds, {"busy"} \cup Outcomes)
    BY DEF IInv, TypeOK
  <2>2. "busy" \in {"busy"} \cup Outcomes
    OBVIOUS
  <2>3. tasks' = With(tasks, id, "busy")
    BY <1>5
  <2>4. QED
    BY <1>3, <2>1, <2>2, <2>3 DEF With, IsPartialFun
<1>9. IsFiniteSet(DOMAIN tasks') /\ Cardinality(DOMAIN tasks') <= MaxWorkers
  <2>1. IsFiniteSet(DOMAIN tasks) /\ Cardinality(DOMAIN tasks) \in Nat
    BY FS_CardinalityType DEF IInv, Tables
  <2>2. IsFiniteSet(DOMAIN tasks')
          /\ Cardinality(DOMAIN tasks') \in {Cardinality(DOMAIN tasks), Cardinality(DOMAIN tasks) + 1}
    BY <1>8, <2>1, FS_AddElement
  <2>3. QED
    BY <1>5, <2>1, <2>2, SchedulerAssumption
<1>10. TypeOK'
  <2>1. TypeOK /\ Capacity \in Nat
    BY SchedulerAssumption DEF IInv
  <2>2. queue' \in Seq(Queued) /\ Len(queue') <= Capacity
    BY <1>1, <1>2, <2>1 DEF TypeOK
  <2>3. active' \subseteq JobIds
    BY <1>3, <1>5, <2>1 DEF TypeOK
  <2>4. QED
    BY <1>5, <1>7, <1>8, <1>9, <2>1, <2>2, <2>3 DEF TypeOK
<1>11. QueueIsInjective'
  BY <1>1, <1>2 DEF IInv, Tables, QueueIsInjective
<1>12. \A i \in DOMAIN queue' : queue'[i].id # id
  BY <1>1, <1>2 DEF IInv, Tables, QueueIsInjective, id
<1>13. StatusTellsTheTruth'
  <2>1. {queue'[i].id : i \in DOMAIN queue'} = {queue[i].id : i \in DOMAIN queue} \ {id}
    <3>1. \A i \in DOMAIN queue' : queue'[i].id \in {queue[j].id : j \in DOMAIN queue}
      BY <1>1, <1>2
    <3>2. \A i \in DOMAIN queue : queue[i].id # id => i - 1 \in DOMAIN queue' /\ queue[i] = queue'[i - 1]
      BY <1>1, <1>2 DEF id
    <3>3. QED
      BY <1>12, <3>1, <3>2
  <2>2. {j \in DOMAIN jobs' : jobs'[j].status = "Queued"} = {j \in DOMAIN jobs : jobs[j].status = "Queued"} \ {id}
    BY <1>6
  <2>3. {j \in DOMAIN jobs' : jobs'[j].status = "Running"} = {j \in DOMAIN jobs : jobs[j].status = "Running"} \cup {id}
    BY <1>4, <1>6
  <2>4. QED
    BY <1>5, <2>1, <2>2, <2>3 DEF IInv, Tables, StatusTellsTheTruth
<1>14. \A j \in DOMAIN jobs : IsLive(j)' <=> IsLive(j)
  BY <1>4, <1>6 DEF IsLive, LiveStatus
<1>15. LiveIsIndexed'
  BY <1>5, <1>6, <1>14 DEF IInv, Tables, LiveIsIndexed
<1>16. TerminalIsFinished' /\ TerminalIsInjective'
  BY <1>4, <1>5, <1>6 DEF IInv, Tables, TerminalIsFinished, TerminalIsInjective, TerminalStatus
<1>17. DuplicateSeesLiveJob'
  BY <1>5, <1>6, <1>14 DEF IInv, Tables, DuplicateSeesLiveJob, IsLive
<1>18. IsFiniteSet(active')
  BY <1>5, FS_AddElement DEF IInv, Tables
<1>19. QED
  BY <1>18, <1>5, <1>8, <1>9, <1>10, <1>11, <1>13, <1>15, <1>16, <1>17 DEF IInv, Tables

LEMMA JoinStep ==
    ASSUME IInv, NEW id \in JobIds, Join(id)
    PROVE  IInv'
<1> DEFINE done == Append(terminal, id)
           ended == [jobs EXCEPT ![id].status = tasks[id]]
<1>1. /\ phase = "loop" /\ id \in DOMAIN tasks /\ tasks' = Without(tasks, {id})
      /\ active' = active \ {id} /\ byTarget' = Without(byTarget, {jobs[id].target})
      /\ UNCHANGED <<queue, channel, inHand, permit, phase, cancelled, client>>
      /\ \/ terminal' = done /\ jobs' = ended
         \/ /\ Len(done) > TerminalLimit
            /\ terminal' = Tail(done) /\ jobs' = Without(ended, {Head(done)})
  BY DEF Join, FinishJob, Selecting, Evicts
<1>2. id \in DOMAIN jobs /\ jobs[id].status = "Running" /\ id \in active
  BY <1>1, QueueTable DEF IInv, Tables
<1>3. tasks[id] \in TerminalStatus
  BY <1>1, SchedulerAssumption DEF Join, IInv, TypeOK, IsPartialFun, TerminalStatus
<1>4. /\ IsPartialFun(ended, JobIds, Job) /\ DOMAIN ended = DOMAIN jobs
      /\ \A j \in DOMAIN jobs : /\ ended[j].target = jobs[j].target
                                /\ ended[j].status = IF j = id THEN tasks[id] ELSE jobs[j].status
  <2>1. \A j \in DOMAIN jobs : jobs[j] \in Job
    BY DEF IInv, TypeOK, IsPartialFun
  <2>2. IsPartialFun(jobs, JobIds, Job)
    BY DEF IInv, TypeOK
  <2>3. IsPartialFun(ended, JobIds, Job)
    BY <1>2, <1>3, <2>2, StatusType
  <2>4. QED
    BY <1>2, <2>1, <2>3 DEF Job
<1>5. /\ terminal \in Seq(JobIds) /\ Len(terminal) \in Nat /\ DOMAIN terminal = 1..Len(terminal)
      /\ done \in Seq(JobIds) /\ Len(done) = Len(terminal) + 1 /\ DOMAIN done = 1..(Len(terminal) + 1)
      /\ \A i \in 1..Len(terminal) : done[i] = terminal[i]
      /\ done[Len(terminal) + 1] = id
  BY DEF IInv, TypeOK
<1>6. \A i \in DOMAIN terminal : terminal[i] # id
  BY <1>1, <1>2 DEF IInv, Tables, TerminalIsFinished, TerminalStatus
<1>7. \A i, j \in DOMAIN done : done[i] = done[j] => i = j
  BY <1>1, <1>5, <1>6 DEF IInv, Tables, TerminalIsInjective
<1>8. \A i \in DOMAIN done : done[i] \in DOMAIN ended /\ ended[done[i]].status \in TerminalStatus
  BY <1>1, <1>2, <1>3, <1>4, <1>5, <1>6 DEF IInv, Tables, TerminalIsFinished
<1> HIDE DEF done, ended
<1>9. PICK gone :
        /\ jobs' = Without(ended, gone) /\ IsPartialFun(jobs', JobIds, Job)
        /\ \A j \in gone : j \in DOMAIN ended => ended[j].status \in TerminalStatus
        /\ terminal' \in Seq(JobIds)
        /\ \A i, j \in DOMAIN terminal' : terminal'[i] = terminal'[j] => i = j
        /\ \A i \in DOMAIN terminal' : /\ terminal'[i] \notin gone
                                       /\ terminal'[i] \in DOMAIN ended
                                       /\ ended[terminal'[i]].status \in TerminalStatus
  <2>1. CASE terminal' = done /\ jobs' = ended
    <3>1. ended = Without(ended, {})
      BY <1>4 DEF Without, IsPartialFun
    <3>2. QED
      BY <1>4, <1>5, <1>7, <1>8, <2>1, <3>1
  <2>2. CASE terminal' = Tail(done) /\ jobs' = Without(ended, {Head(done)})
    <3>1. done # <<>> /\ Head(done) = done[1] /\ 1 \in DOMAIN done
      BY <1>5
    <3>2. /\ terminal' \in Seq(JobIds) /\ DOMAIN terminal' = 1..Len(terminal)
          /\ \A i \in DOMAIN terminal' : terminal'[i] = done[i + 1] /\ i + 1 \in DOMAIN done
      BY <1>5, <2>2, <3>1, HeadTailProperties
    <3>3. \A i, j \in DOMAIN terminal' : terminal'[i] = terminal'[j] => i = j
      <4>1. SUFFICES ASSUME NEW i \in DOMAIN terminal', NEW j \in DOMAIN terminal',
                            terminal'[i] = terminal'[j]
                     PROVE  i = j
        OBVIOUS
      <4>2. i + 1 = j + 1
        BY <1>7, <3>2, <4>1
      <4>3. QED
        BY <1>5, <3>2, <4>1, <4>2
    <3>4. \A i \in DOMAIN terminal' : terminal'[i] # Head(done)
      BY <1>5, <1>7, <3>1, <3>2
    <3>5. \A i \in DOMAIN terminal' : terminal'[i] \in DOMAIN ended /\ ended[terminal'[i]].status \in TerminalStatus
      BY <1>8, <3>2
    <3>6. IsPartialFun(jobs', JobIds, Job)
      BY <1>4, <2>2, WithoutType
    <3>7. ended[Head(done)].status \in TerminalStatus
      BY <1>8, <3>1
    <3>8. QED
      BY <2>2, <3>2, <3>3, <3>4, <3>5, <3>6, <3>7
  <2>3. QED
    BY <1>1, <2>1, <2>2
<1>10. /\ DOMAIN jobs' = DOMAIN jobs \ gone
       /\ \A j \in DOMAIN jobs' : jobs'[j] = ended[j]
  BY <1>4, <1>9 DEF Without
<1>11. DOMAIN tasks' = DOMAIN tasks \ {id} /\ IsPartialFun(tasks', JobIds, {"busy"} \cup Outcomes)
  <2>1. tasks' = Without(tasks, {id}) /\ IsPartialFun(tasks, JobIds, {"busy"} \cup Outcomes)
    BY <1>1 DEF IInv, TypeOK
  <2>2. QED
    BY ONLY <2>1, WithoutType
<1>12. Cardinality(DOMAIN tasks') <= MaxWorkers /\ IsFiniteSet(DOMAIN tasks')
  BY <1>11, WorkerFreed, FS_RemoveElement DEF IInv, Tables
<1>13. IsPartialFun(byTarget', Targets, JobIds) /\ DOMAIN byTarget' = DOMAIN byTarget \ {jobs[id].target}
         /\ \A t \in DOMAIN byTarget' : byTarget'[t] = byTarget[t]
  BY <1>1 DEF IInv, TypeOK, Without, IsPartialFun
<1>14. TypeOK'
  <2>1. TypeOK /\ active' \subseteq JobIds
    BY <1>1 DEF IInv, TypeOK
  <2>2. QED
    BY <1>1, <1>9, <1>11, <1>12, <1>13, <2>1 DEF TypeOK
<1>15. StatusTellsTheTruth' /\ QueueIsInjective'
  <2>1. {j \in DOMAIN jobs' : jobs'[j].status = "Queued"} = {j \in DOMAIN jobs : jobs[j].status = "Queued"}
    BY <1>2, <1>3, <1>4, <1>9, <1>10 DEF TerminalStatus
  <2>2. {j \in DOMAIN jobs' : jobs'[j].status = "Running"} = {j \in DOMAIN jobs : jobs[j].status = "Running"} \ {id}
    BY <1>2, <1>3, <1>4, <1>9, <1>10 DEF TerminalStatus
  <2>3. QED
    BY <1>1, <2>1, <2>2 DEF IInv, Tables, StatusTellsTheTruth, QueueIsInjective
<1>16. \A j \in DOMAIN jobs : /\ IsLive(j)' <=> IsLive(j) /\ j # id
                              /\ IsLive(j)' => jobs'[j].target = jobs[j].target
  BY <1>2, <1>3, <1>4, <1>9, <1>10 DEF IsLive, LiveStatus, TerminalStatus
<1>17. IsLive(id) /\ byTarget[jobs[id].target] = id /\ jobs[id].target \in DOMAIN byTarget
  BY <1>2 DEF IInv, Tables, LiveIsIndexed, IsLive, LiveStatus
<1>18. LiveIsIndexed'
  BY <1>10, <1>13, <1>16, <1>17 DEF IInv, Tables, LiveIsIndexed
<1>19. DuplicateSeesLiveJob'
  <2>1. SUFFICES ASSUME NEW t \in DOMAIN byTarget'
                 PROVE  /\ byTarget'[t] \in DOMAIN jobs'
                        /\ jobs'[byTarget'[t]].status \in LiveStatus
                        /\ jobs'[byTarget'[t]].target = t
    BY DEF DuplicateSeesLiveJob, IsLive
  <2>2. IsLive(byTarget[t]) /\ jobs[byTarget[t]].target = t /\ byTarget'[t] = byTarget[t]
    BY <1>1, <1>13 DEF IInv, Tables, DuplicateSeesLiveJob
  <2>3. byTarget[t] # id /\ byTarget[t] \in DOMAIN jobs
    BY <1>13, <2>2 DEF IsLive
  <2>4. QED
    BY <1>16, <2>2, <2>3 DEF IsLive
<1>20. TerminalIsInjective' /\ TerminalIsFinished'
  BY <1>4, <1>9, <1>10 DEF TerminalIsInjective, TerminalIsFinished
<1>21. DOMAIN tasks' \subseteq active' /\ IsFiniteSet(active')
  BY <1>1, <1>11, FS_RemoveElement DEF IInv, Tables
<1>22. QED
  BY <1>1, <1>12, <1>14, <1>15, <1>18, <1>19, <1>20, <1>21 DEF IInv, Tables

LEMMA AcceptStep ==
    ASSUME IInv, NEW id \in JobIds, Accept(id)
    PROVE  IInv'
<1> DEFINE t == inHand.target
           entry == [id |-> id, retry |-> inHand.retry]
<1>1. /\ inHand # NoSubmission /\ t \notin DOMAIN byTarget /\ Len(queue) < Capacity
      /\ id \notin DOMAIN jobs
      /\ jobs' = With(jobs, id, [target |-> t, status |-> "Queued"])
      /\ byTarget' = With(byTarget, t, id)
      /\ UNCHANGED <<active, tasks, terminal, channel, phase, cancelled>>
  BY DEF Accept
<1>2. inHand \in Submission /\ phase = "loop"
  BY <1>1 DEF IInv, TypeOK, Tables
<1>3. t \in Targets /\ entry \in Queued
  BY <1>2 DEF Submission, Queued
<1>4. PICK p \in 1..(Len(queue) + 1) : queue' = InsertAt(queue, p, entry)
  BY DEF Accept
<1>5. queue \in Seq(Queued) /\ Len(queue) \in Nat /\ DOMAIN queue = 1..Len(queue)
  BY DEF IInv, TypeOK
<1>6. entry.id = id
  OBVIOUS
<1> HIDE DEF entry
<1>7. /\ queue' \in Seq(Queued) /\ Len(queue') = Len(queue) + 1
      /\ DOMAIN queue' = 1..(Len(queue) + 1)
      /\ \A i \in 1..(Len(queue) + 1) :
            queue'[i] = IF i < p THEN queue[i] ELSE IF i = p THEN entry ELSE queue[i - 1]
  <2>1. /\ InsertAt(queue, p, entry) \in Seq(Queued)
        /\ Len(InsertAt(queue, p, entry)) = Len(queue) + 1
        /\ \A i \in 1..(Len(queue) + 1) :
             InsertAt(queue, p, entry)[i] = IF i < p THEN queue[i]
                                            ELSE IF i = p THEN entry ELSE queue[i - 1]
    BY <1>3, <1>5, InsertAtProperties
  <2>2. queue' \in Seq(Queued) /\ Len(queue') = Len(queue) + 1
    BY <1>4, <2>1
  <2>3. DOMAIN queue' = 1..(Len(queue) + 1)
    BY <2>2
  <2>4. QED
    BY <1>4, <2>1, <2>2, <2>3
<1>8. client' \in [Clients -> Answers] /\ inHand' = NoSubmission /\ permit' \in BOOLEAN
  BY <1>1, AnswerTypes DEF Accept, Answers
<1>9. /\ IsPartialFun(jobs', JobIds, Job) /\ DOMAIN jobs' = DOMAIN jobs \cup {id}
      /\ jobs'[id].target = t /\ jobs'[id].status = "Queued"
      /\ \A j \in DOMAIN jobs : jobs'[j] = jobs[j]
  <2>1. [target |-> t, status |-> "Queued"] \in Job
    BY <1>3 DEF Job, LiveStatus
  <2>2. QED
    BY <1>1, <2>1 DEF IInv, TypeOK, With, IsPartialFun
<1>10. /\ IsPartialFun(byTarget', Targets, JobIds) /\ DOMAIN byTarget' = DOMAIN byTarget \cup {t}
      /\ byTarget'[t] = id
      /\ \A u \in DOMAIN byTarget : byTarget'[u] = byTarget[u]
  BY <1>1, <1>3 DEF IInv, TypeOK, With, IsPartialFun
<1> HIDE DEF t
<1> DEFINE back(k) == IF k < p THEN k ELSE k - 1
<1>11. \A i \in DOMAIN queue' : i # p => back(i) \in DOMAIN queue /\ queue'[i] = queue[back(i)]
  BY <1>5, <1>7
<1>12. p \in DOMAIN queue' /\ queue'[p].id = id
  BY <1>7, <1>6
<1>13. TypeOK'
  <2>1. TypeOK /\ Len(queue') <= Capacity
    BY <1>1, <1>5, <1>7, SchedulerAssumption DEF IInv
  <2>2. QED
    BY <1>1, <1>7, <1>8, <1>9, <1>10, <2>1 DEF TypeOK
<1>14. \A i \in DOMAIN queue : queue[i].id # id
  BY <1>1, QueueTable
<1>15. QueueIsInjective'
  <2>1. SUFFICES ASSUME NEW i \in DOMAIN queue', NEW j \in DOMAIN queue',
                        queue'[i].id = queue'[j].id
                 PROVE  i = j
    BY DEF QueueIsInjective
  <2>2. QueueIsInjective
    BY DEF IInv, Tables
  <2>3. CASE i = p \/ j = p
    BY <1>11, <1>12, <1>14, <2>1, <2>3
  <2>4. CASE i # p /\ j # p
    <3>1. /\ back(i) \in DOMAIN queue /\ queue'[i] = queue[back(i)]
          /\ back(j) \in DOMAIN queue /\ queue'[j] = queue[back(j)]
      BY <1>11, <2>4
    <3>2. back(i) = back(j)
      BY <2>1, <2>2, <3>1 DEF QueueIsInjective
    <3>3. QED
      BY <1>7, <2>4, <3>2
  <2>5. QED
    BY <2>3, <2>4
<1>16. StatusTellsTheTruth'
  <2>1. {queue'[i].id : i \in DOMAIN queue'} = {queue[i].id : i \in DOMAIN queue} \cup {id}
    <3>1. \A i \in DOMAIN queue' : queue'[i].id \in {queue[j].id : j \in DOMAIN queue} \cup {id}
      BY <1>11, <1>12
    <3>2. \A i \in DOMAIN queue : \E j \in DOMAIN queue' : queue'[j] = queue[i]
      <4>1. SUFFICES ASSUME NEW i \in DOMAIN queue PROVE \E j \in DOMAIN queue' : queue'[j] = queue[i]
        OBVIOUS
      <4>2. CASE i < p
        BY <1>5, <1>7, <4>2
      <4>3. CASE i >= p
        <5>1. i + 1 \in DOMAIN queue' /\ queue'[i + 1] = queue[i]
          BY <1>5, <1>7, <4>3
        <5>2. QED
          BY <5>1
      <4>4. QED
        BY <1>5, <4>2, <4>3
    <3>3. QED
      BY <1>12, <3>1, <3>2
  <2>2. {j \in DOMAIN jobs' : jobs'[j].status = "Queued"} = {j \in DOMAIN jobs : jobs[j].status = "Queued"} \cup {id}
    BY <1>9
  <2>3. {j \in DOMAIN jobs' : jobs'[j].status = "Running"} = {j \in DOMAIN jobs : jobs[j].status = "Running"}
    BY <1>9
  <2>4. QED
    BY <1>1, <2>1, <2>2, <2>3 DEF IInv, Tables, StatusTellsTheTruth
<1>17. LiveIsIndexed'
  <2>1. \A j \in DOMAIN jobs : IsLive(j)' => jobs[j].target \in DOMAIN byTarget /\ byTarget[jobs[j].target] = j
    BY <1>9 DEF IInv, Tables, LiveIsIndexed, IsLive
  <2>2. QED
    BY <1>9, <1>10, <2>1 DEF LiveIsIndexed
<1>18. DuplicateSeesLiveJob'
  BY <1>1, <1>2, <1>9, <1>10 DEF IInv, Tables, DuplicateSeesLiveJob, IsLive, LiveStatus
<1>19. TerminalIsInjective' /\ TerminalIsFinished'
  BY <1>1, <1>2, <1>9 DEF IInv, Tables, TerminalIsInjective, TerminalIsFinished
<1>20. IsFiniteSet(DOMAIN tasks') /\ IsFiniteSet(active') /\ DOMAIN tasks' \subseteq active'
  BY <1>1, <1>2 DEF IInv, Tables
<1>21. QED
  BY <1>1, <1>2, <1>8, <1>13, <1>15, <1>16, <1>17, <1>18, <1>19, <1>20 DEF IInv, Tables

LEMMA CancelJobsType ==
    ASSUME IInv, NEW S, CancelJobs(S)
    PROVE  /\ IsPartialFun(jobs', JobIds, Job) /\ DOMAIN jobs' = DOMAIN jobs
           /\ \A id \in DOMAIN jobs :
                /\ jobs'[id].target = jobs[id].target
                /\ jobs'[id].status = IF id \in S THEN "Cancelled" ELSE jobs[id].status
<1>1. DOMAIN jobs \subseteq JobIds /\ \A id \in DOMAIN jobs : jobs[id] \in Job
  BY DEF IInv, TypeOK, IsPartialFun
<1>2. DOMAIN jobs' = DOMAIN jobs
        /\ \A id \in DOMAIN jobs :
             jobs'[id] = IF id \in S THEN [jobs[id] EXCEPT !.status = "Cancelled"] ELSE jobs[id]
  BY DEF CancelJobs
<1>3. \A id \in DOMAIN jobs :
        /\ jobs'[id] \in Job
        /\ jobs'[id].target = jobs[id].target
        /\ jobs'[id].status = IF id \in S THEN "Cancelled" ELSE jobs[id].status
  BY <1>1, <1>2 DEF Job, TerminalStatus
<1>4. jobs' = [id \in DOMAIN jobs' |-> jobs'[id]]
  BY DEF CancelJobs
<1>5. QED
  BY <1>1, <1>2, <1>3, <1>4 DEF IsPartialFun

LEMMA CloseReceiverStep ==
    ASSUME IInv, CloseReceiver
    PROVE  IInv'
<1> DEFINE S == {queue[i].id : i \in DOMAIN queue}
<1>1. /\ CancelJobs(S) /\ queue' = <<>> /\ inHand = NoSubmission /\ phase' = "draining"
      /\ terminal' = terminal \o [i \in DOMAIN queue |-> queue[i].id]
      /\ UNCHANGED <<active, byTarget, tasks, channel, inHand, permit, cancelled, client>>
  BY DEF CloseReceiver
<1>2. terminal' \in Seq(JobIds)
  <2>1. queue \in Seq(Queued) /\ terminal \in Seq(JobIds)
    BY DEF IInv, TypeOK
  <2>2. [i \in DOMAIN queue |-> queue[i].id] \in Seq(JobIds)
    <3>1. Len(queue) \in Nat /\ DOMAIN queue = 1..Len(queue)
            /\ \A i \in DOMAIN queue : queue[i].id \in JobIds
      <4>1. \A i \in DOMAIN queue : queue[i] \in Queued
        BY <2>1
      <4>2. QED
        BY <2>1, <4>1 DEF Queued
    <3>2. [i \in DOMAIN queue |-> queue[i].id] \in [1..Len(queue) -> JobIds]
      BY <3>1
    <3>3. QED
      BY <3>1, <3>2
  <2>3. QED
    BY <1>1, <2>1, <2>2, ConcatProperties
<1> HIDE DEF S
<1>3. TypeOK'
  <2>1. TypeOK /\ queue' \in Seq(Queued) /\ Len(queue') <= Capacity
    BY <1>1, SchedulerAssumption DEF IInv
  <2>2. QED
    BY <1>1, <1>2, <2>1, CancelJobsType DEF TypeOK
<1>4. StatusTellsTheTruth'
  <2>1. S = {id \in DOMAIN jobs : jobs[id].status = "Queued"}
    BY DEF IInv, Tables, StatusTellsTheTruth, S
  <2>2. {id \in DOMAIN jobs' : jobs'[id].status = "Queued"} = {}
    BY <1>1, <2>1, CancelJobsType
  <2>3. {id \in DOMAIN jobs' : jobs'[id].status = "Running"} = {id \in DOMAIN jobs : jobs[id].status = "Running"}
    BY <1>1, <2>1, CancelJobsType
  <2>4. {queue'[i].id : i \in DOMAIN queue'} = {}
    BY <1>1
  <2>5. QED
    BY <1>1, <2>2, <2>3, <2>4 DEF IInv, Tables, StatusTellsTheTruth
<1>5. QueueIsInjective'
  BY <1>1 DEF QueueIsInjective
<1>6. LiveIsIndexed'
  BY <1>1, CancelJobsType DEF IInv, Tables, LiveIsIndexed, IsLive, LiveStatus
<1>7. QED
  BY <1>1, <1>3, <1>4, <1>5, <1>6 DEF IInv, Tables

LEMMA AbortAllStep ==
    ASSUME IInv, AbortAll
    PROVE  IInv'
<1>1. /\ CancelJobs(active) /\ active' = {} /\ tasks' = EmptyFun
      /\ phase = "draining" /\ phase' = "stopped"
      /\ UNCHANGED <<queue, byTarget, channel, inHand, permit, cancelled, client>>
  BY DEF AbortAll
<1>2. terminal' \in Seq(JobIds)
  <2>1. PICK order \in SetToSeqs(active) : terminal' = terminal \o order
    BY DEF AbortAll
  <2>2. active \subseteq JobIds /\ Cardinality(active) \in Nat
    BY FS_CardinalityType DEF IInv, TypeOK, Tables
  <2>3. order \in [1..Cardinality(active) -> active]
    BY <2>1 DEF SetToSeqs
  <2>4. order \in [1..Cardinality(active) -> JobIds]
    BY <2>2, <2>3
  <2>5. order \in Seq(JobIds)
    BY <2>2, <2>4
  <2>6. QED
    BY <2>1, <2>5, ConcatProperties DEF IInv, TypeOK
<1>3. IsPartialFun(tasks', JobIds, {"busy"} \cup Outcomes) /\ DOMAIN tasks' = {}
  BY <1>1, EmptyType
<1>4. IsFiniteSet({}) /\ Cardinality({}) = 0
  BY FS_EmptySet
<1>5. TypeOK'
  <2>1. TypeOK /\ 0 <= MaxWorkers
    BY SchedulerAssumption DEF IInv
  <2>2. QED
    BY <1>1, <1>2, <1>3, <1>4, <2>1, CancelJobsType DEF TypeOK
<1>6. StatusTellsTheTruth' /\ QueueIsInjective'
  <2>1. active = {id \in DOMAIN jobs : jobs[id].status = "Running"}
    BY DEF IInv, Tables, StatusTellsTheTruth
  <2>2. {id \in DOMAIN jobs' : jobs'[id].status = "Queued"} = {id \in DOMAIN jobs : jobs[id].status = "Queued"}
    BY <1>1, <2>1, CancelJobsType
  <2>3. {id \in DOMAIN jobs' : jobs'[id].status = "Running"} = {}
    BY <1>1, <2>1, CancelJobsType
  <2>4. QED
    BY <1>1, <2>2, <2>3 DEF IInv, Tables, StatusTellsTheTruth, QueueIsInjective
<1>7. LiveIsIndexed'
  BY <1>1, CancelJobsType DEF IInv, Tables, LiveIsIndexed, IsLive, LiveStatus
<1>8. QED
  BY <1>1, <1>3, <1>4, <1>5, <1>6, <1>7 DEF IInv, Tables

-----------------------------------------------------------------------------

LEMMA StepIInv == IInv /\ [Next]_vars => IInv'
<1> SUFFICES ASSUME IInv, [Next]_vars PROVE IInv'
  OBVIOUS
<1>1. CASE UNCHANGED vars
  <2>1. TypeOK'
    BY <1>1 DEF IInv, TypeOK, vars
  <2>2. Tables'
    BY <1>1, SameTables DEF IInv, Tables, vars
  <2>3. QED
    BY <2>1, <2>2 DEF IInv
<1>2. ASSUME NEW c \in Clients, ClientStep(c) PROVE IInv'
  BY <1>2, SubmitStep, SubmitRefusedStep DEF ClientStep
<1>3. CASE SchedulerStep
  BY <1>3, DispatchStep, JoinStep, JoinPanickedStep, RecvStep, AnswerDuplicateStep,
     AnswerFullStep, AcceptStep, CloseReceiverStep, DrainChannelStep, AbortAllStep DEF SchedulerStep
<1>4. ASSUME NEW id \in JobIds, TaskEnds(id) PROVE IInv'
  BY <1>4, TaskEndsStep
<1>5. CASE Cancel
  BY <1>5, CancelStep
<1>6. QED
  BY <1>1, <1>2, <1>3, <1>4, <1>5 DEF Next

(* The tables of the scheduler and the status it shows agree in every      *)
(* reachable state, the shutdown included.                                 *)
THEOREM Invariance == Spec => []IInv
BY InitIInv, StepIInv, PTL DEF Spec

(* Type correctness, with its bounds: the queue and the channel never      *)
(* exceed Capacity, nor running reviews MaxWorkers.                        *)
THEOREM TypeCorrect == Spec => []TypeOK
<1>1. IInv => TypeOK
  BY DEF IInv
<1>2. QED
  BY <1>1, Invariance, PTL

(* No target is ever reviewed by two jobs at once.                         *)
THEOREM OneLiveJob == Spec => []OneLiveJobPerTarget
<1>1. IInv => OneLiveJobPerTarget
  BY DEF IInv, Tables, LiveIsIndexed, OneLiveJobPerTarget
<1>2. QED
  BY <1>1, Invariance, PTL

(* The table readers see holds as Queued and Running exactly what is.      *)
THEOREM TruthfulStatus == Spec => []StatusTellsTheTruth
<1>1. IInv => StatusTellsTheTruth
  BY DEF IInv, Tables
<1>2. QED
  BY <1>1, Invariance, PTL

(* A duplicate submission is answered with a live job.                     *)
THEOREM LiveDuplicates == Spec => []DuplicateSeesLiveJob
<1>1. IInv => DuplicateSeesLiveJob
  BY DEF IInv, Tables, DuplicateSeesLiveJob
<1>2. QED
  BY <1>1, Invariance, PTL

-----------------------------------------------------------------------------

(* The order of the queue, and what becomes of it.                         *)

FreshFirst ==
    \A i, j \in DOMAIN queue : i < j /\ queue[i].retry => queue[j].retry

Closed == phase # "loop" => queue = <<>>

Order == FreshFirst /\ Closed

LEMMA AcceptQueue ==
    ASSUME IInv, NEW id \in JobIds, Accept(id)
    PROVE  /\ inHand \in Submission /\ phase = "loop" /\ phase' = "loop"
           /\ queue \in Seq(Queued)
           /\ \A i \in DOMAIN queue : queue[i].id # id
           /\ \E p \in 1..(Len(queue) + 1) :
                /\ IsPosition(p, queue, inHand.retry)
                /\ queue' \in Seq(Queued) /\ Len(queue') = Len(queue) + 1
                /\ \A i \in 1..(Len(queue) + 1) :
                     queue'[i] = IF i < p THEN queue[i]
                                 ELSE IF i = p THEN [id |-> id, retry |-> inHand.retry]
                                 ELSE queue[i - 1]
<1>1. inHand \in Submission /\ phase = "loop" /\ phase' = phase /\ queue \in Seq(Queued)
  BY DEF Accept, IInv, TypeOK, Tables
<1>2. \A i \in DOMAIN queue : queue[i].id # id
  BY QueueTable DEF Accept
<1>3. PICK p \in 1..(Len(queue) + 1) :
        /\ IsPosition(p, queue, inHand.retry)
        /\ queue' = InsertAt(queue, p, [id |-> id, retry |-> inHand.retry])
  BY DEF Accept
<1> DEFINE entry == [id |-> id, retry |-> inHand.retry]
<1>4. entry \in Queued
  BY <1>1 DEF Submission, Queued
<1> HIDE DEF entry
<1>5. /\ InsertAt(queue, p, entry) \in Seq(Queued)
      /\ Len(InsertAt(queue, p, entry)) = Len(queue) + 1
      /\ \A i \in 1..(Len(queue) + 1) :
           InsertAt(queue, p, entry)[i] = IF i < p THEN queue[i]
                                          ELSE IF i = p THEN entry ELSE queue[i - 1]
  <2>1. queue \in Seq(Queued) /\ p \in 1..(Len(queue) + 1) /\ entry \in Queued
    BY <1>1, <1>4
  <2> HIDE <1>1, <1>3, <1>4
  <2>2. QED
    BY <2>1, InsertAtProperties
<1>6. queue' = InsertAt(queue, p, entry)
  BY <1>3 DEF entry
<1> HIDE DEF IsPosition
<1>7. QED
  BY <1>1, <1>2, <1>3, <1>5, <1>6 DEF entry

LEMMA DispatchQueue ==
    ASSUME IInv, Dispatch
    PROVE  /\ queue \in Seq(Queued) /\ queue' \in Seq(Queued)
           /\ Len(queue) > 0 /\ Len(queue') = Len(queue) - 1
           /\ \A i \in 1..(Len(queue) - 1) : queue'[i] = queue[i + 1]
           /\ phase = "loop" /\ phase' = "loop"
<1>1. queue \in Seq(Queued) /\ queue # <<>> /\ queue' = Tail(queue) /\ phase = "loop"
        /\ phase' = phase
  BY DEF IInv, TypeOK, Dispatch, CanDispatch
<1>2. Len(queue) > 0
  BY <1>1
<1>3. QED
  BY <1>1, <1>2, HeadTailProperties

(* Every step but four leaves the queue and the phase alone.               *)
LEMMA QueueSteps ==
    ASSUME [Next]_vars
    PROVE  \/ UNCHANGED <<queue, phase>>
           \/ Dispatch
           \/ \E id \in JobIds : Accept(id)
           \/ queue' = <<>> /\ phase' = "draining"
           \/ UNCHANGED queue /\ phase = "draining" /\ phase' = "stopped"
<1>1. CASE UNCHANGED vars
  BY <1>1 DEF vars
<1>2. ASSUME NEW c \in Clients, ClientStep(c) PROVE UNCHANGED <<queue, phase>>
  BY <1>2 DEF ClientStep, Submit, SubmitRefused
<1>3. CASE Recv \/ AnswerDuplicate \/ AnswerFull \/ DrainChannel \/ Cancel
  BY <1>3 DEF Recv, AnswerDuplicate, AnswerFull, DrainChannel, Cancel
<1>4. ASSUME NEW id \in JobIds, Join(id) \/ JoinPanicked(id) \/ TaskEnds(id)
      PROVE  UNCHANGED <<queue, phase>>
  BY <1>4 DEF Join, JoinPanicked, TaskEnds
<1>5. CASE CloseReceiver
  BY <1>5 DEF CloseReceiver
<1>6. CASE AbortAll
  BY <1>6 DEF AbortAll
<1>7. QED
  BY <1>1, <1>2, <1>3, <1>4, <1>5, <1>6 DEF Next, SchedulerStep

LEMMA InitOrder == Init => Order
BY DEF Init, Order, FreshFirst, Closed

LEMMA StepOrder == IInv /\ Order /\ [Next]_vars => Order'
<1> SUFFICES ASSUME IInv, Order, [Next]_vars PROVE Order'
  OBVIOUS
<1>1. CASE UNCHANGED <<queue, phase>>
  BY <1>1 DEF Order, FreshFirst, Closed
<1>2. CASE Dispatch
  <2>1. DOMAIN queue = 1..Len(queue) /\ DOMAIN queue' = 1..(Len(queue) - 1) /\ Len(queue) \in Nat
    BY <1>2, DispatchQueue
  <2>2. Closed'
    BY <1>2, DispatchQueue DEF Closed
  <2>3. SUFFICES ASSUME NEW i \in 1..(Len(queue) - 1), NEW j \in 1..(Len(queue) - 1),
                        i < j, queue'[i].retry
                 PROVE  queue'[j].retry
    BY <2>1, <2>2 DEF Order, FreshFirst
  <2>4. /\ queue'[i] = queue[i + 1] /\ i + 1 \in DOMAIN queue
        /\ queue'[j] = queue[j + 1] /\ j + 1 \in DOMAIN queue
    BY <1>2, <2>1, DispatchQueue
  <2>5. QED
    BY <2>1, <2>3, <2>4 DEF Order, FreshFirst
<1>3. ASSUME NEW id \in JobIds, Accept(id) PROVE Order'
  <2>1. PICK p \in 1..(Len(queue) + 1) :
          /\ IsPosition(p, queue, inHand.retry)
          /\ queue' \in Seq(Queued) /\ Len(queue') = Len(queue) + 1
          /\ \A i \in 1..(Len(queue) + 1) :
               queue'[i] = IF i < p THEN queue[i]
                           ELSE IF i = p THEN [id |-> id, retry |-> inHand.retry]
                           ELSE queue[i - 1]
    BY <1>3, AcceptQueue
  <2>2. /\ queue \in Seq(Queued) /\ Len(queue) \in Nat
        /\ DOMAIN queue = 1..Len(queue) /\ DOMAIN queue' = 1..(Len(queue) + 1)
        /\ inHand \in Submission /\ phase' = "loop"
    BY <1>3, <2>1, AcceptQueue
  <2>3. queue'[p].retry = inHand.retry /\ inHand.retry \in BOOLEAN
    BY <2>1, <2>2 DEF Submission
  <2>4. SUFFICES ASSUME NEW i \in 1..(Len(queue) + 1), NEW j \in 1..(Len(queue) + 1),
                        i < j, queue'[i].retry
                 PROVE  queue'[j].retry
    <3>1. Closed'
      BY <2>2 DEF Closed
    <3>2. QED
      BY <2>2, <3>1 DEF Order, FreshFirst
  <2>5. CASE j < p
    <3>1. queue'[i] = queue[i] /\ queue'[j] = queue[j] /\ i \in DOMAIN queue /\ j \in DOMAIN queue
      BY <2>1, <2>2, <2>4, <2>5
    <3>2. QED
      BY <2>4, <3>1 DEF Order, FreshFirst
  <2>6. CASE j = p
    <3>1. queue'[i] = queue[i] /\ i \in 1..(p - 1)
      BY <2>1, <2>2, <2>4, <2>6
    <3>2. ~ inHand.retry => ~ queue[i].retry
      BY <2>1, <3>1 DEF IsPosition
    <3>3. QED
      BY <2>3, <2>4, <2>6, <3>1, <3>2
  <2>7. CASE j > p
    <3>1. queue'[j] = queue[j - 1] /\ j - 1 \in DOMAIN queue
      BY <2>1, <2>2, <2>7
    <3>2. CASE i < p
      <4>1. queue'[i] = queue[i] /\ i \in DOMAIN queue /\ i < j - 1
        BY <2>1, <2>2, <2>4, <2>7, <3>2
      <4>2. QED
        BY <2>4, <3>1, <4>1 DEF Order, FreshFirst
    <3>3. CASE i > p
      <4>1. queue'[i] = queue[i - 1] /\ i - 1 \in DOMAIN queue /\ i - 1 < j - 1
        BY <2>1, <2>2, <2>4, <3>3
      <4>2. QED
        BY <2>4, <3>1, <4>1 DEF Order, FreshFirst
    <3>4. CASE i = p
      <4>1. inHand.retry
        BY <2>3, <2>4, <3>4
      <4>2. p = Len(queue) + 1
        BY <2>1, <4>1 DEF IsPosition
      <4>3. QED
        BY <2>2, <2>7, <4>2
    <3>5. QED
      BY <2>2, <2>1, <3>2, <3>3, <3>4
  <2>8. QED
    BY <2>2, <2>1, <2>5, <2>6, <2>7
<1>4. CASE queue' = <<>>
  BY <1>4 DEF Order, FreshFirst, Closed
<1>5. CASE UNCHANGED queue /\ phase = "draining"
  BY <1>5 DEF Order, FreshFirst, Closed
<1>6. QED
  BY <1>1, <1>2, <1>3, <1>4, <1>5, QueueSteps

(* Fresh jobs wait before retries, and none once the scheduler closed.     *)
THEOREM QueueOrdered == Spec => []Order
BY InitOrder, StepOrder, Invariance, PTL DEF Spec

(* A job joins behind those of its class: were one of them behind it, that *)
(* would be a retry before it or a retry at the end of the queue.          *)
LEMMA AcceptIsFair ==
    ASSUME IInv, Order, NEW id \in JobIds, Accept(id), NEW a \in JobIds, NEW b \in JobIds,
           Ahead(queue, a, b) \/ JoinsBehind(queue, queue', a, b)
    PROVE  Ahead(queue', a, b)
<1>1. PICK p \in 1..(Len(queue) + 1) :
        /\ IsPosition(p, queue, inHand.retry)
        /\ queue' \in Seq(Queued) /\ Len(queue') = Len(queue) + 1
        /\ \A i \in 1..(Len(queue) + 1) :
             queue'[i] = IF i < p THEN queue[i]
                         ELSE IF i = p THEN [id |-> id, retry |-> inHand.retry]
                         ELSE queue[i - 1]
  BY AcceptQueue
<1>2. /\ queue \in Seq(Queued) /\ Len(queue) \in Nat
      /\ DOMAIN queue = 1..Len(queue) /\ DOMAIN queue' = 1..(Len(queue) + 1)
      /\ inHand \in Submission /\ inHand.retry \in BOOLEAN
      /\ \A i \in DOMAIN queue : queue[i].retry \in BOOLEAN
  <2>1. \A i \in DOMAIN queue : queue[i] \in Queued
    <3>1. queue \in Seq(Queued)
      BY AcceptQueue
    <3>2. QED
      BY <3>1
  <2>2. QED
    BY <1>1, <2>1, AcceptQueue DEF Submission, Queued
<1> DEFINE forth(k) == IF k < p THEN k ELSE k + 1
<1>3. \A k \in DOMAIN queue : forth(k) \in DOMAIN queue' /\ queue'[forth(k)] = queue[k]
  BY <1>1, <1>2
<1>4. CASE Ahead(queue, a, b)
  <2>1. PICK i \in DOMAIN queue, j \in DOMAIN queue :
          i < j /\ queue[i].id = a /\ queue[j].id = b /\ queue[i].retry = queue[j].retry
    BY <1>4 DEF Ahead
  <2>2. forth(i) < forth(j)
    BY <1>1, <1>2, <2>1
  <2> HIDE DEF forth
  <2>3. QED
    BY <1>3, <2>1, <2>2 DEF Ahead
<1>5. CASE JoinsBehind(queue, queue', a, b)
  <2>1. PICK i \in DOMAIN queue, j \in DOMAIN queue' :
          queue[i].id = a /\ queue'[j] = [id |-> b, retry |-> queue[i].retry]
    BY <1>5 DEF JoinsBehind
  <2>2. \A k \in DOMAIN queue : queue[k].id # b
    BY <1>5 DEF JoinsBehind, InQueue
  <2>3. j = p
    <3>1. CASE j < p
      BY <1>1, <1>2, <2>1, <2>2, <3>1
    <3>2. CASE j > p
      <4>1. queue'[j] = queue[j - 1] /\ j - 1 \in DOMAIN queue
        BY <1>1, <1>2, <3>2
      <4>2. QED
        BY <2>1, <2>2, <4>1
    <3>3. QED
      BY <1>1, <1>2, <3>1, <3>2
  <2>4. queue[i].retry = inHand.retry /\ queue'[p].id = b /\ queue'[p].retry = inHand.retry
    BY <1>1, <1>2, <2>1, <2>3
  <2>5. i < p
    <3>1. CASE inHand.retry
      BY <1>1, <1>2, <3>1 DEF IsPosition
    <3>2. CASE ~ inHand.retry
      <4>1. SUFFICES ASSUME i >= p PROVE FALSE
        BY <1>1, <1>2
      <4>2. p \in DOMAIN queue /\ queue[p].retry
        BY <1>1, <1>2, <3>2, <4>1 DEF IsPosition
      <4>3. queue[i].retry
        BY <1>2, <4>1, <4>2 DEF Order, FreshFirst
      <4>4. QED
        BY <2>4, <3>2, <4>3
    <3>3. QED
      BY <1>2, <3>1, <3>2
  <2>6. queue'[i] = queue[i] /\ i \in DOMAIN queue' /\ p \in DOMAIN queue'
    BY <1>1, <1>2, <2>5
  <2>7. QED
    BY <2>1, <2>4, <2>5, <2>6 DEF Ahead
<1>6. QED
  BY <1>4, <1>5

LEMMA DispatchIsFair ==
    ASSUME IInv, Dispatch, NEW a, NEW b,
           Ahead(queue, a, b) \/ JoinsBehind(queue, queue', a, b)
    PROVE  ~ InQueue(queue', a) \/ Ahead(queue', a, b)
<1>1. /\ Len(queue) \in Nat /\ DOMAIN queue = 1..Len(queue)
      /\ DOMAIN queue' = 1..(Len(queue) - 1)
      /\ \A i \in 1..(Len(queue) - 1) : queue'[i] = queue[i + 1]
  BY DispatchQueue
<1>2. ~ JoinsBehind(queue, queue', a, b)
  <2>1. SUFFICES ASSUME NEW j \in DOMAIN queue', queue'[j].id = b, ~ InQueue(queue, b)
                 PROVE  FALSE
    BY DEF JoinsBehind
  <2>2. j + 1 \in DOMAIN queue /\ queue[j + 1].id = b
    BY <1>1, <2>1
  <2>3. QED
    BY <2>1, <2>2 DEF InQueue
<1>3. PICK i \in DOMAIN queue, j \in DOMAIN queue :
        i < j /\ queue[i].id = a /\ queue[j].id = b /\ queue[i].retry = queue[j].retry
  BY <1>2 DEF Ahead
<1>4. CASE i = 1
  <2>1. SUFFICES ASSUME NEW k \in DOMAIN queue', queue'[k].id = a PROVE FALSE
    BY DEF InQueue
  <2>2. k + 1 \in DOMAIN queue /\ queue[k + 1].id = a /\ k + 1 # 1
    BY <1>1, <2>1
  <2>3. QED
    BY <1>3, <1>4, <2>2 DEF IInv, Tables, QueueIsInjective
<1>5. CASE i # 1
  <2>1. /\ i - 1 \in DOMAIN queue' /\ j - 1 \in DOMAIN queue' /\ i - 1 < j - 1
        /\ queue'[i - 1] = queue[i] /\ queue'[j - 1] = queue[j]
    BY <1>1, <1>3, <1>5
  <2>2. QED
    BY <1>3, <2>1 DEF Ahead
<1>6. QED
  BY <1>4, <1>5

(* No job is overtaken by one of its class.                                *)
THEOREM NoOvertaking == Spec => QueueIsFair
<1> DEFINE Fair == \A a, b \in JobIds :
                     Ahead(queue, a, b) \/ JoinsBehind(queue, queue', a, b) =>
                       ~ InQueue(queue', a) \/ Ahead(queue', a, b)
<1>1. ASSUME IInv, Order, [Next]_vars PROVE Fair
  <2>1. SUFFICES ASSUME NEW a \in JobIds, NEW b \in JobIds,
                        Ahead(queue, a, b) \/ JoinsBehind(queue, queue', a, b)
                 PROVE  ~ InQueue(queue', a) \/ Ahead(queue', a, b)
    OBVIOUS
  <2>2. CASE UNCHANGED queue
    <3>1. ~ JoinsBehind(queue, queue', a, b)
      BY <2>2 DEF JoinsBehind, InQueue
    <3>2. QED
      BY <2>1, <2>2, <3>1 DEF Ahead
  <2>3. CASE queue' = <<>>
    BY <2>3 DEF InQueue
  <2>4. CASE Dispatch
    BY <1>1, <2>1, <2>4, DispatchIsFair
  <2>5. CASE \E id \in JobIds : Accept(id)
    BY <1>1, <2>1, <2>5, AcceptIsFair
  <2>6. QED
    BY <1>1, <2>2, <2>3, <2>4, <2>5, QueueSteps
<1> HIDE DEF Fair
<1>2. IInv /\ Order /\ [Next]_vars => [Fair]_vars
  BY <1>1
<1>3. Spec => [][Fair]_vars
  BY <1>2, Invariance, QueueOrdered, PTL DEF Spec
<1>4. QED
  BY <1>3 DEF QueueIsFair, Fair

-----------------------------------------------------------------------------

(* The scheduler implements the board of ReviewBoard.                      *)

LEMMA Cover ==
    ASSUME NEW S, IsFiniteSet(S), NEW f, NEW T, \A t \in T : \E s \in S : f[s] = t
    PROVE  IsFiniteSet(T) /\ Cardinality(T) <= Cardinality(S)
<1> DEFINE g == [s \in S |-> f[s]]
           U == {f[s] : s \in S}
<1>1. g \in Surjection(S, U)
  BY DEF Surjection
<1>2. IsFiniteSet(U) /\ Cardinality(U) <= Cardinality(S)
  BY <1>1, FS_Surjection
<1>3. T \in SUBSET U
  OBVIOUS
<1> HIDE DEF U
<1>4. IsFiniteSet(T) /\ Cardinality(T) <= Cardinality(U)
  BY <1>2, <1>3, FS_Subset
<1>5. Cardinality(T) \in Nat /\ Cardinality(U) \in Nat /\ Cardinality(S) \in Nat
  BY <1>2, <1>4, FS_CardinalityType
<1>6. QED
  BY <1>2, <1>4, <1>5

LEMMA UpTo == \A n \in Nat : IsFiniteSet(1..n) /\ Cardinality(1..n) = n
<1>1. SUFFICES ASSUME NEW n \in Nat PROVE IsFiniteSet(1..n) /\ Cardinality(1..n) = n
  OBVIOUS
<1>2. IsFiniteSet(1..n) /\ Cardinality(1..n) = IF 1 > n THEN 0 ELSE n - 1 + 1
  BY FS_Interval
<1>3. QED
  BY <1>2

(* While the loop runs, every target of by_target is on the board.         *)
LoopBoard ==
    /\ board = [t \in DOMAIN byTarget |-> EntryOf(byTarget[t])]
    /\ \A t \in DOMAIN byTarget : /\ t \in Targets
                                  /\ byTarget[t] \in DOMAIN jobs
                                  /\ jobs[byTarget[t]].target = t
                                  /\ jobs[byTarget[t]].status \in LiveStatus

Looping == phase = "loop"

LEMMA BoardOfLoop == IInv /\ Looping => LoopBoard
<1> SUFFICES ASSUME IInv, phase = "loop" PROVE LoopBoard
  BY DEF Looping
<1>1. \A t \in DOMAIN byTarget : t \in Targets /\ IsLive(byTarget[t]) /\ jobs[byTarget[t]].target = t
  BY DEF IInv, TypeOK, IsPartialFun, Tables, DuplicateSeesLiveJob
<1>2. {u \in DOMAIN byTarget : IsLive(byTarget[u])} = DOMAIN byTarget
  BY <1>1
<1>3. QED
  BY <1>1, <1>2 DEF LoopBoard, board, IsLive

(* No more entries wait than jobs do, nor are more at work than reviews.   *)
LEMMA QueuedCount ==
    ASSUME IInv, phase = "loop"
    PROVE  /\ Cardinality(Board!Of("queued")) <= Len(queue)
           /\ Cardinality(Board!Of("queued")) \in Nat
<1> DEFINE f == [i \in 1..Len(queue) |-> jobs[queue[i].id].target]
<1>1. LoopBoard
  BY BoardOfLoop DEF Looping
<1>2. Len(queue) \in Nat /\ DOMAIN queue = 1..Len(queue)
  BY DEF IInv, TypeOK
<1>3. IsFiniteSet(1..Len(queue)) /\ Cardinality(1..Len(queue)) = Len(queue)
  BY <1>2, UpTo
<1>4. ASSUME NEW t \in Board!Of("queued") PROVE \E i \in 1..Len(queue) : f[i] = t
  <2>1. t \in DOMAIN byTarget /\ EntryOf(byTarget[t]) = "queued"
    BY <1>1, <1>4 DEF Board!Of, LoopBoard
  <2>2. byTarget[t] \in DOMAIN jobs /\ jobs[byTarget[t]].status = "Queued"
    BY <1>1, <2>1 DEF LoopBoard, EntryOf
  <2>3. PICK i \in DOMAIN queue : queue[i].id = byTarget[t]
    BY <2>2 DEF IInv, Tables, StatusTellsTheTruth
  <2>4. f[i] = t
    BY <1>1, <1>2, <2>1, <2>3 DEF LoopBoard
  <2>5. QED
    BY <1>2, <2>3, <2>4
<1> HIDE DEF f
<1>5. QED
  BY <1>3, <1>4, Cover, FS_CardinalityType

LEMMA RunningCount ==
    ASSUME IInv, phase = "loop"
    PROVE  /\ Cardinality(Board!Of("running")) <= Cardinality(DOMAIN tasks)
           /\ Cardinality(Board!Of("running")) \in Nat
<1> DEFINE f == [id \in DOMAIN tasks |-> jobs[id].target]
<1>1. LoopBoard
  BY BoardOfLoop DEF Looping
<1>2. ASSUME NEW t \in Board!Of("running") PROVE \E id \in DOMAIN tasks : f[id] = t
  <2>1. t \in DOMAIN byTarget /\ EntryOf(byTarget[t]) = "running"
    BY <1>1, <1>2 DEF Board!Of, LoopBoard
  <2>2. byTarget[t] \in DOMAIN tasks
    BY <2>1 DEF EntryOf
  <2>3. f[byTarget[t]] = t
    BY <1>1, <2>1, <2>2 DEF LoopBoard
  <2>4. QED
    BY <2>2, <2>3
<1> HIDE DEF f
<1>3. QED
  BY <1>2, Cover, FS_CardinalityType DEF IInv, Tables

LEMMA InitBoard == Init => Board!BoardInit
BY EmptyType DEF Init, Board!BoardInit, board, EmptyFun

LEMMA BoardSame ==
    ASSUME UNCHANGED <<jobs, byTarget, phase>>, DOMAIN tasks' = DOMAIN tasks
    PROVE  UNCHANGED Board!boardVars
BY DEF Board!boardVars, board, EntryOf, IsLive

LEMMA LoopBoards ==
    ASSUME IInv, IInv', phase = "loop", phase' = "loop"
    PROVE  LoopBoard /\ LoopBoard'
<1>1. Looping /\ Looping'
  BY DEF Looping
<1>2. QED
  BY <1>1, BoardOfLoop, PTL

LEMMA BoardCounts == \A S : Board!Cardinality(S) = Cardinality(S)
BY DEF Board!Cardinality, Cardinality

LEMMA AcceptPosts ==
    ASSUME IInv, IInv', NEW id \in JobIds, Accept(id)
    PROVE  \E t \in Targets : Board!Post(t)
<1>1. phase = "loop" /\ phase' = "loop" /\ inHand.target \in Targets
  BY AcceptQueue DEF Submission
<1>2. PICK t \in Targets : t = inHand.target
  BY <1>1
<1>3. /\ t \notin DOMAIN byTarget /\ Len(queue) < Capacity /\ id \notin DOMAIN jobs
      /\ jobs' = With(jobs, id, [target |-> t, status |-> "Queued"])
      /\ byTarget' = With(byTarget, t, id)
      /\ UNCHANGED <<tasks, phase>>
  BY <1>2 DEF Accept
<1>4. LoopBoard /\ LoopBoard'
  BY <1>1, LoopBoards
<1>5. /\ DOMAIN byTarget' = DOMAIN byTarget \cup {t} /\ byTarget'[t] = id
      /\ \A u \in DOMAIN byTarget : byTarget'[u] = byTarget[u]
      /\ jobs'[id].status = "Queued"
      /\ \A u \in DOMAIN byTarget : jobs'[byTarget[u]] = jobs[byTarget[u]]
  BY <1>3, <1>4 DEF With, LoopBoard
<1>6. /\ EntryOf(byTarget[t])' = "queued"
      /\ \A u \in DOMAIN byTarget : EntryOf(byTarget[u])' = EntryOf(byTarget[u])
  BY <1>3, <1>5 DEF EntryOf
<1>7. board' = [u \in DOMAIN board \cup {t} |-> IF u = t THEN "queued" ELSE board[u]]
  BY <1>4, <1>5, <1>6 DEF LoopBoard
<1>8. Cardinality(Board!Of("queued")) < Capacity
  BY <1>1, <1>3, QueuedCount, SchedulerAssumption DEF IInv, TypeOK
<1>9. DOMAIN board = DOMAIN byTarget
  BY <1>4 DEF LoopBoard
<1>10. Board!Post(t)
  BY <1>1, <1>3, <1>7, <1>8, <1>9, BoardCounts DEF Board!Post
<1>11. QED
  BY <1>10

LEMMA DispatchStarts ==
    ASSUME IInv, IInv', Dispatch
    PROVE  \E t \in Targets : Board!Start(t)
<1>1. PICK id : id = Head(queue).id
  OBVIOUS
<1>2. queue # <<>> /\ queue \in Seq(Queued) /\ Head(queue) = queue[1] /\ 1 \in DOMAIN queue
  BY DispatchQueue
<1>3. id \in DOMAIN jobs /\ jobs[id].status = "Queued" /\ id \notin active
  BY <1>1, <1>2, QueueTable
<1>4. PICK t : t = jobs[id].target
  OBVIOUS
<1>5. /\ jobs' = [jobs EXCEPT ![id].status = "Running"]
      /\ tasks' = With(tasks, id, "busy") /\ UNCHANGED <<byTarget, phase>>
      /\ phase = "loop" /\ Cardinality(DOMAIN tasks) < MaxWorkers
  BY <1>1 DEF Dispatch, SetStatus, CanDispatch
<1>6. LoopBoard /\ LoopBoard'
  BY <1>5, LoopBoards
<1>7. t \in DOMAIN byTarget /\ byTarget[t] = id /\ t \in Targets
  <2>1. IsLive(id)
    BY <1>3 DEF IsLive, LiveStatus
  <2>2. QED
    BY <1>3, <1>4, <1>6, <2>1 DEF IInv, Tables, LiveIsIndexed, LoopBoard
<1>8. \A u \in DOMAIN byTarget : u # t => byTarget[u] # id
  BY <1>4, <1>6 DEF LoopBoard
<1>9. jobs'[id].status = "Running" /\ \A j \in DOMAIN jobs : j # id => jobs'[j] = jobs[j]
  <2>1. jobs[id] \in Job
    BY <1>3 DEF IInv, TypeOK, IsPartialFun
  <2>2. QED
    BY <1>3, <1>5, <2>1 DEF Job
<1>10. DOMAIN tasks' = DOMAIN tasks \cup {id}
  BY <1>5 DEF With
<1>11. /\ EntryOf(byTarget[t]) = "queued" /\ EntryOf(byTarget[t])' = "running"
       /\ \A u \in DOMAIN byTarget : u # t => EntryOf(byTarget[u])' = EntryOf(byTarget[u])
  <2>1. EntryOf(byTarget[t]) = "queued" /\ EntryOf(byTarget[t])' = "running"
    BY <1>3, <1>5, <1>7, <1>9, <1>10 DEF EntryOf
  <2>2. ASSUME NEW u \in DOMAIN byTarget, u # t PROVE EntryOf(byTarget[u])' = EntryOf(byTarget[u])
    <3>1. byTarget[u] # id /\ byTarget[u] \in DOMAIN jobs /\ byTarget'[u] = byTarget[u]
      BY <1>5, <1>6, <1>8, <2>2 DEF LoopBoard
    <3>2. QED
      BY <1>9, <1>10, <3>1 DEF EntryOf
  <2>3. QED
    BY <2>1, <2>2
<1>12. DOMAIN board = DOMAIN byTarget /\ board[t] = "queued"
  BY <1>6, <1>7, <1>11 DEF LoopBoard
<1>13. board' = [board EXCEPT ![t] = "running"]
  BY <1>5, <1>6, <1>7, <1>11 DEF LoopBoard
<1>14. Cardinality(Board!Of("running")) < MaxWorkers
  <2>1. Cardinality(DOMAIN tasks) \in Nat
    BY FS_CardinalityType DEF IInv, Tables
  <2>2. QED
    BY <1>5, <2>1, RunningCount, SchedulerAssumption
<1>15. t \in Board!Of("queued")
  BY <1>7, <1>12 DEF Board!Of
<1>16. Board!Start(t)
  BY <1>5, <1>13, <1>14, <1>15, BoardCounts DEF Board!Start
<1>17. QED
  BY <1>7, <1>16

(* What becomes of the jobs when a review is joined: its own is finished,  *)
(* one that was finished may go, and no other changes.                     *)
LEMMA JoinJobs ==
    ASSUME IInv, NEW id \in JobIds, Join(id)
    PROVE  /\ id \in DOMAIN jobs /\ jobs[id].status = "Running"
           /\ \A j \in DOMAIN jobs : j # id /\ IsLive(j) => j \in DOMAIN jobs' /\ jobs'[j] = jobs[j]
<1> DEFINE done == Append(terminal, id)
           ended == [jobs EXCEPT ![id].status = tasks[id]]
<1>1. /\ phase = "loop" /\ id \in DOMAIN tasks
      /\ \/ jobs' = ended
         \/ jobs' = Without(ended, {Head(done)})
  BY DEF Join, FinishJob, Selecting, Evicts
<1>2. id \in DOMAIN jobs /\ jobs[id].status = "Running"
  BY <1>1, QueueTable DEF IInv, Tables
<1>3. DOMAIN ended = DOMAIN jobs /\ \A j \in DOMAIN jobs : j # id => ended[j] = jobs[j]
  OBVIOUS
<1>4. Head(done) = id \/ (Head(done) \in DOMAIN jobs /\ ~ IsLive(Head(done)))
  <2>1. terminal \in Seq(JobIds)
    BY DEF IInv, TypeOK
  <2>2. CASE terminal = <<>>
    BY <2>2
  <2>3. CASE terminal # <<>>
    <3>1. Head(done) = terminal[1] /\ 1 \in DOMAIN terminal
      BY <2>1, <2>3
    <3>2. QED
      BY <1>1, <3>1 DEF IInv, Tables, TerminalIsFinished, IsLive, LiveStatus, TerminalStatus
  <2>4. QED
    BY <2>2, <2>3
<1> HIDE DEF done, ended
<1>5. ASSUME NEW j \in DOMAIN jobs, j # id, IsLive(j) PROVE j \in DOMAIN jobs' /\ jobs'[j] = jobs[j]
  BY <1>1, <1>3, <1>4, <1>5 DEF Without
<1>6. QED
  BY <1>2, <1>5

LEMMA JoinFinishes ==
    ASSUME IInv, IInv', NEW id \in JobIds, Join(id)
    PROVE  \E t \in Targets : Board!Finish(t)
<1>1. PICK t : t = jobs[id].target
  OBVIOUS
<1>2. /\ phase = "loop" /\ id \in DOMAIN tasks /\ tasks' = Without(tasks, {id})
      /\ byTarget' = Without(byTarget, {t}) /\ UNCHANGED phase
  BY <1>1 DEF Join, Selecting
<1>3. LoopBoard /\ LoopBoard'
  BY <1>2, LoopBoards
<1>4. t \in DOMAIN byTarget /\ byTarget[t] = id /\ t \in Targets /\ EntryOf(byTarget[t]) = "running"
  <2>1. id \in DOMAIN jobs /\ jobs[id].status = "Running" /\ IsLive(id)
    BY JoinJobs DEF IsLive, LiveStatus
  <2>2. t \in DOMAIN byTarget /\ byTarget[t] = id
    BY <1>1, <2>1 DEF IInv, Tables, LiveIsIndexed
  <2>3. QED
    BY <1>2, <1>3, <2>1, <2>2 DEF LoopBoard, EntryOf
<1>5. DOMAIN byTarget' = DOMAIN byTarget \ {t} /\ DOMAIN tasks' = DOMAIN tasks \ {id}
  BY <1>2 DEF Without
<1>6. ASSUME NEW u \in DOMAIN byTarget, u # t
      PROVE  byTarget'[u] = byTarget[u] /\ EntryOf(byTarget[u])' = EntryOf(byTarget[u])
  <2>1. byTarget'[u] = byTarget[u]
    BY <1>2, <1>6 DEF Without
  <2>2. byTarget[u] # id /\ byTarget[u] \in DOMAIN jobs /\ IsLive(byTarget[u])
    BY <1>1, <1>3, <1>6 DEF LoopBoard, IsLive
  <2>3. jobs'[byTarget[u]] = jobs[byTarget[u]]
    BY <2>2, JoinJobs
  <2>4. QED
    BY <1>5, <2>1, <2>2, <2>3 DEF EntryOf
<1>7. DOMAIN board = DOMAIN byTarget /\ board[t] = "running"
  BY <1>3, <1>4 DEF LoopBoard
<1>8. board' = [u \in DOMAIN board \ {t} |-> board[u]]
  BY <1>3, <1>5, <1>6 DEF LoopBoard
<1>9. t \in Board!Of("running")
  BY <1>4, <1>7 DEF Board!Of
<1>10. Board!Finish(t)
  BY <1>2, <1>8, <1>9 DEF Board!Finish
<1>11. QED
  BY <1>4, <1>10

LEMMA JoinPanickedLoses ==
    ASSUME IInv, IInv', NEW id \in JobIds, JoinPanicked(id)
    PROVE  \E t \in Targets : Board!Lose(t)
<1>1. PICK t : t = jobs[id].target
  OBVIOUS
<1>2. /\ phase = "loop" /\ id \in DOMAIN tasks /\ tasks' = Without(tasks, {id})
      /\ UNCHANGED <<jobs, byTarget, phase>>
  BY DEF JoinPanicked, Selecting
<1>3. LoopBoard /\ LoopBoard'
  BY <1>2, LoopBoards
<1>4. id \in DOMAIN jobs /\ jobs[id].status = "Running"
  BY <1>2, QueueTable DEF IInv, Tables
<1>5. t \in DOMAIN byTarget /\ byTarget[t] = id /\ t \in Targets
  <2>1. IsLive(id)
    BY <1>4 DEF IsLive, LiveStatus
  <2>2. QED
    BY <1>1, <1>3, <1>4, <2>1 DEF IInv, Tables, LiveIsIndexed, LoopBoard
<1>6. DOMAIN tasks' = DOMAIN tasks \ {id}
  BY <1>2 DEF Without
<1>7. EntryOf(byTarget[t]) = "running" /\ EntryOf(byTarget[t])' = "lost"
  BY <1>2, <1>4, <1>5, <1>6 DEF EntryOf
<1>8. ASSUME NEW u \in DOMAIN byTarget, u # t PROVE EntryOf(byTarget[u])' = EntryOf(byTarget[u])
  <2>1. byTarget[u] # id
    BY <1>1, <1>3, <1>8 DEF LoopBoard
  <2>2. QED
    BY <1>2, <1>6, <2>1 DEF EntryOf
<1>9. DOMAIN board = DOMAIN byTarget /\ board[t] = "running"
  BY <1>3, <1>5, <1>7 DEF LoopBoard
<1>10. board' = [board EXCEPT ![t] = "lost"]
  BY <1>2, <1>3, <1>5, <1>7, <1>8 DEF LoopBoard
<1>11. t \in Board!Of("running")
  BY <1>5, <1>9 DEF Board!Of
<1>12. Board!Lose(t)
  BY <1>2, <1>10, <1>11 DEF Board!Lose
<1>13. QED
  BY <1>5, <1>12

LEMMA CloseReceiverCloses ==
    ASSUME IInv, CloseReceiver
    PROVE  Board!Close
<1> DEFINE S == {queue[i].id : i \in DOMAIN queue}
<1>1. CancelJobs(S) /\ phase = "loop" /\ phase' = "draining" /\ UNCHANGED <<byTarget, tasks>>
  BY DEF CloseReceiver
<1>2. S = {id \in DOMAIN jobs : jobs[id].status = "Queued"}
  BY DEF IInv, Tables, StatusTellsTheTruth
<1> HIDE DEF S
<1>3. LoopBoard
  BY <1>1, BoardOfLoop DEF Looping
<1>4. ASSUME NEW u \in DOMAIN byTarget
      PROVE  /\ IsLive(byTarget[u])' <=> EntryOf(byTarget[u]) # "queued"
             /\ IsLive(byTarget[u])' => EntryOf(byTarget[u])' = EntryOf(byTarget[u])
  <2>1. /\ DOMAIN jobs' = DOMAIN jobs
        /\ \A id \in DOMAIN jobs : jobs'[id].status = IF id \in S THEN "Cancelled" ELSE jobs[id].status
    BY <1>1, CancelJobsType
  <2>2. byTarget[u] \in DOMAIN jobs /\ jobs[byTarget[u]].status \in LiveStatus /\ byTarget'[u] = byTarget[u]
    BY <1>1, <1>3 DEF LoopBoard
  <2>3. QED
    BY <1>1, <1>2, <2>1, <2>2 DEF IsLive, EntryOf, LiveStatus
<1>5. {u \in DOMAIN byTarget' : IsLive(byTarget[u])'} = DOMAIN board \ Board!Of("queued")
  BY <1>1, <1>3, <1>4 DEF LoopBoard, Board!Of
<1>6. board' = [u \in {v \in DOMAIN byTarget' : IsLive(byTarget[v])'} |-> EntryOf(byTarget[u])']
  BY DEF board
<1>7. \A u \in DOMAIN byTarget : IsLive(byTarget[u])' => EntryOf(byTarget[u])' = board[u]
  BY <1>3, <1>4 DEF LoopBoard
<1>8. board' = [u \in DOMAIN board \ Board!Of("queued") |-> board[u]]
  BY <1>1, <1>5, <1>6, <1>7
<1>9. QED
  BY <1>1, <1>8 DEF Board!Close

LEMMA AbortAllClears ==
    ASSUME IInv, Order, AbortAll
    PROVE  Board!Clear
<1>1. CancelJobs(active) /\ phase = "draining" /\ phase' = "stopped"
  BY DEF AbortAll
<1>2. queue = <<>>
  BY <1>1 DEF Order, Closed
<1>3. ASSUME NEW id \in DOMAIN jobs PROVE jobs'[id].status \notin LiveStatus
  <2>1. jobs'[id].status = IF id \in active THEN "Cancelled" ELSE jobs[id].status
    BY <1>1, CancelJobsType
  <2>2. jobs[id].status # "Queued" /\ (jobs[id].status = "Running" => id \in active)
    BY <1>2 DEF IInv, Tables, StatusTellsTheTruth
  <2>3. QED
    BY <2>1, <2>2 DEF LiveStatus
<1>4. \A id : ~ IsLive(id)'
  BY <1>1, <1>3, CancelJobsType DEF IsLive
<1>5. board' = [u \in {v \in DOMAIN byTarget' : IsLive(byTarget[v])'} |-> EntryOf(byTarget[u])']
  BY DEF board
<1>6. board' = [u \in {} |-> u]
  BY <1>4, <1>5
<1>7. QED
  BY <1>1, <1>6 DEF Board!Clear

LEMMA StepBoard == IInv /\ Order /\ [Next]_vars => [Board!BoardNext]_(Board!boardVars)
<1> SUFFICES ASSUME IInv, Order, [Next]_vars PROVE Board!BoardNext \/ UNCHANGED Board!boardVars
  OBVIOUS
<1>1. IInv'
  BY StepIInv
<1>2. CASE UNCHANGED vars
  BY <1>2, BoardSame DEF vars
<1>3. ASSUME NEW c \in Clients, ClientStep(c) PROVE UNCHANGED Board!boardVars
  BY <1>3, BoardSame DEF ClientStep, Submit, SubmitRefused
<1>4. CASE Recv \/ AnswerDuplicate \/ AnswerFull \/ DrainChannel \/ Cancel
  BY <1>4, BoardSame DEF Recv, AnswerDuplicate, AnswerFull, DrainChannel, Cancel
<1>5. ASSUME NEW id \in JobIds, TaskEnds(id) PROVE UNCHANGED Board!boardVars
  BY <1>5, BoardSame DEF TaskEnds
<1>6. CASE \E id \in JobIds : Accept(id)
  BY <1>1, <1>6, AcceptPosts DEF Board!BoardNext
<1>7. CASE Dispatch
  BY <1>1, <1>7, DispatchStarts DEF Board!BoardNext
<1>8. CASE \E id \in JobIds : Join(id)
  BY <1>1, <1>8, JoinFinishes DEF Board!BoardNext
<1>9. CASE \E id \in JobIds : JoinPanicked(id)
  BY <1>1, <1>9, JoinPanickedLoses DEF Board!BoardNext
<1>10. CASE CloseReceiver
  BY <1>10, CloseReceiverCloses DEF Board!BoardNext
<1>11. CASE AbortAll
  BY <1>11, AbortAllClears DEF Board!BoardNext
<1>12. QED
  BY <1>2, <1>3, <1>4, <1>5, <1>6, <1>7, <1>8, <1>9, <1>10, <1>11 DEF Next, SchedulerStep

(* The scheduler keeps the promise of ReviewBoard: entries are posted,     *)
(* started, finished, lost and dropped as the board allows, and the board  *)
(* is empty once the scheduler stopped.                                    *)
THEOREM Refinement == Spec => ImplementsBoard
BY InitBoard, StepBoard, Invariance, QueueOrdered, PTL DEF Spec, ImplementsBoard, Board!BoardSpec

-----------------------------------------------------------------------------

(* Who waits for an answer.  A caller waits exactly while the scheduler    *)
(* holds a submission of it, which is one only.                            *)

OncePerCaller ==
    \A i, j \in DOMAIN channel : channel[i].client = channel[j].client => i = j

Calls ==
    /\ OncePerCaller
    /\ \A c \in Clients : client[c] = "waiting" <=> InHand(c) \/ InChannel(c)
    /\ \A c \in Clients : ~ (InHand(c) /\ InChannel(c))
    /\ phase = "stopped" => channel = <<>>

LEMMA InitCalls == Init => Calls
BY DEF Init, Calls, OncePerCaller, InHand, InChannel

LEMMA CallsSame ==
    ASSUME Calls, UNCHANGED <<channel, inHand, client>>,
           phase' = "stopped" => phase = "stopped" \/ channel = <<>>
    PROVE  Calls'
<1>1. \A c \in Clients : (InHand(c)' <=> InHand(c)) /\ (InChannel(c)' <=> InChannel(c))
  BY DEF InHand, InChannel
<1>2. OncePerCaller'
  BY DEF Calls, OncePerCaller
<1>3. QED
  BY <1>1, <1>2 DEF Calls

LEMMA SubmitCalls ==
    ASSUME IInv, Calls, NEW c \in Clients, NEW t \in Targets, NEW r \in BOOLEAN, Submit(c, t, r)
    PROVE  Calls'
<1> DEFINE n == Len(channel)
           call == [client |-> c, target |-> t, retry |-> r]
<1>1. /\ channel \in Seq(Submission) /\ client \in [Clients -> Answers] /\ n \in Nat
      /\ call \in Submission
  BY DEF IInv, TypeOK, Submission
<1>2. /\ channel' = Append(channel, call) /\ client' = [client EXCEPT ![c] = "waiting"]
      /\ UNCHANGED <<inHand, phase>> /\ phase = "loop" /\ client[c] # "waiting"
  BY DEF Submit
<1>3. DOMAIN channel = 1..n /\ DOMAIN channel' = 1..(n + 1) /\ channel'[n + 1].client = c
        /\ \A i \in 1..n : channel'[i] = channel[i]
  BY <1>1, <1>2
<1>4. ~ InHand(c) /\ ~ InChannel(c)
  BY <1>2 DEF Calls
<1>5. \A d \in Clients : (InHand(d)' <=> InHand(d)) /\ (InChannel(d)' <=> d = c \/ InChannel(d))
  BY <1>2, <1>3 DEF InHand, InChannel
<1>6. OncePerCaller'
  <2>1. \A i \in 1..n : channel[i].client # c
    BY <1>3, <1>4 DEF InChannel
  <2>2. SUFFICES ASSUME NEW i \in 1..(n + 1), NEW j \in 1..(n + 1),
                        channel'[i].client = channel'[j].client
                 PROVE  i = j
    BY <1>3 DEF OncePerCaller
  <2>3. CASE i \in 1..n /\ j \in 1..n
    BY <1>3, <2>2, <2>3 DEF Calls, OncePerCaller
  <2>4. CASE i = n + 1 \/ j = n + 1
    BY <1>1, <1>3, <2>1, <2>2, <2>4
  <2>5. QED
    BY <1>1, <2>3, <2>4
<1>7. \A d \in Clients : client'[d] = IF d = c THEN "waiting" ELSE client[d]
  BY <1>1, <1>2
<1>8. QED
  BY <1>2, <1>4, <1>5, <1>6, <1>7 DEF Calls

LEMMA RefusedCalls ==
    ASSUME IInv, Calls, NEW c \in Clients, SubmitRefused(c)
    PROVE  Calls'
<1>1. client \in [Clients -> Answers] /\ client[c] # "waiting"
        /\ UNCHANGED <<channel, inHand, phase>>
  BY DEF IInv, TypeOK, SubmitRefused
<1>2. PICK reply \in {"closed", "full"} : client' = [client EXCEPT ![c] = reply]
  BY DEF SubmitRefused
<1>3. \A d \in Clients : client'[d] = "waiting" <=> client[d] = "waiting"
  BY <1>1, <1>2
<1>4. \A d \in Clients : (InHand(d)' <=> InHand(d)) /\ (InChannel(d)' <=> InChannel(d))
  BY <1>1 DEF InHand, InChannel
<1>5. OncePerCaller'
  BY <1>1 DEF Calls, OncePerCaller
<1>6. QED
  BY <1>1, <1>3, <1>4, <1>5 DEF Calls

(* What is taken from the front of the channel leaves the rest as it was.  *)
LEMMA FrontLeaves ==
    ASSUME IInv, Calls, channel # <<>>, channel' = Tail(channel)
    PROVE  /\ Head(channel) \in Submission
           /\ OncePerCaller'
           /\ \A c \in Clients : InChannel(c)' <=> InChannel(c) /\ c # Head(channel).client
           /\ InChannel(Head(channel).client)
<1> DEFINE n == Len(channel)
<1>1. channel \in Seq(Submission) /\ n \in Nat \ {0} /\ DOMAIN channel = 1..n
  BY DEF IInv, TypeOK
<1>2. /\ DOMAIN channel' = 1..(n - 1) /\ Head(channel) = channel[1] /\ channel[1] \in Submission
      /\ \A i \in 1..(n - 1) : channel'[i] = channel[i + 1] /\ i + 1 \in 1..n
  BY <1>1
<1>3. \A i \in 2..n : channel[i].client # channel[1].client /\ i - 1 \in 1..(n - 1)
                        /\ channel'[i - 1] = channel[i]
  BY <1>1, <1>2 DEF Calls, OncePerCaller
<1>4. OncePerCaller'
  <2>1. SUFFICES ASSUME NEW i \in 1..(n - 1), NEW j \in 1..(n - 1),
                        channel'[i].client = channel'[j].client
                 PROVE  i = j
    BY <1>2 DEF OncePerCaller
  <2>2. i + 1 = j + 1
    BY <1>1, <1>2, <2>1 DEF Calls, OncePerCaller
  <2>3. QED
    BY <2>2
<1>5. ASSUME NEW c \in Clients
      PROVE  InChannel(c)' <=> InChannel(c) /\ c # Head(channel).client
  <2>1. ASSUME InChannel(c)' PROVE InChannel(c) /\ c # Head(channel).client
    <3>1. PICK i \in 1..(n - 1) : channel'[i].client = c
      BY <1>2, <2>1 DEF InChannel
    <3>2. i + 1 \in 2..n /\ channel[i + 1].client = c
      BY <1>1, <1>2, <3>1
    <3>3. QED
      BY <1>1, <1>2, <1>3, <3>2 DEF InChannel
  <2>2. ASSUME InChannel(c), c # Head(channel).client PROVE InChannel(c)'
    <3>1. PICK i \in 1..n : channel[i].client = c
      BY <1>1, <2>2 DEF InChannel
    <3>2. i \in 2..n
      BY <1>1, <1>2, <2>2, <3>1
    <3>3. QED
      BY <1>2, <1>3, <3>1, <3>2 DEF InChannel
  <2>3. QED
    BY <2>1, <2>2
<1>6. InChannel(Head(channel).client)
  BY <1>1, <1>2 DEF InChannel
<1>7. QED
  BY <1>2, <1>4, <1>5, <1>6

LEMMA RecvCalls ==
    ASSUME IInv, Calls, Recv
    PROVE  Calls'
<1>1. /\ channel # <<>> /\ inHand = NoSubmission /\ inHand' = Head(channel)
      /\ channel' = Tail(channel) /\ phase = "loop" /\ UNCHANGED <<client, phase>>
  BY DEF Recv, Selecting
<1>2. PICK r \in Submission : r = Head(channel)
  BY <1>1, FrontLeaves
<1>3. OncePerCaller' /\ InChannel(r.client)
        /\ \A c \in Clients : InChannel(c)' <=> InChannel(c) /\ c # r.client
  BY <1>1, <1>2, FrontLeaves
<1>4. \A c \in Clients : ~ InHand(c) /\ (InHand(c)' <=> c = r.client)
  BY <1>1, <1>2 DEF InHand, Submission, NoSubmission
<1>5. QED
  BY <1>1, <1>3, <1>4 DEF Calls

LEMMA AnswerCalls ==
    ASSUME IInv, Calls, inHand # NoSubmission, NEW reply \in Answers \ {"waiting"},
           Answer(reply), UNCHANGED <<channel, phase>>
    PROVE  Calls'
<1>1. PICK r \in Submission : r = inHand
  BY DEF IInv, TypeOK
<1>2. /\ r.client \in Clients /\ client' = [client EXCEPT ![r.client] = reply]
      /\ inHand' = NoSubmission /\ client \in [Clients -> Answers]
  BY <1>1 DEF IInv, TypeOK, Answer, Submission
<1>3. \A c \in Clients : client'[c] = IF c = r.client THEN reply ELSE client[c]
  BY <1>2
<1>4. \A c \in Clients : (InHand(c) <=> c = r.client) /\ ~ InHand(c)'
                           /\ (InChannel(c)' <=> InChannel(c))
  BY <1>1, <1>2 DEF InHand, InChannel
<1>5. OncePerCaller'
  BY DEF Calls, OncePerCaller
<1>6. QED
  BY <1>2, <1>3, <1>4, <1>5 DEF Calls

LEMMA DrainCalls ==
    ASSUME IInv, Calls, DrainChannel
    PROVE  Calls'
<1>1. /\ channel # <<>> /\ channel' = Tail(channel) /\ UNCHANGED <<inHand, phase>>
      /\ client' = [client EXCEPT ![Head(channel).client] = "closed"]
      /\ client \in [Clients -> Answers] /\ phase = "draining"
  BY DEF DrainChannel, IInv, TypeOK
<1>2. PICK r \in Submission : r = Head(channel)
  BY <1>1, FrontLeaves
<1>3. OncePerCaller' /\ InChannel(r.client) /\ r.client \in Clients
        /\ \A c \in Clients : InChannel(c)' <=> InChannel(c) /\ c # r.client
  BY <1>1, <1>2, FrontLeaves DEF Submission
<1>4. \A c \in Clients : client'[c] = IF c = r.client THEN "closed" ELSE client[c]
  BY <1>1, <1>2
<1>5. \A c \in Clients : InHand(c)' <=> InHand(c)
  BY <1>1 DEF InHand
<1>6. QED
  BY <1>1, <1>3, <1>4, <1>5 DEF Calls

LEMMA StepCalls == IInv /\ Calls /\ [Next]_vars => Calls'
<1> SUFFICES ASSUME IInv, Calls, [Next]_vars PROVE Calls'
  OBVIOUS
<1>1. CASE UNCHANGED vars
  BY <1>1, CallsSame DEF vars
<1>2. ASSUME NEW c \in Clients, ClientStep(c) PROVE Calls'
  BY <1>2, SubmitCalls, RefusedCalls DEF ClientStep
<1>3. CASE Dispatch \/ Cancel \/ (\E id \in JobIds : TaskEnds(id))
  BY <1>3, CallsSame DEF Dispatch, Cancel, TaskEnds
<1>4. CASE \E id \in JobIds : Join(id) \/ JoinPanicked(id)
  BY <1>4, CallsSame DEF Join, JoinPanicked
<1>5. CASE Recv
  BY <1>5, RecvCalls
<1>6. CASE AnswerDuplicate
  <2>1. PICK reply \in {"job", "closed"} : Answer(reply)
    BY <1>6 DEF AnswerDuplicate
  <2>2. QED
    BY <1>6, <2>1, AnswerCalls DEF AnswerDuplicate, Answers
<1>7. CASE AnswerFull
  BY <1>7, AnswerCalls DEF AnswerFull, Answers
<1>8. ASSUME NEW id \in JobIds, Accept(id) PROVE Calls'
  BY <1>8, AnswerCalls DEF Accept, Answers
<1>9. CASE CloseReceiver \/ AbortAll
  BY <1>9, CallsSame DEF CloseReceiver, AbortAll
<1>10. CASE DrainChannel
  BY <1>10, DrainCalls
<1>11. QED
  BY <1>1, <1>2, <1>3, <1>4, <1>5, <1>6, <1>7, <1>8, <1>9, <1>10 DEF Next, SchedulerStep

LEMMA CallsAreHeard == IInv /\ Calls => CallerIsHeard
<1>1. ASSUME IInv, Calls, NEW c \in Clients, client[c] = "waiting", phase = "stopped"
      PROVE  FALSE
  <2>1. inHand = NoSubmission /\ channel = <<>>
    BY <1>1 DEF IInv, Tables, Calls
  <2>2. ~ InHand(c) /\ ~ InChannel(c)
    BY <2>1 DEF InHand, InChannel
  <2>3. QED
    BY <1>1, <2>2 DEF Calls
<1>2. QED
  BY <1>1 DEF Calls, CallerIsHeard

(* Who waits for an answer has one submission with the scheduler, and a    *)
(* scheduler that has stopped left nobody waiting.                         *)
THEOREM CallersAreHeard == Spec => []CallerIsHeard
<1>1. Spec => []Calls
  BY InitCalls, StepCalls, Invariance, PTL DEF Spec
<1>2. QED
  BY <1>1, CallsAreHeard, Invariance, PTL

-----------------------------------------------------------------------------

(* The poll submitter beside the scheduler.  Its steps are those of a      *)
(* caller, but for the stored permit, which only it takes and on which no  *)
(* step of the scheduler depends.                                          *)

(* The latest request for a target that was discovered is one of those     *)
(* discovered.                                                             *)
LEMMA LatestType ==
    ASSUME NEW d \in Seq(Request), NEW t \in TargetsOf(d)
    PROVE  \E i \in DOMAIN d : Latest(d, t) = d[i]
<1> DEFINE T == {Len(d) - i : i \in {k \in DOMAIN d : d[k].target = t}}
<1>1. Len(d) \in Nat /\ DOMAIN d = 1..Len(d)
  OBVIOUS
<1>2. T \subseteq Nat /\ T # {}
  BY <1>1 DEF TargetsOf
<1>3. PICK m \in T : \A y \in T : ~ (<<y, m>> \in OpToRel(<, Nat))
  BY <1>2, NatLessThanWellFounded, WFMin
<1>4. \A y \in T : ~ (y < m)
  BY <1>2, <1>3 DEF OpToRel
<1>5. PICK i \in DOMAIN d : d[i].target = t /\ m = Len(d) - i
  BY <1>3
<1>6. ASSUME NEW j \in DOMAIN d, d[j].target = t PROVE j <= i
  <2>1. Len(d) - j \in T
    BY <1>6
  <2>2. ~ (Len(d) - j < Len(d) - i)
    BY <1>4, <1>5, <2>1
  <2>3. i \in Nat /\ j \in Nat
    BY <1>1
  <2>4. QED
    BY <1>1, <2>2, <2>3
<1>7. QED
  BY <1>5, <1>6 DEF Latest

LEMMA MergeType ==
    ASSUME NEW held, NEW d \in Seq(Request), NEW requests \in Merges(held, d)
    PROVE  requests \in Seq(Request)
<1> DEFINE S == {Latest(d, t) : t \in TargetsOf(d)}
           R == {d[i] : i \in DOMAIN d}
<1>1. requests \in [1..Cardinality(S) -> S]
  BY DEF Merges, SetToSeqs
<1>2. DOMAIN d = 1..Len(d) /\ Len(d) \in Nat /\ d \in [DOMAIN d -> Request]
  OBVIOUS
<1>3. S \subseteq R
  BY LatestType
<1>4. R \subseteq Request
  BY <1>2
<1>5. IsFiniteSet(DOMAIN d)
  BY <1>2, FS_Interval
<1>6. d \in Surjection(DOMAIN d, R)
  BY <1>2 DEF Surjection
<1>7. IsFiniteSet(R)
  BY <1>5, <1>6, FS_Surjection
<1>8. Cardinality(S) \in Nat
  BY <1>3, <1>7, FS_Subset, FS_CardinalityType
<1> HIDE DEF S, R
<1>9. requests \in [1..Cardinality(S) -> Request]
  BY <1>1, <1>3, <1>4
<1>10. QED
  BY <1>8, <1>9

(* Only the submitter takes the permit, and nothing else with it.          *)
TakesPermit ==
    /\ permit' \in BOOLEAN
    /\ UNCHANGED <<jobs, queue, active, byTarget, tasks, terminal, channel, inHand,
                   phase, cancelled, client>>

Awaiting == poller = "await" => pending # <<>>

PollInv == PollTypeOK /\ IInv /\ Awaiting /\ WakeupIsOwed

LEMMA FrontType ==
    ASSUME PollTypeOK, pending # <<>>
    PROVE  /\ pending[1].target \in Targets /\ pending[1].retry \in BOOLEAN
           /\ Tail(pending) \in Seq(Request)
<1>1. pending \in Seq(Request) /\ Len(pending) > 0
  BY DEF PollTypeOK
<1>2. pending[1] \in Request
  BY <1>1
<1>3. QED
  BY <1>1, <1>2 DEF Request

(* Every step of the composition is one of the scheduler, or takes the     *)
(* permit.                                                                 *)
LEMMA PollSteps ==
    ASSUME PollTypeOK, [PollNext]_allVars
    PROVE  [Next]_vars \/ TakesPermit
<1>1. CASE UNCHANGED allVars \/ (\E d \in Discoveries : Discover(d))
  BY <1>1 DEF allVars, Discover
<1>2. CASE Refresh \/ SubmitDone \/ Answered \/ SelectDiscovery \/ PollerStops
  BY <1>2 DEF Refresh, SubmitDone, Answered, SelectDiscovery, PollerStops
<1>3. CASE SubmitFront
  <2>1. \/ Submit(Poller, pending[1].target, pending[1].retry)
        \/ SubmitRefused(Poller)
    BY <1>3 DEF SubmitFront
  <2>2. pending[1].target \in Targets /\ pending[1].retry \in BOOLEAN /\ Poller \in Clients
    BY <1>3, FrontType, PollerAssumption DEF SubmitFront
  <2>3. ClientStep(Poller)
    BY <2>1, <2>2 DEF ClientStep
  <2>4. QED
    BY <2>2, <2>3 DEF Next
<1>4. CASE SelectCapacity
  <2>1. permit' \in BOOLEAN
    BY <1>4 DEF SelectCapacity, PollTypeOK, TypeOK
  <2>2. QED
    BY <1>4, <2>1 DEF SelectCapacity, TakesPermit
<1>5. CASE OtherStep
  <2>1. ASSUME NEW c \in Clients, NEW t \in Targets, Submit(c, t, FALSE)
        PROVE  Next
    BY <2>1 DEF Next, ClientStep
  <2>2. ASSUME NEW c \in Clients, SubmitRefused(c)
        PROVE  Next
    BY <2>2 DEF Next, ClientStep
  <2>3. \A c \in Clients \ {Poller} : Asks[c] \subseteq Targets
    BY PollerAssumption
  <2>4. QED
    BY <1>5, <2>1, <2>2, <2>3 DEF OtherStep, Next
<1>6. QED
  BY <1>1, <1>2, <1>3, <1>4, <1>5 DEF PollNext, PollerStep

LEMMA PermitTables == IInv /\ TakesPermit => IInv'
<1> SUFFICES ASSUME IInv, TakesPermit PROVE IInv'
  OBVIOUS
<1>1. TypeOK'
  BY DEF IInv, TypeOK, TakesPermit
<1>2. Tables'
  BY SameTables DEF IInv, Tables, TakesPermit
<1>3. QED
  BY <1>1, <1>2 DEF IInv

LEMMA PollTables == PollTypeOK /\ IInv /\ [PollNext]_allVars => IInv'
BY PollSteps, StepIInv, PermitTables

LEMMA InitPoll == PollInit => PollInv
<1> SUFFICES ASSUME PollInit PROVE PollInv
  OBVIOUS
<1>1. IInv
  BY InitIInv DEF PollInit
<1>2. PollTypeOK
  <2>1. <<>> \in Seq(Request)
    OBVIOUS
  <2>2. QED
    BY <1>1, <2>1 DEF PollInit, PollTypeOK, IInv
<1>3. QED
  BY <1>1, <1>2 DEF PollInit, PollInv, Awaiting, WakeupIsOwed, Deferring

LEMMA PollTypes ==
    ASSUME PollTypeOK, IInv, Awaiting, [PollNext]_allVars
    PROVE  PollTypeOK' /\ Awaiting'
<1>1. TypeOK'
  BY PollTables DEF IInv
<1>2. CASE UNCHANGED allVars \/ OtherStep
  BY <1>1, <1>2 DEF allVars, OtherStep, pollVars, PollTypeOK, Awaiting
<1>3. ASSUME NEW d \in Discoveries, Discover(d) PROVE PollTypeOK' /\ Awaiting'
  BY <1>1, <1>3, PollerAssumption DEF Discover, PollTypeOK, Awaiting
<1>4. CASE Refresh
  BY <1>1, <1>4, MergeType DEF Refresh, PollTypeOK, Awaiting
<1>5. CASE SubmitFront \/ SubmitDone \/ SelectDiscovery \/ SelectCapacity \/ PollerStops
  <2>1. <<>> \in Seq(Request)
    OBVIOUS
  <2>2. QED
    BY <1>1, <1>5, <2>1 DEF SubmitFront, SubmitDone, SelectDiscovery, SelectCapacity,
       PollerStops, Return, PollTypeOK, Awaiting
<1>6. CASE Answered
  <2>1. <<>> \in Seq(Request)
    OBVIOUS
  <2>2. QED
    BY <1>1, <1>6, <2>1, FrontType DEF Answered, Return, PollTypeOK, Awaiting
<1>7. QED
  BY <1>2, <1>3, <1>4, <1>5, <1>6 DEF PollNext, PollerStep

(* A submission in hand is not the mark for none.                          *)
LEMMA SubmissionIsSome == ASSUME NEW r \in Submission PROVE r # NoSubmission
BY DEF Submission, NoSubmission

LEMMA PollerWakeup ==
    ASSUME PollInv, PollerStep
    PROVE  WakeupIsOwed'
<1>1. CASE Refresh \/ SelectDiscovery \/ SelectCapacity \/ PollerStops \/ SubmitDone
  BY <1>1 DEF Refresh, SelectDiscovery, SelectCapacity, PollerStops, SubmitDone,
     Return, WakeupIsOwed, Deferring
<1>2. CASE Answered
  BY <1>2 DEF Answered, Return, vars, PollInv, WakeupIsOwed, Deferring
<1>3. CASE SubmitFront
  <2>1. client \in [Clients -> Answers] /\ Poller \in Clients /\ Len(channel) <= Capacity
          /\ Len(channel) \in Nat
    BY PollerAssumption DEF PollInv, IInv, TypeOK
  <2>2. CASE Submit(Poller, pending[1].target, pending[1].retry)
    <3>1. client'[Poller] = "waiting" /\ poller' = "await"
      BY <1>3, <2>1, <2>2 DEF Submit, SubmitFront
    <3>2. QED
      BY <3>1 DEF WakeupIsOwed, Deferring
  <2>3. CASE SubmitRefused(Poller)
    <3>1. UNCHANGED <<channel, phase>> /\ (phase = "loop" => Len(channel) >= Capacity)
      BY <2>1, <2>3 DEF SubmitRefused
    <3>2. QED
      BY <2>1, <3>1, SchedulerAssumption DEF WakeupIsOwed
  <2>4. QED
    BY <1>3, <2>2, <2>3 DEF SubmitFront
<1>4. QED
  BY <1>1, <1>2, <1>3 DEF PollerStep

LEMMA OtherWakeup ==
    ASSUME PollInv, OtherStep
    PROVE  WakeupIsOwed'
<1>1. /\ client \in [Clients -> Answers] /\ Poller \in Clients
      /\ channel \in Seq(Submission) /\ Len(channel) <= Capacity /\ Len(channel) \in Nat
      /\ queue \in Seq(Queued) /\ UNCHANGED <<poller, pending>>
      /\ Capacity \in Nat \ {0}
  BY PollerAssumption, SchedulerAssumption DEF PollInv, IInv, TypeOK, OtherStep, pollVars
<1>2. ASSUME NEW c \in Clients \ {Poller}, NEW t \in Targets, Submit(c, t, FALSE)
      PROVE  WakeupIsOwed'
  <2>1. client'[Poller] = client[Poller] /\ Len(channel) < Capacity
          /\ Len(channel') = Len(channel) + 1 /\ UNCHANGED <<phase, permit, queue, inHand>>
    BY <1>1, <1>2 DEF Submit
  <2>2. QED
    BY <1>1, <2>1 DEF PollInv, WakeupIsOwed, Deferring
<1>3. ASSUME NEW c \in Clients \ {Poller}, SubmitRefused(c)
      PROVE  WakeupIsOwed'
  <2>1. client'[Poller] = client[Poller] /\ UNCHANGED <<channel, phase, permit, queue, inHand>>
    BY <1>1, <1>3 DEF SubmitRefused
  <2>2. QED
    BY <1>1, <2>1 DEF PollInv, WakeupIsOwed, Deferring
<1>4. ASSUME NEW id \in JobIds, Join(id) \/ JoinPanicked(id) \/ TaskEnds(id)
      PROVE  WakeupIsOwed'
  BY <1>1, <1>4 DEF Join, JoinPanicked, TaskEnds, PollInv, WakeupIsOwed, Deferring
<1>5. CASE Cancel
  BY <1>1, <1>5 DEF Cancel, PollInv, WakeupIsOwed, Deferring
<1>6. CASE Dispatch
  BY <1>6 DEF Dispatch, WakeupIsOwed
<1>7. CASE Recv
  <2>1. /\ inHand = NoSubmission /\ inHand' = Head(channel) /\ channel # <<>>
        /\ channel' = Tail(channel) /\ UNCHANGED <<phase, permit, queue, client>>
    BY <1>7 DEF Recv, Selecting
  <2>2. Len(channel') = Len(channel) - 1 /\ Head(channel) \in Submission
    BY <1>1, <2>1
  <2>3. inHand' # NoSubmission
    BY <2>1, <2>2, SubmissionIsSome
  <2>4. QED
    BY <1>1, <2>1, <2>2, <2>3 DEF PollInv, WakeupIsOwed, Deferring
<1>8. CASE AnswerDuplicate
  <2>1. PICK reply \in {"job", "closed"} : client' = [client EXCEPT ![inHand.client] = reply]
    BY <1>8 DEF AnswerDuplicate, Answer
  <2>2. client'[Poller] = "full" => client[Poller] = "full"
    BY <1>1, <2>1
  <2>3. UNCHANGED <<phase, queue, channel>> /\ permit' = (permit \/ Len(channel) = Capacity - 1)
    BY <1>8 DEF AnswerDuplicate, NotifyIfWasFull
  <2>4. QED
    BY <1>1, <2>2, <2>3 DEF PollInv, WakeupIsOwed, Deferring
<1>9. CASE AnswerFull
  <2>1. Len(queue) >= Capacity /\ UNCHANGED queue
    BY <1>9 DEF AnswerFull
  <2>2. queue' # <<>>
    BY <1>1, <2>1
  <2>3. QED
    BY <2>2 DEF WakeupIsOwed
<1>10. ASSUME NEW id \in JobIds, Accept(id)
       PROVE  WakeupIsOwed'
  <2>1. queue' \in Seq(Queued) /\ Len(queue') = Len(queue) + 1
    BY <1>10, AcceptQueue DEF PollInv
  <2>2. queue' # <<>>
    BY <1>1, <2>1
  <2>3. QED
    BY <2>2 DEF WakeupIsOwed
<1>11. CASE CloseReceiver \/ DrainChannel \/ AbortAll
  BY <1>11 DEF CloseReceiver, DrainChannel, AbortAll, WakeupIsOwed
<1>12. \A c \in Clients \ {Poller} : Asks[c] \subseteq Targets
  BY PollerAssumption
<1>13. QED
  BY <1>2, <1>3, <1>4, <1>5, <1>6, <1>7, <1>8, <1>9, <1>10, <1>11, <1>12
  DEF OtherStep, SchedulerStep

LEMMA StepPoll == PollInv /\ [PollNext]_allVars => PollInv'
<1> SUFFICES ASSUME PollInv, [PollNext]_allVars PROVE PollInv'
  OBVIOUS
<1>1. IInv' /\ PollTypeOK' /\ Awaiting'
  BY PollTables, PollTypes DEF PollInv
<1>2. ASSUME NEW d \in Discoveries, Discover(d) PROVE WakeupIsOwed'
  BY <1>2 DEF vars, Discover, PollInv, WakeupIsOwed, Deferring
<1>3. ASSUME UNCHANGED allVars PROVE WakeupIsOwed'
  <2>1. UNCHANGED <<client, permit, queue, channel, inHand, phase, poller, pending>>
    BY <1>3 DEF allVars, vars, pollVars
  <2>2. WakeupIsOwed
    BY DEF PollInv
  <2>3. Deferring' = Deferring
    BY <2>1 DEF Deferring
  <2>4. QED
    BY <2>1, <2>2, <2>3 DEF WakeupIsOwed
<1>4. WakeupIsOwed'
  <2>1. ASSUME PollerStep PROVE WakeupIsOwed'
    BY <2>1, PollerWakeup
  <2>2. ASSUME OtherStep PROVE WakeupIsOwed'
    BY <2>2, OtherWakeup
  <2>3. QED
    BY <1>2, <1>3, <2>1, <2>2 DEF PollNext
<1>5. QED
  BY <1>1, <1>4 DEF PollInv

(* The scheduler's tables stay in agreement and the submitter's state has  *)
(* its type, whatever is discovered and whoever else submits.              *)
THEOREM PollInvariance == PollSpec => []PollInv
BY InitPoll, StepPoll, PTL DEF PollSpec

(* No wakeup is lost: the submitter never waits with deferred requests     *)
(* unless a permit is stored or a step the scheduler still has to take     *)
(* will store one, or the scheduler has stopped.                           *)
THEOREM WakeupOwed == PollSpec => []WakeupIsOwed
<1>1. PollInv => WakeupIsOwed
  BY DEF PollInv
<1>2. QED
  BY <1>1, PollInvariance, PTL

LEMMA PollOrder == PollSpec => []Order
<1>1. PollInit => Order
  BY InitOrder DEF PollInit
<1>2. PollInv /\ Order /\ [PollNext]_allVars => Order'
  <2> SUFFICES ASSUME PollInv, Order, [PollNext]_allVars PROVE Order'
    OBVIOUS
  <2>1. CASE TakesPermit
    BY <2>1 DEF TakesPermit, Order, FreshFirst, Closed
  <2>2. QED
    BY <2>1, PollSteps, StepOrder DEF PollInv
<1>3. QED
  BY <1>1, <1>2, PollInvariance, PTL DEF PollSpec

(* The same for its callers while the submitter comes and goes: also what  *)
(* it no longer waits for is answered.                                     *)
THEOREM PollCallersAreHeard == PollSpec => []CallerIsHeard
<1>1. PollInit => Calls
  BY InitCalls DEF PollInit
<1>2. PollInv /\ Calls /\ [PollNext]_allVars => Calls'
  <2> SUFFICES ASSUME PollInv, Calls, [PollNext]_allVars PROVE Calls'
    OBVIOUS
  <2>1. CASE TakesPermit
    BY <2>1, CallsSame DEF TakesPermit
  <2>2. QED
    BY <2>1, PollSteps, StepCalls DEF PollInv
<1>3. PollInv => IInv
  BY DEF PollInv
<1>4. QED
  BY <1>1, <1>2, <1>3, CallsAreHeard, PollInvariance, PTL DEF PollSpec

(* Beside the submitter the scheduler still keeps the promise of           *)
(* ReviewBoard: taking the permit is a step the board does not see.        *)
THEOREM PollRefinement == PollSpec => ImplementsBoard
<1>1. PollInit => Board!BoardInit
  BY InitBoard DEF PollInit
<1>2. PollInv /\ Order /\ [PollNext]_allVars => [Board!BoardNext]_(Board!boardVars)
  <2> SUFFICES ASSUME PollInv, Order, [PollNext]_allVars
               PROVE  Board!BoardNext \/ UNCHANGED Board!boardVars
    OBVIOUS
  <2>1. CASE TakesPermit
    BY <2>1, BoardSame DEF TakesPermit
  <2>2. QED
    BY <2>1, PollSteps, StepBoard DEF PollInv
<1>3. QED
  BY <1>1, <1>2, PollInvariance, PollOrder, PTL DEF PollSpec, ImplementsBoard, Board!BoardSpec

=============================================================================
