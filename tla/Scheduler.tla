------------------------------ MODULE Scheduler ------------------------------
(***************************************************************************)
(* The review scheduler (src/src/scheduler.rs): one task, run_scheduler,   *)
(* that owns a bounded channel of submissions, a queue of review jobs, a   *)
(* JoinSet of running reviews and the table of job snapshots every caller  *)
(* may read.  Callers reach it through SchedulerHandle::submit, which puts *)
(* a request in the channel without waiting and then waits for the answer. *)
(*                                                                         *)
(* Job ids come from a process-wide counter in the code; here a new job    *)
(* takes any id that no table mentions, so that behaviours are not cut by  *)
(* the number of ids.  A review may also panic: the code has no handler    *)
(* for that (an Err from join_next is dropped), and neither has the model. *)
(***************************************************************************)
EXTENDS Integers, FiniteSets, Sequences, SequencesExt

CONSTANTS
    Clients,       \* tasks that call submit: poller, HTTP server, issue worker
    Targets,       \* (repository, pull request, commit, review kind)
    JobIds,
    MaxWorkers,    \* --max-workers (0, unlimited, is left out)
    Capacity,      \* size of the channel and of the queue, max(2 * workers, 16)
    TerminalLimit, \* TERMINAL_JOB_LIMIT, finished jobs kept for readers
    Outcomes       \* how a review may end

ASSUME SchedulerAssumption ==
    /\ MaxWorkers \in Nat \ {0}
    /\ Capacity \in Nat \ {0}
    /\ TerminalLimit \in Nat \ {0}
    /\ Outcomes \subseteq {"Completed", "Skipped", "Failed", "Panicked"}

VARIABLES
    jobs,      \* id -> snapshot, the table shared with every handle
    queue,     \* jobs waiting for a worker
    active,    \* ids dispatched and not joined
    byTarget,  \* target -> id, the live job of a target
    tasks,     \* id -> "busy" or the outcome, the JoinSet
    terminal,  \* finished ids, oldest first
    channel,   \* submissions the scheduler has not received
    inHand,    \* the submission received and not answered yet, if any
    permit,    \* the stored permit of the Notify behind capacity_changed
    phase,     \* where run_scheduler is: its loop, or its shutdown
    cancelled, \* the CancellationToken
    client     \* what each client waits for, or its last answer

vars == <<jobs, queue, active, byTarget, tasks, terminal, channel, inHand,
          permit, phase, cancelled, client>>

NoSubmission == [kind |-> "none"]
EmptyFun == [x \in {} |-> x]
Answers == {"none", "waiting", "job", "full", "closed"}

TerminalStatus == {"Completed", "Skipped", "Failed", "Cancelled"}
LiveStatus == {"Queued", "Running"}

Submission == [client : Clients, target : Targets, retry : BOOLEAN]
Job == [target : Targets, status : LiveStatus \cup TerminalStatus]
Queued == [id : JobIds, retry : BOOLEAN]

IsPartialFun(f, S, T) == DOMAIN f \subseteq S /\ f \in [DOMAIN f -> T]
Without(f, S) == [x \in DOMAIN f \ S |-> f[x]]
With(f, x, y) == [z \in DOMAIN f \cup {x} |-> IF z = x THEN y ELSE f[z]]

-----------------------------------------------------------------------------

(* Callers: SchedulerHandle::submit.                                       *)

Submit(c, t, r) ==
    /\ client[c] # "waiting"
    /\ phase = "loop"
    /\ Len(channel) < Capacity
    /\ channel' = Append(channel, [client |-> c, target |-> t, retry |-> r])
    /\ client' = [client EXCEPT ![c] = "waiting"]
    /\ UNCHANGED <<jobs, queue, active, byTarget, tasks, terminal, inHand,
                   permit, phase, cancelled>>

SubmitRefused(c) ==
    /\ client[c] # "waiting"
    /\ \/ phase # "loop" /\ client' = [client EXCEPT ![c] = "closed"]
       \/ /\ phase = "loop" /\ Len(channel) >= Capacity
          /\ client' = [client EXCEPT ![c] = "full"]
    /\ UNCHANGED <<jobs, queue, active, byTarget, tasks, terminal, channel,
                   inHand, permit, phase, cancelled>>

-----------------------------------------------------------------------------

(* The scheduler task.  It dispatches while it can, then looks at the      *)
(* token, then takes the first ready branch of a biased select: the token, *)
(* a finished review, a submission.                                        *)

SetStatus(id, s) == jobs' = [jobs EXCEPT ![id].status = s]

CanDispatch == Cardinality(DOMAIN tasks) < MaxWorkers /\ queue # <<>>

Selecting == phase = "loop" /\ inHand = NoSubmission /\ ~CanDispatch /\ ~cancelled

(* Mutant: the target is released when its job leaves the queue. *)
DispatchReleasing ==
    /\ phase = "loop" /\ inHand = NoSubmission
    /\ CanDispatch
    /\ LET id == Head(queue).id IN
        /\ queue' = Tail(queue)
        /\ SetStatus(id, "Running")
        /\ active' = active \cup {id}
        /\ tasks' = With(tasks, id, "busy")
        /\ byTarget' = Without(byTarget, {jobs[id].target})
    /\ permit' = TRUE
    /\ UNCHANGED <<terminal, channel, inHand, phase, cancelled, client>>

(* Mutant: a job leaves the queue and nobody is woken. *)
DispatchSilently ==
    /\ phase = "loop" /\ inHand = NoSubmission
    /\ CanDispatch
    /\ LET id == Head(queue).id IN
        /\ queue' = Tail(queue)
        /\ SetStatus(id, "Running")
        /\ active' = active \cup {id}
        /\ tasks' = With(tasks, id, "busy")
    /\ UNCHANGED <<byTarget, terminal, channel, inHand, permit, phase,
                   cancelled, client>>

Dispatch ==
    /\ phase = "loop" /\ inHand = NoSubmission
    /\ CanDispatch
    /\ LET id == Head(queue).id IN
        /\ queue' = Tail(queue)
        /\ SetStatus(id, "Running")
        /\ active' = active \cup {id}
        /\ tasks' = With(tasks, id, "busy")
    /\ permit' = TRUE
    /\ UNCHANGED <<byTarget, terminal, channel, inHand, phase, cancelled, client>>

(* The handler of a running review returns, or panics.                     *)
TaskEnds(id) ==
    /\ id \in DOMAIN tasks
    /\ tasks[id] = "busy"
    /\ \E o \in Outcomes : tasks' = [tasks EXCEPT ![id] = o]
    /\ UNCHANGED <<jobs, queue, active, byTarget, terminal, channel, inHand,
                   permit, phase, cancelled, client>>

(* evict_terminal drops one finished job when there are too many.          *)
Evicts(t) == Len(t) > TerminalLimit

(* The status of the outcome; the oldest finished job may have to go.      *)
FinishJob(id) ==
    LET done == Append(terminal, id)
        ended == [jobs EXCEPT ![id].status = tasks[id]]
    IN  IF Evicts(done)
          THEN terminal' = Tail(done) /\ jobs' = Without(ended, {Head(done)})
          ELSE terminal' = done /\ jobs' = ended

(* Mutant: the target of a finished job is kept. *)
JoinKeepingTarget(id) ==
    /\ Selecting /\ id \in DOMAIN tasks
    /\ tasks[id] \notin {"busy", "Panicked"}
    /\ tasks' = Without(tasks, {id})
    /\ active' = active \ {id}
    /\ FinishJob(id)
    /\ UNCHANGED <<byTarget, queue, channel, inHand, permit, phase, cancelled, client>>

Join(id) ==
    /\ Selecting
    /\ id \in DOMAIN tasks
    /\ tasks[id] \notin {"busy", "Panicked"}
    /\ tasks' = Without(tasks, {id})
    /\ active' = active \ {id}
    /\ byTarget' = Without(byTarget, {jobs[id].target})
    /\ FinishJob(id)
    /\ UNCHANGED <<queue, channel, inHand, permit, phase, cancelled, client>>

(* join_next returned a JoinError: the worker slot is free again, and      *)
(* nothing else is undone.                                                 *)
JoinPanicked(id) ==
    /\ Selecting
    /\ id \in DOMAIN tasks
    /\ tasks[id] = "Panicked"
    /\ tasks' = Without(tasks, {id})
    /\ UNCHANGED <<jobs, queue, active, byTarget, terminal, channel, inHand,
                   permit, phase, cancelled, client>>

(* recv; callers may use the freed slot before the task looks at it.       *)
Recv ==
    /\ Selecting
    /\ \A id \in DOMAIN tasks : tasks[id] = "busy"
    /\ channel # <<>>
    /\ inHand' = Head(channel)
    /\ channel' = Tail(channel)
    /\ UNCHANGED <<jobs, queue, active, byTarget, tasks, terminal, permit,
                   phase, cancelled, client>>

NotifyIfWasFull == permit' = (permit \/ Len(channel) = Capacity - 1)

Answer(reply) ==
    /\ client' = [client EXCEPT ![inHand.client] = reply]
    /\ inHand' = NoSubmission

AnswerDuplicate ==
    /\ inHand # NoSubmission
    /\ inHand.target \in DOMAIN byTarget
    /\ LET id == byTarget[inHand.target] IN
        Answer(IF id \in DOMAIN jobs THEN "job" ELSE "closed")
    /\ NotifyIfWasFull
    /\ UNCHANGED <<jobs, queue, active, byTarget, tasks, terminal, channel,
                   phase, cancelled>>

AnswerFull ==
    /\ inHand # NoSubmission
    /\ inHand.target \notin DOMAIN byTarget
    /\ Len(queue) >= Capacity
    /\ Answer("full")
    /\ NotifyIfWasFull
    /\ UNCHANGED <<jobs, queue, active, byTarget, tasks, terminal, channel,
                   phase, cancelled>>

(* Mutant: fresh work goes to the front. *)
IsFrontPosition(p, q, retry) == p = IF retry THEN Len(q) + 1 ELSE 1

(* A retry goes to the back, fresh work before the first retry.            *)
IsPosition(p, q, retry) ==
    IF retry THEN p = Len(q) + 1
    ELSE /\ \A i \in 1..(p - 1) : ~ q[i].retry
         /\ p <= Len(q) => q[p].retry

(* Mutant: duplicates are accepted. *)
AcceptAnyway(id) ==
    /\ inHand # NoSubmission
    /\ Len(queue) < Capacity
    /\ id \in JobIds \ DOMAIN jobs
    /\ jobs' = With(jobs, id, [target |-> inHand.target, status |-> "Queued"])
    /\ byTarget' = With(byTarget, inHand.target, id)
    /\ \E p \in 1..(Len(queue) + 1) :
        /\ IsPosition(p, queue, inHand.retry)
        /\ queue' = InsertAt(queue, p, [id |-> id, retry |-> inHand.retry])
    /\ Answer("job")
    /\ NotifyIfWasFull
    /\ UNCHANGED <<active, tasks, terminal, channel, phase, cancelled>>

Accept(id) ==
    /\ inHand # NoSubmission
    /\ inHand.target \notin DOMAIN byTarget
    /\ Len(queue) < Capacity
    /\ id \in JobIds \ DOMAIN jobs
    /\ jobs' = With(jobs, id, [target |-> inHand.target, status |-> "Queued"])
    /\ byTarget' = With(byTarget, inHand.target, id)
    /\ \E p \in 1..(Len(queue) + 1) :
        /\ IsPosition(p, queue, inHand.retry)
        /\ queue' = InsertAt(queue, p, [id |-> id, retry |-> inHand.retry])
    /\ Answer("job")
    /\ NotifyIfWasFull
    /\ UNCHANGED <<active, tasks, terminal, channel, phase, cancelled>>

-----------------------------------------------------------------------------

(* Shutdown.  The receiver is closed and the queue cancelled; then the     *)
(* channel is drained; then every review is aborted and joined, and what   *)
(* was active is cancelled whether or not it had finished.                 *)

Cancel ==
    /\ ~cancelled
    /\ cancelled' = TRUE
    /\ UNCHANGED <<jobs, queue, active, byTarget, tasks, terminal, channel,
                   inHand, permit, phase, client>>

CancelJobs(S) ==
    jobs' = [id \in DOMAIN jobs |->
                IF id \in S THEN [jobs[id] EXCEPT !.status = "Cancelled"] ELSE jobs[id]]

CloseReceiver ==
    /\ phase = "loop" /\ inHand = NoSubmission
    /\ ~CanDispatch
    /\ cancelled
    /\ phase' = "draining"
    /\ CancelJobs({queue[i].id : i \in DOMAIN queue})
    /\ terminal' = terminal \o [i \in DOMAIN queue |-> queue[i].id]
    /\ queue' = <<>>
    /\ UNCHANGED <<active, byTarget, tasks, channel, inHand, permit, cancelled, client>>

(* Mutant: submissions are taken from the channel and not answered. *)
DrainUnanswered ==
    /\ phase = "draining"
    /\ channel # <<>>
    /\ channel' = Tail(channel)
    /\ UNCHANGED <<jobs, queue, active, byTarget, tasks, terminal, inHand,
                   permit, phase, cancelled, client>>

DrainChannel ==
    /\ phase = "draining"
    /\ channel # <<>>
    /\ client' = [client EXCEPT ![Head(channel).client] = "closed"]
    /\ channel' = Tail(channel)
    /\ UNCHANGED <<jobs, queue, active, byTarget, tasks, terminal, inHand,
                   permit, phase, cancelled>>

AbortAll ==
    /\ phase = "draining"
    /\ channel = <<>>
    /\ phase' = "stopped"
    /\ tasks' = EmptyFun
    /\ CancelJobs(active)
    /\ \E order \in SetToSeqs(active) : terminal' = terminal \o order
    /\ active' = {}
    /\ UNCHANGED <<queue, byTarget, channel, inHand, permit, cancelled, client>>

-----------------------------------------------------------------------------

Init ==
    /\ jobs = EmptyFun
    /\ queue = <<>>
    /\ active = {}
    /\ byTarget = EmptyFun
    /\ tasks = EmptyFun
    /\ terminal = <<>>
    /\ channel = <<>>
    /\ inHand = NoSubmission
    /\ permit = FALSE
    /\ phase = "loop"
    /\ cancelled = FALSE
    /\ client = [c \in Clients |-> "none"]

ClientStep(c) ==
    \/ \E t \in Targets, r \in BOOLEAN : Submit(c, t, r)
    \/ SubmitRefused(c)

SchedulerStep ==
    \/ Dispatch
    \/ \E id \in JobIds : Join(id) \/ JoinPanicked(id)
    \/ Recv
    \/ AnswerDuplicate \/ AnswerFull
    \/ \E id \in JobIds : Accept(id)
    \/ CloseReceiver \/ DrainChannel \/ AbortAll

Next ==
    \/ \E c \in Clients : ClientStep(c)
    \/ SchedulerStep
    \/ \E id \in JobIds : TaskEnds(id)
    \/ Cancel

Spec == Init /\ [][Next]_vars

(* The runtime schedules the task, and a review ends by itself or at its   *)
(* hard timeout.  No caller need submit or stop.                           *)
Fairness ==
    /\ WF_vars(SchedulerStep)
    /\ \A id \in JobIds : WF_vars(TaskEnds(id))

FairSpec == Spec /\ Fairness

-----------------------------------------------------------------------------

IsLive(id) == id \in DOMAIN jobs /\ jobs[id].status \in LiveStatus

TypeOK ==
    /\ IsPartialFun(jobs, JobIds, Job)
    /\ queue \in Seq(Queued) /\ Len(queue) <= Capacity
    /\ active \subseteq JobIds
    /\ IsPartialFun(byTarget, Targets, JobIds)
    /\ IsPartialFun(tasks, JobIds, {"busy"} \cup Outcomes)
    /\ Cardinality(DOMAIN tasks) <= MaxWorkers
    /\ terminal \in Seq(JobIds)
    /\ channel \in Seq(Submission) /\ Len(channel) <= Capacity
    /\ inHand \in Submission \cup {NoSubmission}
    /\ permit \in BOOLEAN
    /\ phase \in {"loop", "draining", "stopped"}
    /\ cancelled \in BOOLEAN
    /\ client \in [Clients -> Answers]

(* A target is reviewed by one job at a time: however submissions, retries *)
(* and completions interleave, two jobs that are queued or running never   *)
(* have the same target (by_target, scheduler.rs:432).                     *)
OneLiveJobPerTarget ==
    \A i, j \in DOMAIN jobs :
        IsLive(i) /\ IsLive(j) /\ jobs[i].target = jobs[j].target => i = j

(* While the scheduler runs, the table tells readers the truth: a job is   *)
(* Queued exactly while it waits in the queue, Running exactly while it is *)
(* dispatched and not joined, and eviction took no live job with it.       *)
StatusTellsTheTruth ==
    /\ {id \in DOMAIN jobs : jobs[id].status = "Queued"}
         = {queue[i].id : i \in DOMAIN queue}
    /\ {id \in DOMAIN jobs : jobs[id].status = "Running"} = active

(* A submission whose target is known to by_target is answered with a job  *)
(* that is still live, never with one evicted or finished                  *)
(* (scheduler.rs:432-435 falls back to Closed when the snapshot is gone).  *)
DuplicateSeesLiveJob ==
    phase = "loop" => \A t \in DOMAIN byTarget :
        IsLive(byTarget[t]) /\ jobs[byTarget[t]].target = t

(* The scheduler implements the board of ReviewBoard: one entry for each   *)
(* live target, lost when its review panicked and was joined.              *)
EntryOf(id) ==
    IF jobs[id].status = "Queued" THEN "queued"
    ELSE IF id \in DOMAIN tasks THEN "running" ELSE "lost"

board ==
    [t \in {u \in DOMAIN byTarget : IsLive(byTarget[u])} |-> EntryOf(byTarget[t])]

Board == INSTANCE ReviewBoard WITH
    MaxRunning <- MaxWorkers, MaxQueued <- Capacity, open <- phase = "loop"

ImplementsBoard == Board!BoardSpec

(* Jobs of one class start in the order they were accepted: an entry joins *)
(* behind those of its class, and never overtakes one of them.             *)
Ahead(q, a, b) ==
    \E i, j \in DOMAIN q : i < j /\ q[i].id = a /\ q[j].id = b
                             /\ q[i].retry = q[j].retry

InQueue(q, id) == \E i \in DOMAIN q : q[i].id = id

JoinsBehind(q, p, a, b) ==
    ~ InQueue(q, b) /\ \E i \in DOMAIN q, j \in DOMAIN p :
                          q[i].id = a /\ p[j] = [id |-> b, retry |-> q[i].retry]

QueueIsFair ==
    [][\A a, b \in JobIds :
         Ahead(queue, a, b) \/ JoinsBehind(queue, queue', a, b) =>
           ~ InQueue(queue', a) \/ Ahead(queue', a, b)]_vars

(* Every submission is answered, if only with Closed at shutdown: no       *)
(* caller waits from some point on for ever.                               *)
EveryCallerAnswered ==
    \A c \in Clients : []<>(client[c] # "waiting")

(* The reason: what a caller waits for is with the scheduler, in its       *)
(* channel or in hand and never twice, and a scheduler that has stopped    *)
(* holds nothing, so that nobody is left waiting for it (submit holds the  *)
(* receiver of a oneshot, scheduler.rs:261-270; the drain, 392-394).       *)
InHand(c) == inHand # NoSubmission /\ inHand.client = c

InChannel(c) == \E i \in DOMAIN channel : channel[i].client = c

CallerIsHeard ==
    \A c \in Clients : client[c] = "waiting" =>
        /\ InHand(c) \/ InChannel(c)
        /\ ~ (InHand(c) /\ InChannel(c))
        /\ phase # "stopped"

=============================================================================
