---------------------------- MODULE LaneRecovery ----------------------------
(***************************************************************************)
(* The lanes of a finder (review/delegation.rs).  The coordinator, a       *)
(* language model, delegates each lane to a task of Goose and loads its    *)
(* result, with several tool calls under way at once; Recovery bounds what *)
(* it can waste: two tasks for a lane, one replacement, a deadline that no *)
(* cooperation is needed for, and a cleanup of what still works when the   *)
(* finder ends.  A call is a future inside the reply stream of the         *)
(* coordinator: it is dropped at whatever await it has reached when the    *)
(* stream is replaced or the finder stops.                                 *)
(***************************************************************************)
EXTENDS Integers, FiniteSets

CONSTANTS Lanes,    \* the lanes of the review
          Calls,    \* tool calls of the coordinator
          Tasks,    \* ids Goose may give to a task
          None

ASSUME LaneAssumption == None \notin Lanes \cup Calls \cup Tasks

VARIABLES lanes,      \* Recovery.lanes
          gate,       \* the mutex of each lane, and who holds it
          tasks,      \* Recovery.tasks: the lane a task was made for
          call,       \* the tool calls under way
          goose,      \* Goose's own tasks
          lost,       \* tasks whose start or cancellation was never confirmed
          orphaned,   \* tasks a dropped call had entered in the table, but not in the lane
          finder,     \* the finder works, cleans up, or is over
          allDone,    \* every lane was completed when the finder stopped
          cancelling  \* tasks the cleanup waits for

laneVars == <<lanes, gate, tasks, call, goose, lost, orphaned, finder, allDone, cancelling>>

Statuses == {"pending", "running", "completed", "incomplete"}

Lane == [status : Statuses, task : Tasks \cup {None}, attempt : 0..1,
         result : Tasks \cup {None}]
Task == [state : {"unborn", "running", "done", "failed", "gone"},
         lane : Lanes \cup {None}, attempt : 0..1]

(* Where a call can be: starting a task (its answer outstanding, made,     *)
(* entered in the task table), waiting for the gate, or in the loop of a   *)
(* load.                                                                   *)
Starting == {"delegating", "created", "entered"}
Looping  == {"checking", "loading", "stopping", "dropping"}
Call == [pc : {"idle", "gated"} \cup Starting \cup Looping, lane : Lanes \cup {None},
         task : Tasks \cup {None}, waits : 0..1, cancel : BOOLEAN]

Idle == [pc |-> "idle", lane |-> None, task |-> None, waits |-> 0, cancel |-> FALSE]

LaneTypeOK ==
    /\ lanes \in [Lanes -> Lane]
    /\ gate \in [Lanes -> Calls \cup {None}]
    /\ tasks \in [Tasks -> Lanes \cup {None}]
    /\ call \in [Calls -> Call]
    /\ goose \in [Tasks -> Task]
    /\ lost \subseteq Tasks /\ orphaned \subseteq Tasks
    /\ finder \in {"running", "cleanup", "over"}
    /\ allDone \in BOOLEAN
    /\ cancelling \subseteq Tasks

LaneInit ==
    /\ lanes = [l \in Lanes |-> [status |-> "pending", task |-> None, attempt |-> 0,
                                 result |-> None]]
    /\ gate = [l \in Lanes |-> None]
    /\ tasks = [t \in Tasks |-> None]
    /\ call = [c \in Calls |-> Idle]
    /\ goose = [t \in Tasks |-> [state |-> "unborn", lane |-> None, attempt |-> 0]]
    /\ lost = {} /\ orphaned = {}
    /\ finder = "running"
    /\ allDone = FALSE
    /\ cancelling = {}

-----------------------------------------------------------------------------
(* Delegation and its answers. *)

(* The lane of a delegate call must not have been started; the others get  *)
(* an error and change nothing.                                            *)
Delegate(c, l) ==
    /\ finder = "running" /\ call[c].pc = "idle" /\ lanes[l].status = "pending"
    /\ lanes' = [lanes EXCEPT ![l].status = "running"]
    /\ call' = [call EXCEPT ![c] = [Idle EXCEPT !.pc = "delegating", !.lane = l]]
    /\ UNCHANGED <<gate, tasks, goose, lost, orphaned, finder, allDone, cancelling>>

GooseCreates(c, t) ==
    /\ call[c].pc = "delegating" /\ goose[t].state = "unborn"
    /\ goose' = [goose EXCEPT ![t] = [state |-> "running", lane |-> call[c].lane,
                                      attempt |-> lanes[call[c].lane].attempt]]
    /\ call' = [call EXCEPT ![c].pc = "created", ![c].task = t]
    /\ UNCHANGED <<lanes, gate, tasks, lost, orphaned, finder, allDone, cancelling>>

EnterTask(c) ==
    /\ call[c].pc = "created"
    /\ tasks' = [tasks EXCEPT ![call[c].task] = call[c].lane]
    /\ call' = [call EXCEPT ![c].pc = "entered"]
    /\ UNCHANGED <<lanes, gate, goose, lost, orphaned, finder, allDone, cancelling>>

(* The task becomes that of its lane; a delegate call returns, a load goes *)
(* on with the replacement.                                                *)
SetTask(c) ==
    LET l == call[c].lane IN
    /\ call[c].pc = "entered"
    /\ lanes' = [lanes EXCEPT ![l].task = call[c].task]
    /\ call' = [call EXCEPT ![c] = IF gate[l] = c
                                   THEN [@ EXCEPT !.pc = "checking", !.task = None, !.waits = 0]
                                   ELSE Idle]
    /\ UNCHANGED <<gate, tasks, goose, lost, orphaned, finder, allDone, cancelling>>

(* Mutant: a replacement may be replaced. *)
CanReplaceTwice(l) == lanes[l].status # "incomplete"

CanReplace(l) == lanes[l].attempt = 0 /\ lanes[l].status # "incomplete"

Replace(l) ==
    lanes' = IF CanReplace(l) THEN [lanes EXCEPT ![l].attempt = 1]
                              ELSE [lanes EXCEPT ![l].status = "incomplete"]

Return(c) ==
    /\ call' = [call EXCEPT ![c] = Idle]
    /\ gate' = [l \in Lanes |-> IF gate[l] = c THEN None ELSE gate[l]]

(* replace and, if there is to be one, the replacement. *)
ReplaceOrReturn(c) ==
    LET l == call[c].lane IN
    /\ Replace(l)
    /\ IF CanReplace(l)
       THEN /\ call' = [call EXCEPT ![c].pc = "delegating", ![c].task = None]
            /\ UNCHANGED gate
       ELSE Return(c)

(* The answer is an error or does not come in time.  A task that was made  *)
(* all the same works on, unknown to the host.                             *)
DelegateFails(c) ==
    /\ call[c].pc \in {"delegating", "created"}
    /\ lost' = lost \cup ({call[c].task} \ {None})
    /\ ReplaceOrReturn(c)
    /\ UNCHANGED <<tasks, goose, orphaned, finder, allDone, cancelling>>

-----------------------------------------------------------------------------
(* Loading and cancelling. *)

Load(c, t, cancel) ==
    /\ finder = "running" /\ call[c].pc = "idle" /\ tasks[t] # None
    /\ call' = [call EXCEPT ![c] = [Idle EXCEPT !.pc = "gated", !.lane = tasks[t],
                                                !.cancel = cancel]]
    /\ UNCHANGED <<lanes, gate, tasks, goose, lost, orphaned, finder, allDone, cancelling>>

(* Mutant: a load does not wait for the one before. *)
LockGateLate(c) ==
    /\ call[c].pc = "gated"
    /\ gate' = [gate EXCEPT ![call[c].lane] = c]
    /\ call' = [call EXCEPT ![c].pc = "checking"]
    /\ UNCHANGED <<lanes, tasks, goose, lost, orphaned, finder, allDone, cancelling>>

LockGate(c) ==
    /\ call[c].pc = "gated" /\ gate[call[c].lane] = None
    /\ gate' = [gate EXCEPT ![call[c].lane] = c]
    /\ call' = [call EXCEPT ![c].pc = "checking"]
    /\ UNCHANGED <<lanes, tasks, goose, lost, orphaned, finder, allDone, cancelling>>

(* The top of the loop: a result or a failure is returned as it is, the    *)
(* task of the lane is loaded, or cancelled if the coordinator asked so.   *)
Settled(l) == \/ lanes[l].result # None
              \/ lanes[l].status = "incomplete"
              \/ lanes[l].task = None

ReturnSettled(c) ==
    /\ call[c].pc = "checking" /\ Settled(call[c].lane)
    /\ Return(c)
    /\ UNCHANGED <<lanes, tasks, goose, lost, orphaned, finder, allDone, cancelling>>

Ask(c) ==
    /\ call[c].pc = "checking" /\ ~Settled(call[c].lane)
    /\ call' = [call EXCEPT ![c].task = lanes[call[c].lane].task,
                            ![c].pc = IF call[c].cancel THEN "stopping" ELSE "loading"]
    /\ UNCHANGED <<lanes, gate, tasks, goose, lost, orphaned, finder, allDone, cancelling>>

Record(l, t) == [lanes EXCEPT ![l].status = "completed", ![l].result = t]

LoadCompletes(c) ==
    LET t == call[c].task IN
    /\ call[c].pc = "loading" /\ goose[t].state = "done"
    /\ lanes' = Record(call[c].lane, t)
    /\ goose' = [goose EXCEPT ![t].state = "gone"]
    /\ Return(c)
    /\ UNCHANGED <<tasks, lost, orphaned, finder, allDone, cancelling>>

LoadRunning(c) ==
    /\ call[c].pc = "loading" /\ goose[call[c].task].state = "running"
    /\ Return(c)
    /\ UNCHANGED <<lanes, tasks, goose, lost, orphaned, finder, allDone, cancelling>>

(* The task failed, panicked or was cancelled, or a second answer without  *)
(* a status came: an error, or no answer in time, whose result Goose may   *)
(* have handed out all the same.                                           *)
LoadFails(c) ==
    LET t == call[c].task IN
    /\ call[c].pc = "loading"
    /\ \/ /\ goose[t].state = "failed"
          /\ goose' = [goose EXCEPT ![t].state = "gone"]
          /\ call' = [call EXCEPT ![c].pc = "dropping"]
       \/ /\ \/ UNCHANGED goose
             \/ /\ goose[t].state \in {"done", "failed"}
                /\ goose' = [goose EXCEPT ![t].state = "gone"]
          /\ call' = [call EXCEPT ![c].pc = IF call[c].waits = 0 THEN "checking" ELSE "dropping",
                                  ![c].waits = 1]
    /\ UNCHANGED <<lanes, gate, tasks, lost, orphaned, finder, allDone, cancelling>>

(* Goose cancels a task and forgets a finished one; or it does not answer  *)
(* in seven seconds, and the task may work on.                             *)
CancelTask(t) ==
    \/ /\ goose' = [goose EXCEPT ![t].state = "gone"]
       /\ UNCHANGED lost
    \/ /\ lost' = lost \cup {t}
       /\ UNCHANGED goose

(* A task that ended badly is cancelled, whatever that answers, and        *)
(* replaced.                                                               *)
DropAndReplace(c) ==
    /\ call[c].pc = "dropping"
    /\ CancelTask(call[c].task)
    /\ ReplaceOrReturn(c)
    /\ UNCHANGED <<tasks, orphaned, finder, allDone, cancelling>>

CancelLane(c) ==
    /\ call[c].pc = "stopping"
    /\ CancelTask(call[c].task)
    /\ lanes' = [lanes EXCEPT ![call[c].lane].status = "incomplete"]
    /\ Return(c)
    /\ UNCHANGED <<tasks, orphaned, finder, allDone, cancelling>>

-----------------------------------------------------------------------------
(* The end of the finder. *)

(* Calls dropped at their await: those that had a task made but not set    *)
(* leave it behind, before its start was confirmed, or confirmed and in    *)
(* the task table, where the cleanup does not look (delegation.rs:225).    *)
TasksAt(pc) == {call[c].task : c \in {d \in Calls : call[d].pc = pc}}

DropCalls ==
    /\ call' = [c \in Calls |-> Idle]
    /\ gate' = [l \in Lanes |-> None]
    /\ lost' = lost \cup TasksAt("created")
    /\ orphaned' = orphaned \cup TasksAt("entered")

(* The coordinator's stream is replaced by another. *)
StreamReplaced ==
    /\ finder = "running"
    /\ DropCalls
    /\ UNCHANGED <<lanes, tasks, goose, finder, allDone, cancelling>>

(* Mutant: the cleanup looks at running lanes only. *)
OpenTasksRunning(view) ==
    {view[l].task : l \in {k \in Lanes : view[k].status = "running"}} \ {None}

OpenTasks(view) ==
    {view[l].task : l \in {k \in Lanes : view[k].status # "completed"}} \ {None}

AllCompleted(view) == \A l \in Lanes : view[l].status = "completed"

Stop(view) ==
    /\ finder = "running" /\ finder' = "cleanup"
    /\ allDone' = AllCompleted(view)
    /\ cancelling' = OpenTasks(view)
    /\ DropCalls

(* The finder ends for a reason of its own. *)
FinderStops == Stop(lanes) /\ UNCHANGED <<lanes, tasks, goose>>

(* Four attempt timeouts after its first start a running lane is overdue.  *)
Overdue(l) == lanes[l].status = "running"

(* The recovery poll gives overdue lanes up, and the finder with them.     *)
RecoveryPoll(S) ==
    LET view == [l \in Lanes |-> IF l \in S THEN [lanes[l] EXCEPT !.status = "incomplete"]
                                            ELSE lanes[l]] IN
    /\ \A l \in S : Overdue(l)
    /\ \E l \in Lanes : view[l].status = "incomplete"
    /\ Stop(view)
    /\ lanes' = view
    /\ UNCHANGED <<tasks, goose>>

(* Mutant: a task that does not answer is waited for. *)
CleanupAnswerStuck(t) ==
    /\ finder = "cleanup" /\ t \in cancelling
    /\ goose[t].state # "running" /\ cancelling' = cancelling \ {t}
    /\ goose' = [goose EXCEPT ![t].state = "gone"]
    /\ UNCHANGED <<lanes, gate, tasks, call, lost, orphaned, finder, allDone>>

(* A cancellation answers: a finished task with its result, another by     *)
(* ending.  Or there is no answer.                                         *)
CleanupAnswer(t) ==
    /\ finder = "cleanup" /\ t \in cancelling
    /\ cancelling' = cancelling \ {t}
    /\ \/ /\ goose[t].state = "done" /\ tasks[t] # None
          /\ lanes' = Record(tasks[t], t)
          /\ goose' = [goose EXCEPT ![t].state = "gone"]
          /\ UNCHANGED lost
       \/ /\ goose[t].state # "done"
          /\ goose' = [goose EXCEPT ![t].state = "gone"]
          /\ UNCHANGED <<lanes, lost>>
       \/ /\ lost' = lost \cup {t}
          /\ UNCHANGED <<lanes, goose>>
    /\ UNCHANGED <<gate, tasks, call, orphaned, finder, allDone>>

CleanupEnds ==
    /\ finder = "cleanup" /\ cancelling = {}
    /\ finder' = "over"
    /\ lanes' = [l \in Lanes |-> IF lanes[l].status = "running"
                                 THEN [lanes[l] EXCEPT !.status = "incomplete"]
                                 ELSE lanes[l]]
    /\ UNCHANGED <<gate, tasks, call, goose, lost, orphaned, allDone, cancelling>>

(* A task of Goose ends. *)
TaskEnds(t) ==
    /\ goose[t].state = "running"
    /\ \E s \in {"done", "failed"} : goose' = [goose EXCEPT ![t].state = s]
    /\ UNCHANGED <<lanes, gate, tasks, call, lost, orphaned, finder, allDone, cancelling>>

-----------------------------------------------------------------------------
CallStep(c) ==
    \/ \E l \in Lanes : Delegate(c, l)
    \/ \E t \in Tasks : GooseCreates(c, t)
    \/ EnterTask(c) \/ SetTask(c) \/ DelegateFails(c)
    \/ \E t \in Tasks, cancel \in BOOLEAN : Load(c, t, cancel)
    \/ LockGate(c) \/ ReturnSettled(c) \/ Ask(c)
    \/ LoadCompletes(c) \/ LoadRunning(c) \/ LoadFails(c)
    \/ DropAndReplace(c) \/ CancelLane(c)

CleanupStep ==
    \/ \E t \in Tasks : CleanupAnswer(t)
    \/ CleanupEnds

LaneNext ==
    \/ \E c \in Calls : CallStep(c)
    \/ \E t \in Tasks : TaskEnds(t)
    \/ StreamReplaced
    \/ FinderStops
    \/ \E S \in SUBSET Lanes : RecoveryPoll(S)
    \/ CleanupStep

LaneSpec == LaneInit /\ [][LaneNext]_laneVars

-----------------------------------------------------------------------------
(* A lane is worked on twice at most, and once for each attempt, however   *)
(* delegations, loads, failures and dropped calls interleave               *)
(* (replace, delegation.rs:251).                                           *)
OneTaskPerAttempt ==
    \A t, u \in Tasks :
        (t # u /\ goose[t].lane # None /\ goose[t].lane = goose[u].lane)
            => goose[t].attempt # goose[u].attempt

(* Once the finder is over no lane runs, and a task still at work is one   *)
(* whose start or cancellation Goose never confirmed to the host, or, the  *)
(* one kind the host knows of and leaves working, one that a call entered  *)
(* in the task table and was dropped before it set the lane: the cleanup   *)
(* reads the tasks of lanes (delegation.rs:150-157).                       *)
LeftBehind == lost \cup orphaned

NothingRunsOn ==
    finder = "over" =>
        /\ \A l \in Lanes : lanes[l].status # "running"
        /\ \A t \in Tasks : goose[t].state = "running" => t \in LeftBehind

(* A completed lane stays completed with the same notes: no late failure,  *)
(* deadline, replacement or cancellation takes its result back.            *)
CompletedIsFinal ==
    [][\A l \in Lanes : lanes[l].status = "completed" => lanes'[l] = lanes[l]]_laneVars
=============================================================================
