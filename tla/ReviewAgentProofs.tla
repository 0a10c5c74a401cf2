--------------------------- MODULE ReviewAgentProofs ---------------------------
(***************************************************************************)
(* Proofs about LaneRecovery and ReviewAgent.  A lane has one task for each*)
(* of its two attempts, a completed lane keeps its notes, and when a finder*)
(* is over every task still at work is one Goose never answered for.  A    *)
(* review uses its lanes in no other way; it is clean only if it was       *)
(* finished, and what it leaves out was turned down.  For any lanes, calls,*)
(* tasks, candidates, retries and configuration.                           *)
(***************************************************************************)
EXTENDS ReviewAgent, FiniteSetTheorems, TLAPS

(* The inductive invariant.  A lane has at most one call that starts a     *)
(* task for it, and that call either holds the gate of the lane or is the  *)
(* delegation it began with, before the lane has any task; a call past the *)
(* top of the loop of a load works on the task of its lane.                *)

Starts(c) == call[c].pc \in Starting
Handles(c) == call[c].pc \in {"loading", "stopping", "dropping"}

Births ==
    \A t \in Tasks :
        /\ goose[t].lane = None <=> goose[t].state = "unborn"
        /\ tasks[t] # None => goose[t].lane = tasks[t]

Attempts ==
    \A t \in Tasks :
        goose[t].lane # None => /\ goose[t].attempt <= lanes[goose[t].lane].attempt
                                /\ lanes[goose[t].lane].status # "pending"

Held ==
    \A l \in Lanes :
        /\ lanes[l].status = "completed" <=> lanes[l].result # None
        /\ lanes[l].task # None => tasks[lanes[l].task] = l
        /\ lanes[l].status = "pending" => lanes[l].task = None /\ lanes[l].attempt = 0

WorkingOf(c) ==
    /\ call[c].pc # "idle" => call[c].lane \in Lanes /\ finder = "running"
    /\ Starts(c) \/ Handles(c) => lanes[call[c].lane].status = "running"
    /\ call[c].pc = "delegating" =>
         \A t \in Tasks : ~(/\ goose[t].lane = call[c].lane
                            /\ goose[t].attempt = lanes[call[c].lane].attempt)
    /\ call[c].pc \in {"created", "entered"} =>
         call[c].task \in Tasks /\ goose[call[c].task].lane = call[c].lane
    /\ call[c].pc = "entered" => tasks[call[c].task] = call[c].lane
    /\ Handles(c) => call[c].task \in Tasks /\ lanes[call[c].lane].task = call[c].task

Working == \A c \in Calls : WorkingOf(c)

Gates ==
    /\ \A c \in Calls : call[c].pc \in Looping => gate[call[c].lane] = c
    /\ \A l \in Lanes : gate[l] # None =>
         call[gate[l]].lane = l /\ call[gate[l]].pc \in Starting \cup Looping

Alone ==
    /\ \A c \in Calls : Starts(c) /\ gate[call[c].lane] # c => lanes[call[c].lane].task = None
    /\ \A c, d \in Calls : Starts(c) /\ Starts(d) /\ call[c].lane = call[d].lane => c = d

(* A task at work is left behind, or in the hands of a call that has yet   *)
(* to enter it, or is that of an open lane that is not getting another.    *)
Kept(t) ==
    \E l \in Lanes :
        /\ goose[t].lane = l /\ lanes[l].task = t /\ lanes[l].status # "completed"
        /\ \A c \in Calls : Starts(c) => call[c].lane # l
        /\ finder = "running" \/ t \in cancelling

AccountedFor(t) ==
    goose[t].state = "running" =>
        \/ t \in LeftBehind
        \/ \E c \in Calls : call[c].pc \in {"created", "entered"} /\ call[c].task = t
        \/ Kept(t)

Accounted == \A t \in Tasks : AccountedFor(t)

Ending ==
    /\ finder # "cleanup" => cancelling = {}
    /\ finder = "over" => \A l \in Lanes : lanes[l].status # "running"
    /\ \A t \in cancelling : /\ tasks[t] # None /\ lanes[tasks[t]].task = t
                             /\ lanes[tasks[t]].status # "completed"

IInv == /\ LaneTypeOK /\ Births /\ Attempts /\ Held /\ Working /\ Gates /\ Alone
        /\ Accounted /\ Ending /\ OneTaskPerAttempt

-----------------------------------------------------------------------------
(* What a step does to one call, one lane and one task, field by field.    *)

Moved(c, pc, l, t) ==
    /\ call' \in [Calls -> Call]
    /\ call'[c].pc = pc /\ call'[c].lane = l /\ call'[c].task = t
    /\ \A d \in Calls : d # c => call'[d] = call[d]

Became(l, status, t, attempt, result) ==
    /\ lanes' \in [Lanes -> Lane]
    /\ lanes'[l].status = status /\ lanes'[l].task = t
    /\ lanes'[l].attempt = attempt /\ lanes'[l].result = result
    /\ \A k \in Lanes : k # l => lanes'[k] = lanes[k]

(* The tasks of Goose only ever end. *)
Evolves ==
    /\ goose' \in [Tasks -> Task]
    /\ \A t \in Tasks : /\ goose'[t].lane = goose[t].lane
                        /\ goose'[t].attempt = goose[t].attempt
                        /\ goose'[t].state = "unborn" <=> goose[t].state = "unborn"
                        /\ goose'[t].state = "running" => goose[t].state = "running"

LEMMA CallFields ==
    ASSUME NEW r \in Call
    PROVE  /\ r.pc \in {"idle", "gated"} \cup Starting \cup Looping
           /\ r.lane \in Lanes \cup {None} /\ r.task \in Tasks \cup {None}
           /\ r.waits \in 0..1 /\ r.cancel \in BOOLEAN
BY DEF Call

LEMMA CallMoves ==
    ASSUME LaneTypeOK, NEW c \in Calls, NEW r \in Call, call' = [call EXCEPT ![c] = r]
    PROVE  Moved(c, r.pc, r.lane, r.task)
BY DEF Moved, LaneTypeOK, LeftBehind

(* A call that goes on to another point, with another task.                *)
LEMMA CallGoes ==
    ASSUME LaneTypeOK, NEW c \in Calls,
           NEW pc \in {"idle", "gated"} \cup Starting \cup Looping,
           NEW t \in Tasks \cup {None}, NEW w \in 0..1,
           call' = [call EXCEPT ![c] = [@ EXCEPT !.pc = pc, !.task = t, !.waits = w]]
    PROVE  Moved(c, pc, call[c].lane, t)
<1> DEFINE r == [call[c] EXCEPT !.pc = pc, !.task = t, !.waits = w]
<1>1. call[c] \in Call
  BY DEF LaneTypeOK, LeftBehind
<1>2. r \in Call /\ r.pc = pc /\ r.lane = call[c].lane /\ r.task = t
  BY <1>1 DEF Call
<1>3. call' = [call EXCEPT ![c] = r]
  BY <1>1 DEF LaneTypeOK, LeftBehind
<1> HIDE DEF r
<1>4. QED
  BY <1>2, <1>3, CallMoves

LEMMA IdleCall == Idle \in Call /\ Idle.pc = "idle" /\ Idle.lane = None /\ Idle.task = None
BY DEF Idle, Call

LEMMA LaneFields ==
    ASSUME LaneTypeOK, NEW l \in Lanes
    PROVE  /\ lanes[l].status \in Statuses /\ lanes[l].task \in Tasks \cup {None}
           /\ lanes[l].attempt \in 0..1 /\ lanes[l].result \in Tasks \cup {None}
BY DEF LaneTypeOK, LeftBehind, Lane

LEMMA LaneBecomes ==
    ASSUME LaneTypeOK, NEW l \in Lanes, NEW s \in Statuses, NEW t \in Tasks \cup {None},
           NEW a \in 0..1, NEW x \in Tasks \cup {None},
           lanes' = [lanes EXCEPT ![l] = [status |-> s, task |-> t, attempt |-> a, result |-> x]]
    PROVE  Became(l, s, t, a, x)
<1> DEFINE r == [status |-> s, task |-> t, attempt |-> a, result |-> x]
<1>1. r \in Lane /\ r.status = s /\ r.task = t /\ r.attempt = a /\ r.result = x
  BY DEF Lane
<1>2. lanes \in [Lanes -> Lane] /\ lanes' = [lanes EXCEPT ![l] = r]
  BY DEF LaneTypeOK, LeftBehind
<1> HIDE DEF r
<1>3. QED
  BY <1>1, <1>2 DEF Became

LEMMA LaneIsRecord ==
    ASSUME LaneTypeOK, NEW l \in Lanes
    PROVE  lanes[l] = [status |-> lanes[l].status, task |-> lanes[l].task,
                       attempt |-> lanes[l].attempt, result |-> lanes[l].result]
<1>1. lanes[l] \in Lane
  BY DEF LaneTypeOK, LeftBehind
<1>2. QED
  BY <1>1 DEF Lane

LEMMA StatusSet ==
    ASSUME LaneTypeOK, NEW l \in Lanes, NEW s \in Statuses,
           lanes' = [lanes EXCEPT ![l].status = s]
    PROVE  Became(l, s, lanes[l].task, lanes[l].attempt, lanes[l].result)
<1> DEFINE r == [status |-> s, task |-> lanes[l].task, attempt |-> lanes[l].attempt,
                 result |-> lanes[l].result]
<1>1. lanes \in [Lanes -> Lane] /\ lanes[l] \in Lane
  BY DEF LaneTypeOK, LeftBehind
<1>2. [lanes[l] EXCEPT !.status = s] = r
  BY <1>1 DEF Lane
<1>3. lanes' = [lanes EXCEPT ![l] = [lanes[l] EXCEPT !.status = s]]
  BY <1>1
<1>4. lanes' = [lanes EXCEPT ![l] = r]
  BY <1>2, <1>3
<1>5. QED
  BY <1>4, LaneFields, LaneBecomes

LEMMA LaneRecorded ==
    ASSUME LaneTypeOK, NEW l \in Lanes, NEW t \in Tasks,
           lanes' = [lanes EXCEPT ![l].status = "completed", ![l].result = t]
    PROVE  Became(l, "completed", lanes[l].task, lanes[l].attempt, t)
<1> DEFINE r == [lanes[l] EXCEPT !.status = "completed", !.result = t]
<1>1. lanes \in [Lanes -> Lane] /\ lanes[l] \in Lane /\ "completed" \in Statuses
  BY DEF LaneTypeOK, LeftBehind, Statuses
<1>2. /\ r \in Lane /\ r.status = "completed" /\ r.task = lanes[l].task
      /\ r.attempt = lanes[l].attempt /\ r.result = t
  BY <1>1 DEF Lane
<1>3. lanes' = [lanes EXCEPT ![l] = r]
  BY <1>1
<1> HIDE DEF r
<1>4. QED
  BY <1>1, <1>2, <1>3 DEF Became

LEMMA TaskEnded ==
    ASSUME LaneTypeOK, Births, NEW t \in Tasks, goose[t].lane # None,
           NEW s \in {"done", "failed", "gone"}, goose' = [goose EXCEPT ![t].state = s]
    PROVE  /\ Evolves /\ goose'[t].state = s
           /\ \A u \in Tasks : u # t => goose'[u] = goose[u]
<1> DEFINE r == [goose[t] EXCEPT !.state = s]
<1>1. /\ goose \in [Tasks -> Task] /\ goose[t] \in Task
      /\ s \in {"unborn", "running", "done", "failed", "gone"} /\ s # "unborn" /\ s # "running"
  BY DEF LaneTypeOK, LeftBehind
<1>2. /\ r \in Task /\ r.state = s
      /\ r.lane = goose[t].lane /\ r.attempt = goose[t].attempt
  BY <1>1 DEF Task
<1>3. goose' = [goose EXCEPT ![t] = r]
  BY <1>1 DEF Task
<1>4. goose[t].state # "unborn"
  BY DEF Births
<1> HIDE DEF r
<1>5. QED
  BY <1>1, <1>2, <1>3, <1>4 DEF Evolves

LEMMA EvolvesStays == LaneTypeOK /\ goose' = goose => Evolves
BY DEF LaneTypeOK, LeftBehind, Evolves

(* What stays of the invariant when the tasks of Goose only end.           *)
LEMMA EvolvesKeeps ==
    ASSUME IInv, Evolves, tasks' = tasks
    PROVE  Births' /\ OneTaskPerAttempt'
BY DEF IInv, Births, OneTaskPerAttempt, Evolves

LEMMA AttemptsKept ==
    ASSUME IInv, Evolves,
           \A l \in Lanes : /\ lanes'[l].attempt \in 0..1 /\ lanes[l].attempt \in 0..1
                            /\ lanes'[l].attempt >= lanes[l].attempt
                            /\ lanes'[l].status = "pending" => lanes[l].status = "pending"
    PROVE  Attempts'
<1> SUFFICES ASSUME NEW t \in Tasks, goose'[t].lane # None
             PROVE  /\ goose'[t].attempt <= lanes'[goose'[t].lane].attempt
                    /\ lanes'[goose'[t].lane].status # "pending"
  BY DEF Attempts
<1>1. goose'[t].lane = goose[t].lane /\ goose'[t].attempt = goose[t].attempt
  BY DEF Evolves
<1>2. goose[t].lane \in Lanes /\ goose[t].attempt \in 0..1
  BY <1>1 DEF IInv, LaneTypeOK, LeftBehind, Task
<1>3. /\ goose[t].attempt <= lanes[goose[t].lane].attempt
      /\ lanes[goose[t].lane].status # "pending"
  BY <1>1 DEF IInv, Attempts
<1>4. QED
  BY <1>1, <1>2, <1>3

(* Two calls at work are at work for different lanes: this is what the     *)
(* gate and the pending status are for (delegation.rs).                    *)
LEMMA Exclusive ==
    ASSUME IInv, NEW c \in Calls, NEW d \in Calls, c # d,
           Starts(c) \/ Handles(c), Starts(d) \/ Handles(d)
    PROVE  call[c].lane # call[d].lane
<1> SUFFICES ASSUME call[c].lane = call[d].lane PROVE FALSE
  OBVIOUS
<1>1. /\ \A e \in Calls : Starts(e) /\ gate[call[e].lane] # e => lanes[call[e].lane].task = None
      /\ \A e, f \in Calls : Starts(e) /\ Starts(f) /\ call[e].lane = call[f].lane => e = f
  BY DEF IInv, Alone
<1>2. \A e \in Calls : Handles(e) => /\ gate[call[e].lane] = e
                                     /\ lanes[call[e].lane].task # None
  BY LaneAssumption DEF IInv, Working, WorkingOf, Gates, Handles, Looping
<1>3. QED
  BY <1>1, <1>2

(* A call at work has a running lane, of a finder that runs.               *)
LEMMA AtWork ==
    ASSUME IInv, NEW c \in Calls, call[c].pc # "idle"
    PROVE  /\ call[c].lane \in Lanes /\ finder = "running" /\ cancelling = {}
           /\ Starts(c) \/ Handles(c) => /\ lanes[call[c].lane].status = "running"
                                         /\ lanes[call[c].lane].result = None
BY DEF IInv, Working, WorkingOf, Ending, Held

(* A step of one call at work, or one that leaves the lanes alone, is      *)
(* nothing to the others.                                                  *)
LEMMA OthersWork ==
    ASSUME IInv, NEW c \in Calls, \A d \in Calls : d # c => call'[d] = call[d],
           lanes' = lanes \/ Starts(c) \/ Handles(c),
           \A k \in Lanes : k # call[c].lane => lanes'[k] = lanes[k],
           Evolves, tasks' = tasks, finder' = finder
    PROVE  \A d \in Calls : d # c => WorkingOf(d)'
<1> SUFFICES ASSUME NEW d \in Calls, d # c PROVE WorkingOf(d)'
  OBVIOUS
<1>1. call'[d] = call[d] /\ WorkingOf(d)
  BY DEF IInv, Working
<1>2. Starts(d) \/ Handles(d) => lanes'[call[d].lane] = lanes[call[d].lane]
  BY <1>1, Exclusive DEF WorkingOf, Starts, Handles, Starting
<1>3. \A t \in Tasks : goose'[t].lane = goose[t].lane /\ goose'[t].attempt = goose[t].attempt
  BY DEF Evolves
<1>4. call[d].pc \in {"delegating", "created", "entered"} => Starts(d)
  BY DEF Starts, Starting
<1>5. Starts(d)' = Starts(d) /\ Handles(d)' = Handles(d)
  BY <1>1 DEF Starts, Handles
<1>6. QED
  BY <1>1, <1>2, <1>3, <1>4, <1>5 DEF WorkingOf

(* Who works for which lane, when no call begins to.                       *)
LEMMA AccountsStay ==
    ASSUME IInv, NEW c \in Calls, \A d \in Calls : d # c => call'[d] = call[d],
           Evolves, LeftBehind \subseteq LeftBehind', finder' = finder, cancelling' = cancelling,
           call[c].pc \in {"created", "entered"} =>
             \/ call[c].task \in LeftBehind'
             \/ call'[c].pc \in {"created", "entered"} /\ call'[c].task = call[c].task,
           Starts(c)' => Starts(c) /\ call'[c].lane = call[c].lane,
           \A k \in Lanes : /\ lanes'[k].task = lanes[k].task
                            /\ lanes[k].status # "completed" => lanes'[k].status # "completed"
    PROVE  Accounted'
<1> SUFFICES ASSUME NEW t \in Tasks, goose'[t].state = "running", t \notin LeftBehind'
             PROVE  \/ \E d \in Calls : call'[d].pc \in {"created", "entered"} /\ call'[d].task = t
                    \/ Kept(t)'
  BY DEF Accounted, AccountedFor
<1>1. /\ goose[t].state = "running" /\ t \notin LeftBehind /\ goose'[t].lane = goose[t].lane
      /\ AccountedFor(t)
  BY DEF Evolves, IInv, Accounted
<1>2. ASSUME NEW d \in Calls, call[d].pc \in {"created", "entered"}, call[d].task = t
      PROVE  \E e \in Calls : call'[e].pc \in {"created", "entered"} /\ call'[e].task = t
  BY <1>2
<1>3. ASSUME Kept(t) PROVE Kept(t)'
  <2>1. PICK l \in Lanes :
          /\ goose[t].lane = l /\ lanes[l].task = t /\ lanes[l].status # "completed"
          /\ \A d \in Calls : Starts(d) => call[d].lane # l
          /\ finder = "running" \/ t \in cancelling
    BY <1>3 DEF Kept
  <2>2. \A d \in Calls : Starts(d)' => call'[d].lane # l
    BY <2>1 DEF Starts
  <2> QED
    BY <1>1, <2>1, <2>2 DEF Kept
<1>4. QED
  BY <1>1, <1>2, <1>3 DEF AccountedFor

Freed(c) == /\ gate' \in [Lanes -> Calls \cup {None}]
            /\ \A l \in Lanes : gate'[l] = IF gate[l] = c THEN None ELSE gate[l]

LEMMA ReturnFrees ==
    ASSUME LaneTypeOK, NEW c \in Calls, Return(c)
    PROVE  Moved(c, "idle", None, None) /\ Freed(c)
<1>1. Moved(c, "idle", None, None)
  BY IdleCall, CallMoves DEF Return
<1>2. Freed(c)
  BY DEF Return, Freed, LaneTypeOK, LeftBehind
<1>3. QED
  BY <1>1, <1>2

(* A call that was in the loop, or was starting a task, returns.           *)
LEMMA Returned ==
    ASSUME IInv, NEW c \in Calls, Moved(c, "idle", None, None), Freed(c),
           \A d \in Calls : d # c => WorkingOf(d)',
           \A k \in Lanes : lanes'[k].task = lanes[k].task
    PROVE  Working' /\ Gates' /\ Alone'
<1>1. ~Starts(c)' /\ ~Handles(c)' /\ call'[c].pc \notin Looping /\ call'[c].pc = "idle"
  BY DEF Moved, Starts, Handles, Starting, Looping
<1>2. Working'
  <2>1. WorkingOf(c)'
    BY <1>1 DEF WorkingOf
  <2> QED
    BY <2>1 DEF Working
<1>3. \A d \in Calls : d # c => call'[d] = call[d]
  BY DEF Moved
<1>4. Gates'
  <2>1. ASSUME NEW d \in Calls, call'[d].pc \in Looping PROVE gate'[call'[d].lane] = d
    <3>1. d # c /\ call[d].pc \in Looping /\ call[d].lane = call'[d].lane
      BY <1>1, <1>3, <2>1
    <3>2. gate[call[d].lane] = d /\ call[d].lane \in Lanes
      BY <3>1 DEF IInv, Gates, Working, WorkingOf, Looping
    <3> QED
      BY <3>1, <3>2 DEF Freed
  <2>2. ASSUME NEW l \in Lanes, gate'[l] # None
        PROVE  call'[gate'[l]].lane = l /\ call'[gate'[l]].pc \in Starting \cup Looping
    <3>1. gate'[l] = gate[l] /\ gate[l] # c /\ gate[l] \in Calls
      BY <2>2 DEF Freed, IInv, LaneTypeOK, LeftBehind
    <3> QED
      BY <1>3, <2>2, <3>1 DEF IInv, Gates
  <2> QED
    BY <2>1, <2>2 DEF Gates
<1>5. Alone'
  <2>1. \A d \in Calls : Starts(d)' => Starts(d) /\ d # c /\ call'[d] = call[d]
                                       /\ call[d].lane \in Lanes
    BY <1>1, <1>3 DEF Starts, IInv, Working, WorkingOf, Starting
  <2>2. ASSUME NEW d \in Calls, Starts(d)', gate'[call'[d].lane] # d
        PROVE  lanes'[call'[d].lane].task = None
    <3>1. gate[call[d].lane] # d
      BY <2>1, <2>2 DEF Freed
    <3> QED
      BY <2>1, <2>2, <3>1 DEF IInv, Alone
  <2>3. \A d, e \in Calls : Starts(d)' /\ Starts(e)' /\ call'[d].lane = call'[e].lane => d = e
    BY <2>1 DEF IInv, Alone
  <2> QED
    BY <2>2, <2>3 DEF Alone
<1>6. QED
  BY <1>2, <1>4, <1>5

LEMMA Runs ==
    ASSUME finder' = "running", cancelling' = {}
    PROVE  Ending'
BY DEF Ending

(* A call that neither starts a task nor ends starting one goes on.        *)
LEMMA CallTurns ==
    ASSUME IInv, NEW c \in Calls, NEW pc \in {"gated"} \cup Looping, NEW l, NEW t,
           Moved(c, pc, l, t), UNCHANGED <<lanes, gate, tasks, finder, cancelling, allDone>>,
           Evolves, LeftBehind \subseteq LeftBehind', LeftBehind' \subseteq Tasks,
           WorkingOf(c)', ~Starts(c),
           pc \in Looping <=> call[c].pc \in Looping, pc \in Looping => l = call[c].lane
    PROVE  IInv'
<1>1. ~Starts(c)' /\ pc \notin {"created", "entered"} /\ pc \notin Starting
  BY DEF Moved, Starts, Starting, Looping
<1>2. call[c].pc \notin {"created", "entered"}
  BY DEF Starts, Starting
<1>3. Working'
  BY OthersWork DEF Moved, Working
<1>4. Accounted'
  BY <1>1, <1>2, AccountsStay DEF Moved
<1>5. Births' /\ OneTaskPerAttempt' /\ Attempts'
  <2>1. \A k \in Lanes : lanes[k].attempt \in 0..1
    BY LaneFields DEF IInv
  <2> QED
    BY <2>1, EvolvesKeeps, AttemptsKept
<1>6. Held' /\ Ending'
  BY DEF IInv, Held, Ending
<1>7. Gates'
  <2>1. ASSUME NEW d \in Calls, call'[d].pc \in Looping PROVE gate'[call'[d].lane] = d
    <3>1. call[d].pc \in Looping /\ call'[d].lane = call[d].lane
      BY <2>1 DEF Moved
    <3> QED
      BY <3>1 DEF IInv, Gates
  <2>2. ASSUME NEW k \in Lanes, gate[k] # None
        PROVE  call'[gate[k]].lane = k /\ call'[gate[k]].pc \in Starting \cup Looping
    <3>1. /\ call[gate[k]].lane = k /\ call[gate[k]].pc \in Starting \cup Looping
          /\ gate[k] \in Calls
      BY <2>2 DEF IInv, Gates, LaneTypeOK, LeftBehind
    <3>2. gate[k] = c => pc \in Looping /\ l = k
      BY <3>1 DEF Starts
    <3> QED
      BY <3>1, <3>2 DEF Moved
  <2> QED
    BY <2>1, <2>2 DEF Gates
<1>8. Alone'
  BY <1>1 DEF IInv, Alone, Moved, Starts
<1>9. LaneTypeOK'
  BY DEF IInv, LaneTypeOK, LeftBehind, Moved, Evolves
<1>10. QED
  BY <1>3, <1>4, <1>5, <1>6, <1>7, <1>8, <1>9 DEF IInv

LEMMA LoadStep ==
    ASSUME IInv, NEW c \in Calls, NEW t \in Tasks, NEW x \in BOOLEAN, Load(c, t, x)
    PROVE  IInv'
<1>1. /\ UNCHANGED <<lanes, gate, tasks, goose, lost, orphaned, finder, allDone, cancelling>>
      /\ finder = "running" /\ call[c].pc = "idle" /\ tasks[t] \in Lanes
      /\ call' = [call EXCEPT ![c] = [Idle EXCEPT !.pc = "gated", !.lane = tasks[t],
                                                  !.cancel = x]]
  BY DEF Load, IInv, LaneTypeOK, LeftBehind
<1> DEFINE r == [Idle EXCEPT !.pc = "gated", !.lane = tasks[t], !.cancel = x]
<1>2. r \in Call /\ r.pc = "gated" /\ r.lane = tasks[t] /\ r.task = None
  <2>1. Idle \in Call /\ Idle.task = None
    BY IdleCall
  <2> HIDE DEF Idle
  <2>2. r \in Call
    BY <1>1, <2>1 DEF Call
  <2>3. r.pc = "gated" /\ r.lane = tasks[t] /\ r.task = None
    BY <1>1, <2>1 DEF Call
  <2> QED
    BY <2>2, <2>3
<1> HIDE DEF r
<1>3. Moved(c, "gated", tasks[t], None)
  BY <1>1, <1>2, CallMoves DEF IInv, r
<1>4. WorkingOf(c)' /\ ~Starts(c)
  BY <1>1, <1>3 DEF Moved, WorkingOf, Starts, Handles, Starting
<1>5. "gated" \notin Looping /\ call[c].pc \notin Looping
  BY <1>1 DEF Looping
<1>6. Evolves /\ LeftBehind \subseteq LeftBehind' /\ LeftBehind' \subseteq Tasks
  BY <1>1, EvolvesStays DEF IInv, LaneTypeOK, LeftBehind
<1>7. QED
  BY <1>1, <1>3, <1>4, <1>5, <1>6, CallTurns

(* A call asks Goose for the task of its lane.                             *)
LEMMA AskStep ==
    ASSUME IInv, NEW c \in Calls, Ask(c)
    PROVE  IInv'
<1> DEFINE l == call[c].lane
           pc == IF call[c].cancel THEN "stopping" ELSE "loading"
<1>1. /\ UNCHANGED <<lanes, gate, tasks, goose, lost, orphaned, finder, allDone, cancelling>>
      /\ call[c].pc = "checking" /\ ~Settled(l)
      /\ call' = [call EXCEPT ![c].task = lanes[l].task, ![c].pc = pc]
  BY DEF Ask
<1>2. call[c] \in Call /\ l \in Lanes /\ finder = "running"
  BY <1>1, AtWork DEF IInv, LaneTypeOK, LeftBehind
<1>3. /\ lanes[l].task \in Tasks /\ lanes[l].status = "running"
  <2>1. lanes[l].task # None /\ lanes[l].result = None /\ lanes[l].status # "incomplete"
    BY <1>1 DEF Settled
  <2>2. lanes[l].status \in Statuses /\ lanes[l].task \in Tasks \cup {None}
    BY <1>2, LaneFields DEF IInv
  <2>3. lanes[l].status # "completed" /\ lanes[l].status # "pending"
    BY <1>2, <2>1 DEF IInv, Held
  <2> QED
    BY <2>1, <2>2, <2>3 DEF Statuses
<1>5. pc \in {"stopping", "loading"}
  OBVIOUS
<1>4. call' = [call EXCEPT ![c].task = lanes[l].task, ![c].pc = pc]
  BY <1>1
<1> HIDE DEF pc
<1>6. Moved(c, pc, l, lanes[l].task)
  <2>1. call[c].waits \in 0..1 /\ pc \in {"idle", "gated"} \cup Starting \cup Looping
    BY <1>2, <1>5, CallFields DEF Looping
  <2>2. call' = [call EXCEPT ![c] = [@ EXCEPT !.pc = pc, !.task = lanes[l].task,
                                             !.waits = call[c].waits]]
    <3>1. call \in [Calls -> Call]
      BY DEF IInv, LaneTypeOK, LeftBehind
    <3>2. [call[c] EXCEPT !.pc = pc, !.task = lanes[l].task, !.waits = call[c].waits]
            = [call[c] EXCEPT !.task = lanes[l].task, !.pc = pc]
      BY <1>2 DEF Call
    <3>3. call' = [call EXCEPT ![c] = [call[c] EXCEPT !.task = lanes[l].task, !.pc = pc]]
      BY <1>4, <3>1
    <3> QED
      BY <3>2, <3>3
  <2> QED
    BY <1>3, <2>1, <2>2, CallGoes DEF IInv
<1>7. WorkingOf(c)' /\ ~Starts(c)
  BY <1>1, <1>2, <1>3, <1>5, <1>6 DEF Moved, WorkingOf, Starts, Handles, Starting
<1>8. pc \in Looping /\ call[c].pc \in Looping
  BY <1>1, <1>5 DEF Looping
<1>9. Evolves /\ LeftBehind \subseteq LeftBehind' /\ LeftBehind' \subseteq Tasks
  BY <1>1, EvolvesStays DEF IInv, LaneTypeOK, LeftBehind
<1>10. QED
  BY <1>1, <1>6, <1>7, <1>8, <1>9, CallTurns

LEMMA LoadFailsStep ==
    ASSUME IInv, NEW c \in Calls, LoadFails(c)
    PROVE  IInv'
<1> DEFINE l == call[c].lane
           t == call[c].task
<1>1. /\ UNCHANGED <<lanes, gate, tasks, lost, orphaned, finder, allDone, cancelling>>
      /\ call[c].pc = "loading"
      /\ \/ goose' = goose
         \/ goose[t].state \in {"done", "failed"} /\ goose' = [goose EXCEPT ![t].state = "gone"]
  BY DEF LoadFails
<1>2. /\ call[c] \in Call /\ l \in Lanes /\ t \in Tasks /\ finder = "running"
      /\ lanes[l].task = t /\ lanes[l].status = "running" /\ Handles(c)
  BY <1>1 DEF IInv, LaneTypeOK, LeftBehind, Working, WorkingOf, Handles
<1>3. Evolves
  <2>1. goose[t].state \in {"done", "failed"} => goose[t].lane # None
    BY <1>2 DEF IInv, Births
  <2> QED
    BY <1>1, <1>2, <2>1, TaskEnded, EvolvesStays DEF IInv
<1>4. PICK pc \in {"dropping", "checking"} : Moved(c, pc, l, t)
  <2>1. /\ call[c].waits \in 0..1 /\ call \in [Calls -> Call]
        /\ \A p, w : [call[c] EXCEPT !.pc = p, !.task = t, !.waits = w]
                       = [call[c] EXCEPT !.pc = p, !.waits = w]
        /\ \A p : [call[c] EXCEPT !.pc = p, !.task = t, !.waits = call[c].waits]
                    = [call[c] EXCEPT !.pc = p]
    BY <1>2 DEF IInv, LaneTypeOK, LeftBehind, Call
  <2>2. CASE call' = [call EXCEPT ![c].pc = "dropping"]
    <3>1. call' = [call EXCEPT ![c] = [call[c] EXCEPT !.pc = "dropping"]]
      BY <2>1, <2>2
    <3>2. call' = [call EXCEPT ![c] = [call[c] EXCEPT !.pc = "dropping", !.task = t,
                                                      !.waits = call[c].waits]]
      BY <2>1, <3>1
    <3>3. "dropping" \in {"idle", "gated"} \cup Starting \cup Looping
      BY DEF Looping
    <3>4. Moved(c, "dropping", l, t)
      BY <1>2, <2>1, <3>2, <3>3, CallGoes DEF IInv
    <3> QED
      BY <3>4
  <2>3. CASE call' = [call EXCEPT ![c].pc = IF call[c].waits = 0 THEN "checking" ELSE "dropping",
                                  ![c].waits = 1]
    <3> DEFINE p == IF call[c].waits = 0 THEN "checking" ELSE "dropping"
    <3>1. p \in {"dropping", "checking"}
      OBVIOUS
    <3>2. call' = [call EXCEPT ![c].pc = p, ![c].waits = 1]
      BY <2>3
    <3> HIDE DEF p
    <3>3. call' = [call EXCEPT ![c] = [call[c] EXCEPT !.pc = p, !.waits = 1]]
      BY <2>1, <3>2
    <3>4. call' = [call EXCEPT ![c] = [call[c] EXCEPT !.pc = p, !.task = t, !.waits = 1]]
      BY <2>1, <3>3
    <3>5. p \in {"idle", "gated"} \cup Starting \cup Looping /\ 1 \in 0..1
      BY <3>1 DEF Looping
    <3>6. Moved(c, p, l, t)
      BY <1>2, <3>4, <3>5, CallGoes DEF IInv
    <3> QED
      BY <3>1, <3>6
  <2> QED
    BY <2>2, <2>3 DEF LoadFails
<1>5. Moved(c, pc, l, t)
  BY <1>4
<1>6. WorkingOf(c)' /\ ~Starts(c)
  BY <1>1, <1>2, <1>4, <1>5 DEF Moved, WorkingOf, Starts, Handles, Starting
<1>7. pc \in Looping /\ call[c].pc \in Looping
  BY <1>1, <1>4 DEF Looping
<1>8. LeftBehind \subseteq LeftBehind' /\ LeftBehind' \subseteq Tasks
  BY <1>1 DEF IInv, LaneTypeOK, LeftBehind
<1>9. QED
  BY <1>1, <1>3, <1>5, <1>6, <1>7, <1>8, CallTurns

(* Calls that leave the loop. *)

LEMMA CallReturns ==
    ASSUME IInv, NEW c \in Calls, call[c].pc \in Looping, Moved(c, "idle", None, None), Freed(c),
           UNCHANGED <<tasks, finder, cancelling, allDone>>,
           Evolves, LeftBehind \subseteq LeftBehind', LeftBehind' \subseteq Tasks,
           lanes' \in [Lanes -> Lane],
           lanes' = lanes \/ Handles(c),
           \A k \in Lanes : k # call[c].lane => lanes'[k] = lanes[k],
           \A k \in Lanes : /\ lanes'[k].task = lanes[k].task
                            /\ lanes'[k].attempt = lanes[k].attempt
                            /\ lanes'[k].status = "pending" => lanes[k].status = "pending"
                            /\ lanes'[k].status = "completed" <=> lanes'[k].result # None
                            /\ lanes[k].status # "completed" /\ lanes'[k].status = "completed"
                                 => lanes[k].task # None /\ goose'[lanes[k].task].state = "gone"
    PROVE  IInv'
<1>1. ~Starts(c) /\ ~Starts(c)' /\ call[c].pc \notin {"created", "entered"}
  BY DEF Moved, Starts, Starting, Looping
<1>2. \A d \in Calls : d # c => call'[d] = call[d]
  BY DEF Moved
<1>3. \A d \in Calls : d # c => WorkingOf(d)'
  BY <1>2, OthersWork
<1>4. Working' /\ Gates' /\ Alone'
  BY <1>3, Returned
<1>5. finder = "running" /\ cancelling = {}
  BY AtWork DEF Looping
<1>6. Ending'
  BY <1>5, Runs
<1>7. Births' /\ OneTaskPerAttempt' /\ Attempts'
  <2>1. \A k \in Lanes : lanes[k].attempt \in 0..1
    BY LaneFields DEF IInv
  <2> QED
    BY <2>1, EvolvesKeeps, AttemptsKept
<1>8. Held'
  BY DEF IInv, Held
<1>9. Accounted'
  <2> SUFFICES ASSUME NEW t \in Tasks, goose'[t].state = "running", t \notin LeftBehind'
               PROVE  \/ \E d \in Calls : call'[d].pc \in {"created", "entered"} /\ call'[d].task = t
                      \/ Kept(t)'
    BY DEF Accounted, AccountedFor
  <2>1. /\ goose[t].state = "running" /\ t \notin LeftBehind /\ goose'[t].lane = goose[t].lane
        /\ AccountedFor(t)
    BY DEF Evolves, IInv, Accounted
  <2>2. ASSUME NEW d \in Calls, call[d].pc \in {"created", "entered"}, call[d].task = t
        PROVE  \E e \in Calls : call'[e].pc \in {"created", "entered"} /\ call'[e].task = t
    BY <1>1, <1>2, <2>2
  <2>3. ASSUME Kept(t) PROVE Kept(t)'
    <3>1. PICK l \in Lanes :
            /\ goose[t].lane = l /\ lanes[l].task = t /\ lanes[l].status # "completed"
            /\ \A d \in Calls : Starts(d) => call[d].lane # l
      BY <2>3 DEF Kept
    <3>2. lanes'[l].task = t /\ lanes'[l].status # "completed"
      BY <3>1
    <3>3. \A d \in Calls : Starts(d)' => call'[d].lane # l
      BY <1>1, <1>2, <3>1 DEF Starts
    <3> QED
      BY <1>5, <2>1, <3>1, <3>2, <3>3 DEF Kept
  <2> QED
    BY <2>1, <2>2, <2>3 DEF AccountedFor
<1>10. LaneTypeOK'
  BY DEF IInv, LaneTypeOK, LeftBehind, Moved, Evolves, Freed
<1>11. QED
  BY <1>4, <1>6, <1>7, <1>8, <1>9, <1>10 DEF IInv

LEMMA PlainReturn ==
    ASSUME IInv, NEW c \in Calls, call[c].pc \in Looping, Return(c),
           UNCHANGED <<lanes, tasks, goose, lost, orphaned, finder, allDone, cancelling>>
    PROVE  IInv'
<1>1. Moved(c, "idle", None, None) /\ Freed(c)
  BY ReturnFrees DEF IInv
<1>2. Evolves /\ LeftBehind' \subseteq Tasks /\ lanes' \in [Lanes -> Lane]
  BY EvolvesStays DEF IInv, LaneTypeOK, LeftBehind
<1>3. \A k \in Lanes : lanes[k].status = "completed" <=> lanes[k].result # None
  BY DEF IInv, Held
<1>4. LeftBehind \subseteq LeftBehind'
  BY DEF LeftBehind
<1>5. QED
  BY <1>1, <1>2, <1>3, <1>4, CallReturns

LEMMA ReturnSettledStep ==
    ASSUME IInv, NEW c \in Calls, ReturnSettled(c)
    PROVE  IInv'
BY PlainReturn DEF ReturnSettled, Looping

LEMMA LoadRunningStep ==
    ASSUME IInv, NEW c \in Calls, LoadRunning(c)
    PROVE  IInv'
BY PlainReturn DEF LoadRunning, Looping

(* What a call that handles the task of its lane knows. *)
LEMMA Handling ==
    ASSUME IInv, NEW c \in Calls, Handles(c)
    PROVE  /\ call[c].lane \in Lanes /\ call[c].task \in Tasks /\ call[c].pc \in Looping
           /\ lanes[call[c].lane].task = call[c].task
           /\ lanes[call[c].lane].status = "running" /\ lanes[call[c].lane].result = None
           /\ goose[call[c].task].lane = call[c].lane /\ gate[call[c].lane] = c
           /\ finder = "running" /\ cancelling = {} /\ ~Starts(c)
<1>1. call[c].pc \in Looping /\ call[c].pc # "idle" /\ ~Starts(c)
  BY DEF Handles, Looping, Starts, Starting
<1>2. /\ call[c].lane \in Lanes /\ finder = "running" /\ call[c].task \in Tasks
      /\ lanes[call[c].lane].task = call[c].task
      /\ lanes[call[c].lane].status = "running"
  BY <1>1 DEF IInv, Working, WorkingOf
<1>3. lanes[call[c].lane].result = None /\ cancelling = {}
  BY <1>1, AtWork
<1>4. tasks[call[c].task] = call[c].lane
  BY <1>2, LaneAssumption DEF IInv, Held
<1>5. goose[call[c].task].lane = call[c].lane
  BY <1>2, <1>4, LaneAssumption DEF IInv, Births
<1>6. gate[call[c].lane] = c
  BY <1>1 DEF IInv, Gates
<1>7. QED
  BY <1>1, <1>2, <1>3, <1>5, <1>6

LEMMA LoadCompletesStep ==
    ASSUME IInv, NEW c \in Calls, LoadCompletes(c)
    PROVE  IInv'
<1> DEFINE l == call[c].lane
           t == call[c].task
<1>1. /\ UNCHANGED <<tasks, lost, orphaned, finder, allDone, cancelling>>
      /\ Return(c) /\ Handles(c)
      /\ lanes' = [lanes EXCEPT ![l].status = "completed", ![l].result = t]
      /\ goose' = [goose EXCEPT ![t].state = "gone"]
  BY DEF LoadCompletes, Record, Handles
<1>2. /\ l \in Lanes /\ t \in Tasks /\ call[c].pc \in Looping /\ lanes[l].task = t
      /\ goose[t].lane = l
  BY <1>1, Handling
<1>3. Evolves /\ goose'[t].state = "gone"
  <2>1. goose[t].lane # None
    BY <1>2, LaneAssumption
  <2>2. LaneTypeOK /\ Births
    BY DEF IInv
  <2>3. goose' = [goose EXCEPT ![t].state = "gone"] /\ t \in Tasks
    BY <1>1, <1>2
  <2> HIDE DEF t
  <2> QED
    BY <2>1, <2>2, <2>3, TaskEnded
<1>4. Became(l, "completed", t, lanes[l].attempt, t)
  BY <1>1, <1>2, LaneRecorded DEF IInv
<1>5. Moved(c, "idle", None, None) /\ Freed(c)
  BY <1>1, ReturnFrees DEF IInv
<1>6. \A k \in Lanes : lanes[k].status = "completed" <=> lanes[k].result # None
  BY DEF IInv, Held
<1>7. t # None
  BY <1>2, LaneAssumption
<1>8. LeftBehind \subseteq LeftBehind' /\ LeftBehind' \subseteq Tasks
  BY <1>1 DEF IInv, LaneTypeOK, LeftBehind
<1>9. \A k \in Lanes : /\ lanes'[k].task = lanes[k].task
                       /\ lanes'[k].attempt = lanes[k].attempt
                       /\ lanes'[k].status = "pending" => lanes[k].status = "pending"
                       /\ lanes'[k].status = "completed" <=> lanes'[k].result # None
                       /\ lanes[k].status # "completed" /\ lanes'[k].status = "completed"
                            => lanes[k].task # None /\ goose'[lanes[k].task].state = "gone"
  BY <1>2, <1>3, <1>4, <1>6, <1>7 DEF Became
<1>10. QED
  BY <1>1, <1>2, <1>3, <1>4, <1>5, <1>8, <1>9, CallReturns DEF Became

(* A cancellation ends a task or loses it. *)
LEMMA TaskCancelled ==
    ASSUME IInv, NEW t \in Tasks, goose[t].lane # None, CancelTask(t), UNCHANGED orphaned
    PROVE  /\ Evolves /\ LeftBehind \subseteq LeftBehind' /\ LeftBehind' \subseteq Tasks
           /\ goose'[t].state = "running" => t \in LeftBehind'
<1>1. LeftBehind \subseteq Tasks
  BY DEF IInv, LaneTypeOK, LeftBehind
<1>2. CASE goose' = [goose EXCEPT ![t].state = "gone"] /\ UNCHANGED LeftBehind
  BY <1>1, <1>2, TaskEnded DEF IInv
<1>3. CASE LeftBehind' = LeftBehind \cup {t} /\ UNCHANGED goose
  BY <1>1, <1>3, EvolvesStays DEF IInv
<1>4. QED
  BY <1>2, <1>3 DEF CancelTask, LeftBehind

LEMMA CancelLaneStep ==
    ASSUME IInv, NEW c \in Calls, CancelLane(c)
    PROVE  IInv'
<1> DEFINE l == call[c].lane
           t == call[c].task
<1>1. /\ UNCHANGED <<tasks, orphaned, finder, allDone, cancelling>>
      /\ Return(c) /\ Handles(c) /\ CancelTask(t)
      /\ lanes' = [lanes EXCEPT ![l].status = "incomplete"]
  BY DEF CancelLane, Handles
<1>2. /\ l \in Lanes /\ t \in Tasks /\ call[c].pc \in Looping /\ lanes[l].result = None
      /\ goose[t].lane = l
  BY <1>1, Handling
<1>3. Evolves /\ LeftBehind \subseteq LeftBehind' /\ LeftBehind' \subseteq Tasks
  BY <1>1, <1>2, TaskCancelled, LaneAssumption
<1>4. Became(l, "incomplete", lanes[l].task, lanes[l].attempt, lanes[l].result)
  BY <1>1, <1>2, StatusSet DEF IInv, Statuses
<1>5. Moved(c, "idle", None, None) /\ Freed(c)
  BY <1>1, ReturnFrees DEF IInv
<1>6. \A k \in Lanes : lanes[k].status = "completed" <=> lanes[k].result # None
  BY DEF IInv, Held
<1>7. \A k \in Lanes : /\ lanes'[k].task = lanes[k].task
                       /\ lanes'[k].attempt = lanes[k].attempt
                       /\ lanes'[k].status = "pending" => lanes[k].status = "pending"
                       /\ lanes'[k].status = "completed" <=> lanes'[k].result # None
                       /\ lanes[k].status # "completed" => lanes'[k].status # "completed"
  BY <1>2, <1>4, <1>6 DEF Became
<1>8. QED
  BY <1>1, <1>2, <1>3, <1>4, <1>5, <1>7, CallReturns DEF Became

-----------------------------------------------------------------------------
(* Starting a task. *)

LEMMA DelegateStep ==
    ASSUME IInv, NEW c \in Calls, NEW l \in Lanes, Delegate(c, l)
    PROVE  IInv'
<1>1. /\ UNCHANGED <<gate, tasks, goose, lost, orphaned, finder, allDone, cancelling>>
      /\ finder = "running" /\ call[c].pc = "idle" /\ lanes[l].status = "pending"
      /\ lanes' = [lanes EXCEPT ![l].status = "running"]
      /\ call' = [call EXCEPT ![c] = [Idle EXCEPT !.pc = "delegating", !.lane = l]]
  BY DEF Delegate
<1>2. Became(l, "running", lanes[l].task, lanes[l].attempt, lanes[l].result)
  BY <1>1, StatusSet DEF IInv, Statuses
<1>3. lanes[l].task = None /\ lanes[l].attempt = 0 /\ lanes[l].result = None
  BY <1>1 DEF IInv, Held
<1> DEFINE r == [Idle EXCEPT !.pc = "delegating", !.lane = l]
<1>4. Moved(c, "delegating", l, None)
  <2>1. Idle \in Call /\ Idle.task = None
    BY IdleCall
  <2>2. r \in Call /\ r.pc = "delegating" /\ r.lane = l /\ r.task = None
    BY <2>1 DEF Call, Starting
  <2> HIDE DEF r
  <2>3. call' = [call EXCEPT ![c] = r]
    BY <1>1 DEF r
  <2> QED
    BY <2>2, <2>3, CallMoves DEF IInv
<1> HIDE DEF r
<1>5. \A t \in Tasks : goose[t].lane # l
  BY <1>1, LaneAssumption DEF IInv, Attempts
<1>6. \A d \in Calls : Starts(d) \/ Handles(d) => call[d].lane # l
  BY <1>1 DEF IInv, Working, WorkingOf
<1>7. /\ Starts(c)' /\ ~Handles(c)' /\ ~Starts(c) /\ call[c].pc \notin Looping
      /\ call'[c].pc \notin Looping
  BY <1>1, <1>4 DEF Moved, Starts, Handles, Starting, Looping
<1>8. \A d \in Calls : d # c => call'[d] = call[d]
  BY <1>4 DEF Moved
<1>9. Working'
  <2>1. WorkingOf(c)'
    BY <1>1, <1>2, <1>4, <1>5, <1>7 DEF WorkingOf, Moved, Became
  <2>2. ASSUME NEW d \in Calls, d # c PROVE WorkingOf(d)'
    <3>1. WorkingOf(d) /\ call'[d] = call[d] /\ Starts(d)' = Starts(d) /\ Handles(d)' = Handles(d)
      BY <1>8, <2>2 DEF IInv, Working, Starts, Handles
    <3>2. Starts(d) \/ Handles(d) => lanes'[call[d].lane] = lanes[call[d].lane]
      BY <1>2, <1>6, <3>1 DEF Became, WorkingOf, Starts, Handles, Starting
    <3>3. call[d].pc \in {"delegating", "created", "entered"} => Starts(d)
      BY DEF Starts, Starting
    <3> QED
      BY <1>1, <3>1, <3>2, <3>3 DEF WorkingOf
  <2> QED
    BY <2>1, <2>2 DEF Working
<1>10. Gates'
  <2>1. \A k \in Lanes : gate[k] # c
    BY <1>1, <1>7, LaneAssumption DEF IInv, Gates, Starts, LaneTypeOK, LeftBehind
  <2>2. \A k \in Lanes : gate[k] \in Calls \cup {None}
    BY DEF IInv, LaneTypeOK, LeftBehind
  <2> QED
    BY <1>1, <1>7, <1>8, <2>1, <2>2 DEF IInv, Gates
<1>11. Alone'
  <2>1. \A d \in Calls : Starts(d)' /\ d # c => Starts(d) /\ call'[d].lane = call[d].lane
                                                /\ call[d].lane # l /\ call[d].lane \in Lanes
    BY <1>6, <1>8 DEF Starts, IInv, Working, WorkingOf, Starting
  <2>2. ASSUME NEW d \in Calls, Starts(d)', gate'[call'[d].lane] # d
        PROVE  lanes'[call'[d].lane].task = None
    <3>1. CASE d = c
      BY <1>2, <1>3, <1>4, <3>1 DEF Became, Moved
    <3>2. CASE d # c
      BY <1>1, <1>2, <2>1, <2>2, <3>2 DEF IInv, Alone, Became
    <3> QED
      BY <3>1, <3>2
  <2>3. \A d, e \in Calls : Starts(d)' /\ Starts(e)' /\ call'[d].lane = call'[e].lane => d = e
    BY <1>4, <2>1 DEF IInv, Alone, Moved
  <2> QED
    BY <2>2, <2>3 DEF Alone
<1>12. Births' /\ OneTaskPerAttempt'
  BY <1>1 DEF IInv, Births, OneTaskPerAttempt
<1>13. Attempts'
  BY <1>1, <1>2, <1>5 DEF IInv, Attempts, Became, LaneTypeOK, LeftBehind, Task
<1>14. Held'
  BY <1>1, <1>2, <1>3 DEF IInv, Held, Became
<1>15. Ending'
  BY <1>1, Runs DEF IInv, Ending
<1>16. Accounted'
  <2> SUFFICES ASSUME NEW t \in Tasks, goose[t].state = "running", t \notin LeftBehind
               PROVE  \/ \E d \in Calls : call'[d].pc \in {"created", "entered"} /\ call'[d].task = t
                      \/ Kept(t)'
    BY <1>1 DEF Accounted, AccountedFor, LeftBehind
  <2>1. AccountedFor(t)
    BY DEF IInv, Accounted
  <2>2. ASSUME NEW d \in Calls, call[d].pc \in {"created", "entered"}, call[d].task = t
        PROVE  \E e \in Calls : call'[e].pc \in {"created", "entered"} /\ call'[e].task = t
    BY <1>1, <1>8, <2>2
  <2>3. ASSUME Kept(t) PROVE Kept(t)'
    <3>1. PICK k \in Lanes :
            /\ goose[t].lane = k /\ lanes[k].task = t /\ lanes[k].status # "completed"
            /\ \A d \in Calls : Starts(d) => call[d].lane # k
      BY <2>3 DEF Kept
    <3>2. k # l
      BY <1>5, <3>1
    <3>3. \A d \in Calls : Starts(d)' => call'[d].lane # k
      BY <1>4, <1>8, <3>1, <3>2 DEF Starts, Moved
    <3> QED
      BY <1>1, <1>2, <3>1, <3>2, <3>3 DEF Kept, Became
  <2> QED
    BY <2>1, <2>2, <2>3 DEF AccountedFor
<1>17. LaneTypeOK'
  BY <1>1, <1>2, <1>4 DEF IInv, LaneTypeOK, LeftBehind, Moved, Became
<1>18. QED
  BY <1>9, <1>10, <1>11, <1>12, <1>13, <1>14, <1>15, <1>16, <1>17 DEF IInv

(* What a call that starts a task knows. *)
LEMMA StartKnows ==
    ASSUME IInv, NEW c \in Calls, Starts(c)
    PROVE  /\ call[c].lane \in Lanes /\ call[c].pc # "idle" /\ call[c].pc \notin Looping
           /\ lanes[call[c].lane].status = "running" /\ lanes[call[c].lane].result = None
           /\ finder = "running" /\ cancelling = {} /\ ~Handles(c)
           /\ call[c].pc \in {"created", "entered"} =>
                call[c].task \in Tasks /\ goose[call[c].task].lane = call[c].lane
<1>1. call[c].pc # "idle" /\ call[c].pc \notin Looping /\ ~Handles(c)
  BY DEF Starts, Handles, Starting, Looping
<1>2. QED
  BY <1>1, AtWork DEF IInv, Working, WorkingOf

(* A call that starts a task and does not yet end that keeps its place.    *)
LEMMA StartGoesOn ==
    ASSUME IInv, NEW c \in Calls, Starts(c), NEW pc \in Starting, NEW t,
           Moved(c, pc, call[c].lane, t), UNCHANGED <<lanes, gate>>
    PROVE  Gates' /\ Alone'
<1>1. \A d \in Calls : d # c => call'[d] = call[d]
  BY DEF Moved
<1>2. /\ call'[c].pc \in Starting /\ call'[c].lane = call[c].lane /\ call'[c].pc \notin Looping
      /\ call[c].pc \in Starting
  BY DEF Moved, Starting, Looping, Starts
<1>3. Gates'
  BY <1>1, <1>2 DEF IInv, Gates, LaneTypeOK, LeftBehind
<1>4. \A d \in Calls : Starts(d)' <=> Starts(d) /\ call'[d].lane = call[d].lane
  BY <1>1, <1>2 DEF Starts
<1>5. QED
  BY <1>3, <1>4 DEF IInv, Alone

LEMMA GooseCreatesStep ==
    ASSUME IInv, NEW c \in Calls, NEW t \in Tasks, GooseCreates(c, t)
    PROVE  IInv'
<1> DEFINE l == call[c].lane
           r == [state |-> "running", lane |-> l, attempt |-> lanes[l].attempt]
<1>1. /\ UNCHANGED <<lanes, gate, tasks, lost, orphaned, finder, allDone, cancelling>>
      /\ call[c].pc = "delegating" /\ goose[t].state = "unborn" /\ Starts(c)
      /\ goose' = [goose EXCEPT ![t] = r]
      /\ call' = [call EXCEPT ![c].pc = "created", ![c].task = t]
  BY DEF GooseCreates, Starts, Starting
<1>2. /\ l \in Lanes /\ lanes[l].status = "running" /\ finder = "running" /\ cancelling = {}
      /\ lanes[l].attempt \in 0..1 /\ goose[t].lane = None
  BY <1>1, StartKnows, LaneFields DEF IInv, Births
<1>3. r \in Task /\ r.state = "running" /\ r.lane = l /\ r.attempt = lanes[l].attempt
  BY <1>2 DEF Task
<1> HIDE DEF r
<1>4. /\ goose' \in [Tasks -> Task] /\ goose'[t].state = "running" /\ goose'[t].lane = l
      /\ goose'[t].attempt = lanes[l].attempt
      /\ \A u \in Tasks : u # t => goose'[u] = goose[u]
  BY <1>1, <1>3 DEF IInv, LaneTypeOK, LeftBehind
<1>5. Moved(c, "created", l, t)
  <2> DEFINE q == [call[c] EXCEPT !.pc = "created", !.task = t]
  <2>1. call \in [Calls -> Call] /\ call[c] \in Call /\ "created" \in Starting
    BY DEF IInv, LaneTypeOK, LeftBehind, Starting
  <2>2. q \in Call /\ q.pc = "created" /\ q.lane = l /\ q.task = t
    BY <2>1 DEF Call
  <2>3. call' = [call EXCEPT ![c] = q]
    BY <1>1, <2>1
  <2> HIDE DEF q
  <2> QED
    BY <2>2, <2>3, CallMoves DEF IInv
<1>6. \A d \in Calls : d # c => call'[d] = call[d]
  BY <1>5 DEF Moved
<1>7. Starts(c)' /\ ~Handles(c)' /\ "created" \in Starting
  BY <1>5 DEF Moved, Starts, Handles, Starting
<1>8. Gates' /\ Alone'
  BY <1>1, <1>5, <1>7, StartGoesOn
<1>9. Working'
  <2>1. WorkingOf(c)'
    BY <1>1, <1>2, <1>4, <1>5, <1>7 DEF WorkingOf, Moved
  <2>2. ASSUME NEW d \in Calls, d # c PROVE WorkingOf(d)'
    <3>1. WorkingOf(d) /\ call'[d] = call[d] /\ Starts(d)' = Starts(d) /\ Handles(d)' = Handles(d)
      BY <1>6, <2>2 DEF IInv, Working, Starts, Handles
    <3>2. Starts(d) => call[d].lane # l
      BY <1>1, <2>2, Exclusive
    <3>3. call[d].pc \in {"delegating", "created", "entered"} => Starts(d)
      BY DEF Starts, Starting
    <3>4. call[d].pc \in {"created", "entered"} => call[d].task # t
      BY <1>2, <3>1, LaneAssumption DEF WorkingOf
    <3>5. call[d].pc = "delegating" =>
            \A u \in Tasks : ~(/\ goose'[u].lane = call[d].lane
                               /\ goose'[u].attempt = lanes[call[d].lane].attempt)
      <4> SUFFICES ASSUME call[d].pc = "delegating", NEW u \in Tasks,
                          goose'[u].lane = call[d].lane,
                          goose'[u].attempt = lanes[call[d].lane].attempt
                   PROVE  FALSE
        OBVIOUS
      <4>1. u # t
        BY <1>4, <3>2, <3>3
      <4>2. goose'[u] = goose[u]
        BY <1>4, <4>1
      <4> QED
        BY <3>1, <4>2 DEF WorkingOf
    <3>6. call[d].pc \in {"created", "entered"} =>
            call[d].task \in Tasks /\ goose'[call[d].task].lane = call[d].lane
      BY <1>4, <3>1, <3>4 DEF WorkingOf
    <3> QED
      BY <1>1, <3>1, <3>5, <3>6 DEF WorkingOf
  <2> QED
    BY <2>1, <2>2 DEF Working
<1>10. Births'
  BY <1>1, <1>2, <1>4, LaneAssumption DEF IInv, Births
<1>11. Attempts'
  BY <1>1, <1>2, <1>4 DEF IInv, Attempts
<1>12. OneTaskPerAttempt'
  <2>1. \A u \in Tasks : ~(goose[u].lane = l /\ goose[u].attempt = lanes[l].attempt)
    BY <1>1 DEF IInv, Working, WorkingOf
  <2> QED
    BY <1>4, <2>1 DEF IInv, OneTaskPerAttempt
<1>13. Held' /\ Ending'
  BY <1>1 DEF IInv, Held, Ending
<1>14. Accounted'
  <2> SUFFICES ASSUME NEW u \in Tasks, goose'[u].state = "running", u \notin LeftBehind
               PROVE  \/ \E d \in Calls : call'[d].pc \in {"created", "entered"} /\ call'[d].task = u
                      \/ Kept(u)'
    BY <1>1 DEF Accounted, AccountedFor, LeftBehind
  <2>1. CASE u = t
    BY <1>5, <2>1 DEF Moved
  <2>2. CASE u # t
    <3>1. AccountedFor(u) /\ goose[u].state = "running" /\ goose'[u] = goose[u]
      BY <1>4, <2>2 DEF IInv, Accounted
    <3>2. ASSUME NEW d \in Calls, call[d].pc \in {"created", "entered"}, call[d].task = u
          PROVE  \E e \in Calls : call'[e].pc \in {"created", "entered"} /\ call'[e].task = u
      BY <1>1, <1>6, <3>2
    <3>3. ASSUME Kept(u) PROVE Kept(u)'
      <4>1. \A d \in Calls : Starts(d)' => Starts(d) /\ call'[d].lane = call[d].lane
        BY <1>1, <1>5, <1>6 DEF Starts, Moved
      <4>2. PICK k \in Lanes :
              /\ goose[u].lane = k /\ lanes[k].task = u /\ lanes[k].status # "completed"
              /\ \A d \in Calls : Starts(d) => call[d].lane # k
              /\ finder = "running" \/ u \in cancelling
        BY <3>3 DEF Kept
      <4>3. \A d \in Calls : Starts(d)' => call'[d].lane # k
        BY <4>1, <4>2
      <4> QED
        BY <1>1, <3>1, <4>2, <4>3 DEF Kept
    <3> QED
      BY <3>1, <3>2, <3>3 DEF AccountedFor
  <2> QED
    BY <2>1, <2>2
<1>15. LaneTypeOK'
  BY <1>1, <1>4, <1>5 DEF IInv, LaneTypeOK, LeftBehind, Moved
<1>16. QED
  BY <1>8, <1>9, <1>10, <1>11, <1>12, <1>13, <1>14, <1>15 DEF IInv

LEMMA EnterTaskStep ==
    ASSUME IInv, NEW c \in Calls, EnterTask(c)
    PROVE  IInv'
<1> DEFINE l == call[c].lane
           t == call[c].task
<1>1. /\ UNCHANGED <<lanes, gate, goose, lost, orphaned, finder, allDone, cancelling>>
      /\ call[c].pc = "created" /\ Starts(c)
      /\ tasks' = [tasks EXCEPT ![t] = l]
      /\ call' = [call EXCEPT ![c].pc = "entered"]
  BY DEF EnterTask, Starts, Starting
<1>2. /\ l \in Lanes /\ t \in Tasks /\ lanes[l].status = "running" /\ finder = "running"
      /\ cancelling = {} /\ goose[t].lane = l
  BY <1>1, StartKnows
<1>3. /\ tasks' \in [Tasks -> Lanes \cup {None}] /\ tasks'[t] = l
      /\ \A u \in Tasks : u # t => tasks'[u] = tasks[u]
  BY <1>1, <1>2 DEF IInv, LaneTypeOK, LeftBehind
<1>4. Moved(c, "entered", l, t)
  <2> DEFINE q == [call[c] EXCEPT !.pc = "entered"]
  <2>1. call \in [Calls -> Call] /\ call[c] \in Call /\ "entered" \in Starting
    BY DEF IInv, LaneTypeOK, LeftBehind, Starting
  <2>2. q \in Call /\ q.pc = "entered" /\ q.lane = l /\ q.task = t
    BY <2>1 DEF Call
  <2>3. call' = [call EXCEPT ![c] = q]
    BY <1>1, <2>1
  <2> HIDE DEF q
  <2> QED
    BY <2>2, <2>3, CallMoves DEF IInv
<1>5. \A d \in Calls : d # c => call'[d] = call[d]
  BY <1>4 DEF Moved
<1>6. Starts(c)' /\ ~Handles(c)' /\ "entered" \in Starting
  BY <1>4 DEF Moved, Starts, Handles, Starting
<1>7. Gates' /\ Alone'
  BY <1>1, <1>4, <1>6, StartGoesOn
<1>8. \A u \in Tasks : tasks[u] # None => tasks'[u] = tasks[u]
  BY <1>2, <1>3 DEF IInv, Births
<1>9. Working'
  <2>1. WorkingOf(c)'
    BY <1>1, <1>2, <1>3, <1>4, <1>6 DEF WorkingOf, Moved
  <2>2. ASSUME NEW d \in Calls, d # c PROVE WorkingOf(d)'
    <3>1. WorkingOf(d) /\ call'[d] = call[d] /\ Starts(d)' = Starts(d) /\ Handles(d)' = Handles(d)
      BY <1>5, <2>2 DEF IInv, Working, Starts, Handles
    <3>2. call[d].pc = "entered" => tasks'[call[d].task] = call[d].lane
      BY <1>8, <3>1, LaneAssumption DEF WorkingOf, Starts, Starting
    <3> QED
      BY <1>1, <3>1, <3>2 DEF WorkingOf
  <2> QED
    BY <2>1, <2>2 DEF Working
<1>10. Births' /\ Attempts' /\ OneTaskPerAttempt'
  BY <1>1, <1>2, <1>3 DEF IInv, Births, Attempts, OneTaskPerAttempt
<1>11. Held'
  <2>1. \A k \in Lanes : lanes[k].task # None =>
          lanes[k].task \in Tasks /\ tasks[lanes[k].task] # None
    BY LaneFields, LaneAssumption DEF IInv, Held
  <2> QED
    BY <1>1, <1>8, <2>1 DEF IInv, Held
<1>12. Ending'
  BY <1>1, <1>2, Runs
<1>13. Accounted'
  <2>1. Evolves
    BY <1>1, EvolvesStays DEF IInv
  <2>2. call'[c].pc = "entered" /\ call'[c].task = call[c].task /\ call'[c].lane = call[c].lane
    BY <1>4 DEF Moved
  <2> QED
    BY <1>1, <1>5, <2>1, <2>2, AccountsStay DEF LeftBehind
<1>14. LaneTypeOK'
  BY <1>1, <1>3, <1>4 DEF IInv, LaneTypeOK, LeftBehind, Moved
<1>15. QED
  BY <1>7, <1>9, <1>10, <1>11, <1>12, <1>13, <1>14 DEF IInv

LEMMA SetTaskStep ==
    ASSUME IInv, NEW c \in Calls, SetTask(c)
    PROVE  IInv'
<1> DEFINE l == call[c].lane
           t == call[c].task
<1>1. /\ UNCHANGED <<gate, tasks, goose, lost, orphaned, finder, allDone, cancelling>>
      /\ call[c].pc = "entered" /\ Starts(c)
      /\ lanes' = [lanes EXCEPT ![l].task = t]
      /\ call' = [call EXCEPT ![c] = IF gate[l] = c
                                     THEN [@ EXCEPT !.pc = "checking", !.task = None, !.waits = 0]
                                     ELSE Idle]
  BY DEF SetTask, Starts, Starting
<1>2. /\ l \in Lanes /\ t \in Tasks /\ lanes[l].status = "running" /\ finder = "running"
      /\ cancelling = {} /\ goose[t].lane = l /\ tasks[t] = l /\ t # None
  BY <1>1, StartKnows, LaneAssumption DEF IInv, Working, WorkingOf
<1>3. Became(l, lanes[l].status, t, lanes[l].attempt, lanes[l].result)
  <2> DEFINE q == [lanes[l] EXCEPT !.task = t]
  <2>1. lanes \in [Lanes -> Lane] /\ lanes[l] \in Lane
    BY <1>2 DEF IInv, LaneTypeOK, LeftBehind
  <2>2. /\ q \in Lane /\ q.status = lanes[l].status /\ q.task = t
        /\ q.attempt = lanes[l].attempt /\ q.result = lanes[l].result
    BY <1>2, <2>1 DEF Lane
  <2>3. lanes' = [lanes EXCEPT ![l] = q]
    BY <1>1, <2>1
  <2> HIDE DEF q
  <2> QED
    BY <1>2, <2>1, <2>2, <2>3 DEF Became
<1>4. \/ gate[l] = c /\ Moved(c, "checking", l, None)
      \/ gate[l] # c /\ Moved(c, "idle", None, None)
  <2>1. CASE gate[l] = c
    <3>1. call' = [call EXCEPT ![c] = [@ EXCEPT !.pc = "checking", !.task = None, !.waits = 0]]
      BY <1>1, <2>1
    <3>2. "checking" \in {"idle", "gated"} \cup Starting \cup Looping /\ 0 \in 0..1
      BY DEF Looping
    <3> QED
      BY <2>1, <3>1, <3>2, CallGoes DEF IInv
  <2>2. CASE gate[l] # c
    <3>1. call' = [call EXCEPT ![c] = Idle]
      BY <1>1, <2>2
    <3> QED
      BY <2>2, <3>1, IdleCall, CallMoves DEF IInv
  <2> QED
    BY <2>1, <2>2
<1>5. \A d \in Calls : d # c => call'[d] = call[d]
  BY <1>4 DEF Moved
<1>6. ~Starts(c)' /\ ~Handles(c)' /\ call[c].pc \notin Looping
  BY <1>1, <1>4 DEF Moved, Starts, Handles, Starting, Looping
<1>7. Evolves
  BY <1>1, EvolvesStays DEF IInv
<1>8. \A d \in Calls : Starts(d)' => d # c /\ Starts(d) /\ call[d].lane # l
                                     /\ call'[d] = call[d] /\ call[d].lane \in Lanes
  <2> SUFFICES ASSUME NEW d \in Calls, Starts(d)'
               PROVE  d # c /\ Starts(d) /\ call[d].lane # l /\ call'[d] = call[d]
                      /\ call[d].lane \in Lanes
    OBVIOUS
  <2>1. d # c /\ Starts(d) /\ call'[d] = call[d]
    BY <1>5, <1>6 DEF Starts
  <2> QED
    BY <1>1, <2>1, Exclusive, StartKnows
<1>9. Working'
  <2>1. \A d \in Calls : d # c => WorkingOf(d)'
    BY <1>1, <1>3, <1>5, <1>7, OthersWork DEF Became
  <2>2. WorkingOf(c)'
    BY <1>1, <1>2, <1>4, <1>6 DEF WorkingOf, Moved
  <2> QED
    BY <2>1, <2>2 DEF Working
<1>10. Gates'
  <2>1. ASSUME NEW d \in Calls, call'[d].pc \in Looping PROVE gate'[call'[d].lane] = d
    <3>1. CASE d = c
      BY <1>1, <1>4, <2>1, <3>1 DEF Moved, Looping
    <3>2. CASE d # c
      BY <1>1, <1>5, <2>1, <3>2 DEF IInv, Gates
    <3> QED
      BY <3>1, <3>2
  <2>2. ASSUME NEW k \in Lanes, gate[k] # None
        PROVE  call'[gate[k]].lane = k /\ call'[gate[k]].pc \in Starting \cup Looping
    <3>1. gate[k] \in Calls /\ call[gate[k]].lane = k /\ call[gate[k]].pc \in Starting \cup Looping
      BY <2>2 DEF IInv, Gates, LaneTypeOK, LeftBehind
    <3>2. CASE gate[k] = c
      BY <1>4, <3>1, <3>2 DEF Moved, Looping
    <3>3. CASE gate[k] # c
      BY <1>5, <3>1, <3>3
    <3> QED
      BY <3>2, <3>3
  <2> QED
    BY <1>1, <2>1, <2>2 DEF Gates
<1>11. Alone'
  <2>1. ASSUME NEW d \in Calls, Starts(d)', gate'[call'[d].lane] # d
        PROVE  lanes'[call'[d].lane].task = None
    BY <1>1, <1>3, <1>8, <2>1 DEF IInv, Alone, Became
  <2>2. \A d, e \in Calls : Starts(d)' /\ Starts(e)' /\ call'[d].lane = call'[e].lane => d = e
    BY <1>8 DEF IInv, Alone
  <2> QED
    BY <2>1, <2>2 DEF Alone
<1>12. Births' /\ OneTaskPerAttempt' /\ Attempts'
  <2>1. \A k \in Lanes : /\ lanes'[k].attempt = lanes[k].attempt /\ lanes[k].attempt \in 0..1
                         /\ lanes'[k].status = lanes[k].status
    BY <1>3, LaneFields DEF Became, IInv
  <2> QED
    BY <1>1, <1>7, <2>1, EvolvesKeeps, AttemptsKept
<1>13. Held'
  BY <1>1, <1>2, <1>3 DEF IInv, Held, Became
<1>14. Ending'
  BY <1>1, <1>2, Runs
<1>15. Accounted'
  <2> SUFFICES ASSUME NEW u \in Tasks, goose[u].state = "running", u \notin LeftBehind
               PROVE  \/ \E d \in Calls : call'[d].pc \in {"created", "entered"} /\ call'[d].task = u
                      \/ Kept(u)'
    BY <1>1 DEF Accounted, AccountedFor, LeftBehind
  <2>1. CASE u = t
    BY <1>1, <1>2, <1>3, <1>8, <2>1 DEF Kept, Became
  <2>2. CASE u # t
    <3>1. AccountedFor(u)
      BY DEF IInv, Accounted
    <3>2. ASSUME NEW d \in Calls, call[d].pc \in {"created", "entered"}, call[d].task = u
          PROVE  \E e \in Calls : call'[e].pc \in {"created", "entered"} /\ call'[e].task = u
      BY <1>5, <2>2, <3>2
    <3>3. ASSUME Kept(u) PROVE Kept(u)'
      <4>1. PICK k \in Lanes :
              /\ goose[u].lane = k /\ lanes[k].task = u /\ lanes[k].status # "completed"
              /\ \A d \in Calls : Starts(d) => call[d].lane # k
        BY <3>3 DEF Kept
      <4>2. k # l
        BY <1>1, <4>1
      <4> QED
        BY <1>1, <1>2, <1>3, <1>8, <4>1, <4>2 DEF Kept, Became
    <3> QED
      BY <3>1, <3>2, <3>3 DEF AccountedFor
  <2> QED
    BY <2>1, <2>2
<1>16. LaneTypeOK'
  BY <1>1, <1>3, <1>4 DEF IInv, LaneTypeOK, LeftBehind, Moved, Became
<1>17. QED
  BY <1>9, <1>10, <1>11, <1>12, <1>13, <1>14, <1>15, <1>16 DEF IInv

-----------------------------------------------------------------------------
(* Replacing a task that failed, or giving the lane up. *)

LEMMA Replaces ==
    ASSUME IInv, NEW c \in Calls, Starts(c) \/ Handles(c), ReplaceOrReturn(c)
    PROVE  LET l == call[c].lane IN
           \/ /\ lanes[l].attempt = 0 /\ gate' = gate
              /\ Became(l, "running", lanes[l].task, 1, None)
              /\ Moved(c, "delegating", l, None)
           \/ /\ Became(l, "incomplete", lanes[l].task, lanes[l].attempt, None)
              /\ Moved(c, "idle", None, None) /\ Freed(c)
<1> DEFINE l == call[c].lane
<1>1. /\ l \in Lanes /\ lanes[l].status = "running" /\ lanes[l].result = None
      /\ LaneTypeOK
  BY StartKnows, Handling DEF IInv
<1>2. CASE CanReplace(l)
  <2>1. /\ lanes' = [lanes EXCEPT ![l].attempt = 1] /\ gate' = gate
        /\ call' = [call EXCEPT ![c].pc = "delegating", ![c].task = None]
        /\ lanes[l].attempt = 0
    BY <1>2 DEF ReplaceOrReturn, Replace, CanReplace
  <2>2. Became(l, "running", lanes[l].task, 1, None)
    <3> DEFINE q == [lanes[l] EXCEPT !.attempt = 1]
    <3>1. lanes \in [Lanes -> Lane] /\ lanes[l] \in Lane /\ 1 \in 0..1
      BY <1>1 DEF LaneTypeOK, LeftBehind
    <3>2. /\ q \in Lane /\ q.status = lanes[l].status /\ q.task = lanes[l].task
          /\ q.attempt = 1 /\ q.result = lanes[l].result
      BY <3>1 DEF Lane
    <3>3. lanes' = [lanes EXCEPT ![l] = q]
      BY <2>1, <3>1
    <3> HIDE DEF q
    <3> QED
      BY <1>1, <3>1, <3>2, <3>3 DEF Became
  <2>3. Moved(c, "delegating", l, None)
    <3> DEFINE q == [call[c] EXCEPT !.pc = "delegating", !.task = None]
    <3>1. call \in [Calls -> Call] /\ call[c] \in Call /\ "delegating" \in Starting
      BY <1>1 DEF LaneTypeOK, LeftBehind, Starting
    <3>2. q \in Call /\ q.pc = "delegating" /\ q.lane = l /\ q.task = None
      BY <3>1 DEF Call
    <3>3. call' = [call EXCEPT ![c] = q]
      BY <2>1, <3>1
    <3> HIDE DEF q
    <3> QED
      BY <1>1, <3>2, <3>3, CallMoves
  <2> QED
    BY <2>1, <2>2, <2>3
<1>3. CASE ~CanReplace(l)
  <2>1. lanes' = [lanes EXCEPT ![l].status = "incomplete"] /\ Return(c)
    BY <1>3 DEF ReplaceOrReturn, Replace
  <2>2. Became(l, "incomplete", lanes[l].task, lanes[l].attempt, None)
    BY <1>1, <2>1, StatusSet DEF Statuses
  <2> QED
    BY <1>1, <2>1, <2>2, ReturnFrees
<1>4. QED
  BY <1>2, <1>3

LEMMA Replaced ==
    ASSUME IInv, NEW c \in Calls, Starts(c) \/ Handles(c), ReplaceOrReturn(c),
           UNCHANGED <<tasks, finder, allDone, cancelling>>,
           Evolves, LeftBehind \subseteq LeftBehind', LeftBehind' \subseteq Tasks,
           Handles(c) \/ call[c].pc \in {"created", "entered"} =>
             (goose'[call[c].task].state = "running" => call[c].task \in LeftBehind')
    PROVE  IInv'
<1> DEFINE l == call[c].lane
<1>1. /\ l \in Lanes /\ lanes[l].status = "running" /\ finder = "running"
      /\ cancelling = {} /\ lanes[l].attempt \in 0..1
  BY StartKnows, Handling, LaneFields DEF IInv
<1>2. \/ /\ lanes[l].attempt = 0 /\ gate' = gate
         /\ Became(l, "running", lanes[l].task, 1, None)
         /\ Moved(c, "delegating", l, None)
      \/ /\ Became(l, "incomplete", lanes[l].task, lanes[l].attempt, None)
         /\ Moved(c, "idle", None, None) /\ Freed(c)
  BY Replaces
<1>3. /\ \A d \in Calls : d # c => call'[d] = call[d]
      /\ \A k \in Lanes : k # l => lanes'[k] = lanes[k]
      /\ \A k \in Lanes : lanes'[k].task = lanes[k].task
      /\ lanes' \in [Lanes -> Lane] /\ call' \in [Calls -> Call]
  BY <1>1, <1>2 DEF Moved, Became
<1>4. \A d \in Calls : d # c => WorkingOf(d)'
  BY <1>3, OthersWork
<1>5. Births' /\ OneTaskPerAttempt' /\ Attempts'
  <2>1. \A k \in Lanes : /\ lanes'[k].attempt \in 0..1 /\ lanes[k].attempt \in 0..1
                         /\ lanes'[k].attempt >= lanes[k].attempt
                         /\ lanes'[k].status = "pending" => lanes[k].status = "pending"
    <3>1. \A k \in Lanes : lanes[k].attempt \in 0..1
      BY LaneFields DEF IInv
    <3> QED
      BY <1>1, <1>2, <3>1 DEF Became
  <2> QED
    BY <2>1, EvolvesKeeps, AttemptsKept
<1>6. Held' /\ Ending'
  BY <1>1, <1>2 DEF IInv, Held, Became, Ending
<1>7. Working' /\ Gates' /\ Alone'
  <2>1. CASE Moved(c, "idle", None, None) /\ Freed(c)
    BY <1>3, <1>4, <2>1, Returned
  <2>2. CASE /\ lanes[l].attempt = 0 /\ gate' = gate
             /\ Became(l, "running", lanes[l].task, 1, None)
             /\ Moved(c, "delegating", l, None)
    <3>1. /\ Starts(c)' /\ ~Handles(c)' /\ call'[c].pc \notin Looping /\ call'[c].pc = "delegating"
          /\ call'[c].pc \in Starting /\ call'[c].lane = l
      BY <2>2 DEF Moved, Starts, Handles, Starting, Looping
    <3>2. WorkingOf(c)'
      <4>1. \A t \in Tasks : goose'[t].lane = l => goose'[t].attempt # 1
        <5> SUFFICES ASSUME NEW t \in Tasks, goose'[t].lane = l PROVE goose'[t].attempt # 1
          OBVIOUS
        <5>1. goose[t].lane = l /\ goose'[t].attempt = goose[t].attempt /\ goose[t].attempt \in 0..1
          BY DEF Evolves, IInv, LaneTypeOK, LeftBehind, Task
        <5>2. goose[t].attempt <= 0
          BY <1>1, <2>2, <5>1, LaneAssumption DEF IInv, Attempts
        <5> QED
          BY <5>1, <5>2
      <4> QED
        BY <1>1, <2>2, <3>1, <4>1 DEF WorkingOf, Became
    <3>3. Working'
      BY <1>4, <3>2 DEF Working
    <3>4. Gates'
      <4>1. ASSUME NEW d \in Calls, call'[d].pc \in Looping PROVE gate[call'[d].lane] = d
        BY <1>3, <3>1, <4>1 DEF IInv, Gates
      <4>2. ASSUME NEW k \in Lanes, gate[k] # None
            PROVE  call'[gate[k]].lane = k /\ call'[gate[k]].pc \in Starting \cup Looping
        <5>1. gate[k] \in Calls /\ call[gate[k]].lane = k
              /\ call[gate[k]].pc \in Starting \cup Looping
          BY <4>2 DEF IInv, Gates, LaneTypeOK, LeftBehind
        <5> QED
          BY <1>3, <3>1, <5>1
      <4> QED
        BY <2>2, <4>1, <4>2 DEF Gates
    <3>5. Alone'
      <4>1. \A d \in Calls : Starts(d)' /\ d # c => Starts(d) /\ call'[d].lane = call[d].lane
                                                    /\ call[d].lane # l /\ call[d].lane \in Lanes
        <5> SUFFICES ASSUME NEW d \in Calls, Starts(d)', d # c
                     PROVE  Starts(d) /\ call'[d].lane = call[d].lane
                            /\ call[d].lane # l /\ call[d].lane \in Lanes
          OBVIOUS
        <5>1. Starts(d) /\ call'[d].lane = call[d].lane
          BY <1>3 DEF Starts
        <5> QED
          BY <5>1, Exclusive, StartKnows
      <4>2. gate[l] # c => lanes[l].task = None
        BY Handling DEF IInv, Alone
      <4>3. ASSUME NEW d \in Calls, Starts(d)', gate'[call'[d].lane] # d
            PROVE  lanes'[call'[d].lane].task = None
        <5>1. CASE d = c
          BY <1>1, <1>3, <2>2, <3>1, <4>2, <4>3, <5>1
        <5>2. CASE d # c
          BY <1>3, <2>2, <4>1, <4>3, <5>2 DEF IInv, Alone
        <5> QED
          BY <5>1, <5>2
      <4>4. \A d, e \in Calls : Starts(d)' /\ Starts(e)' /\ call'[d].lane = call'[e].lane => d = e
        BY <3>1, <4>1 DEF IInv, Alone
      <4> QED
        BY <4>3, <4>4 DEF Alone
    <3> QED
      BY <3>3, <3>4, <3>5
  <2> QED
    BY <1>2, <2>1, <2>2
<1>8. Accounted'
  <2> SUFFICES ASSUME NEW t \in Tasks, goose'[t].state = "running", t \notin LeftBehind'
               PROVE  \/ \E d \in Calls : call'[d].pc \in {"created", "entered"} /\ call'[d].task = t
                      \/ Kept(t)'
    BY DEF Accounted, AccountedFor
  <2>1. /\ goose[t].state = "running" /\ t \notin LeftBehind /\ goose'[t].lane = goose[t].lane
        /\ AccountedFor(t)
    BY DEF Evolves, IInv, Accounted
  <2>2. ASSUME NEW d \in Calls, call[d].pc \in {"created", "entered"}, call[d].task = t
        PROVE  \E e \in Calls : call'[e].pc \in {"created", "entered"} /\ call'[e].task = t
    <3>1. d # c
      BY <2>2
    <3> QED
      BY <1>3, <2>2, <3>1
  <2>3. ASSUME Kept(t) PROVE Kept(t)'
    <3>1. PICK k \in Lanes :
            /\ goose[t].lane = k /\ lanes[k].task = t /\ lanes[k].status # "completed"
            /\ \A d \in Calls : Starts(d) => call[d].lane # k
      BY <2>3 DEF Kept
    <3>2. k # l
      <4>1. Handles(c) => call[c].task = lanes[l].task
        BY Handling
      <4> QED
        BY <3>1, <4>1
    <3>3. \A d \in Calls : Starts(d)' => call'[d].lane # k
      <4> SUFFICES ASSUME NEW d \in Calls, Starts(d)' PROVE call'[d].lane # k
        OBVIOUS
      <4>1. CASE d = c
        BY <1>2, <3>2, <4>1, LaneAssumption DEF Moved
      <4>2. CASE d # c
        BY <1>3, <3>1, <4>2 DEF Starts
      <4> QED
        BY <4>1, <4>2
    <3> QED
      BY <1>1, <1>3, <2>1, <3>1, <3>2, <3>3 DEF Kept
  <2> QED
    BY <2>1, <2>2, <2>3 DEF AccountedFor
<1>9. LaneTypeOK'
  BY <1>2, <1>3 DEF IInv, LaneTypeOK, LeftBehind, Evolves, Freed
<1>10. QED
  BY <1>5, <1>6, <1>7, <1>8, <1>9 DEF IInv

LEMMA DelegateFailsStep ==
    ASSUME IInv, NEW c \in Calls, DelegateFails(c)
    PROVE  IInv'
<1>1. /\ UNCHANGED <<tasks, goose, finder, allDone, cancelling>>
      /\ call[c].pc \in {"delegating", "created"} /\ Starts(c)
      /\ LeftBehind' = LeftBehind \cup ({call[c].task} \ {None}) /\ ReplaceOrReturn(c)
  BY DEF DelegateFails, Starts, Starting, LeftBehind
<1>2. LeftBehind \subseteq LeftBehind' /\ LeftBehind' \subseteq Tasks /\ call[c].pc # "entered"
      /\ (call[c].pc = "created" => call[c].task \in LeftBehind')
  <2>1. call[c].task \in Tasks \cup {None} /\ LeftBehind \subseteq Tasks
    BY CallFields DEF IInv, LaneTypeOK, LeftBehind
  <2>2. call[c].pc = "created" => call[c].task \in Tasks
    BY <1>1, StartKnows
  <2> QED
    BY <1>1, <2>1, <2>2, LaneAssumption
<1>3. Evolves /\ ~Handles(c)
  BY <1>1, EvolvesStays, StartKnows DEF IInv
<1>4. QED
  BY <1>1, <1>2, <1>3, Replaced

LEMMA DropAndReplaceStep ==
    ASSUME IInv, NEW c \in Calls, DropAndReplace(c)
    PROVE  IInv'
<1>1. /\ UNCHANGED <<tasks, orphaned, finder, allDone, cancelling>> /\ Handles(c)
      /\ CancelTask(call[c].task) /\ ReplaceOrReturn(c)
  BY DEF DropAndReplace, Handles
<1>2. call[c].task \in Tasks /\ goose[call[c].task].lane # None
  BY <1>1, Handling, LaneAssumption
<1>3. Evolves /\ LeftBehind \subseteq LeftBehind' /\ LeftBehind' \subseteq Tasks
      /\ (goose'[call[c].task].state = "running" => call[c].task \in LeftBehind')
  BY <1>1, <1>2, TaskCancelled
<1>4. QED
  BY <1>1, <1>3, Replaced

LEMMA LockGateStep ==
    ASSUME IInv, NEW c \in Calls, LockGate(c)
    PROVE  IInv'
<1> DEFINE l == call[c].lane
<1>1. /\ UNCHANGED <<lanes, tasks, goose, lost, orphaned, finder, allDone, cancelling>>
      /\ call[c].pc = "gated" /\ gate[l] = None
      /\ gate' = [gate EXCEPT ![l] = c]
      /\ call' = [call EXCEPT ![c].pc = "checking"]
  BY DEF LockGate
<1>2. l \in Lanes /\ finder = "running" /\ cancelling = {}
  BY <1>1, AtWork
<1>3. Moved(c, "checking", l, call[c].task)
  <2> DEFINE q == [call[c] EXCEPT !.pc = "checking"]
  <2>1. call \in [Calls -> Call] /\ call[c] \in Call /\ "checking" \in Looping
    BY DEF IInv, LaneTypeOK, LeftBehind, Looping
  <2>2. q \in Call /\ q.pc = "checking" /\ q.lane = l /\ q.task = call[c].task
    BY <2>1 DEF Call
  <2>3. call' = [call EXCEPT ![c] = q]
    BY <1>1, <2>1
  <2> HIDE DEF q
  <2> QED
    BY <2>2, <2>3, CallMoves DEF IInv
<1>4. /\ ~Starts(c) /\ ~Starts(c)' /\ ~Handles(c)' /\ call[c].pc \notin Looping
      /\ call'[c].pc = "checking" /\ call'[c].lane = l
  BY <1>1, <1>3 DEF Moved, Starts, Handles, Starting, Looping
<1>5. \A d \in Calls : d # c => call'[d] = call[d]
  BY <1>3 DEF Moved
<1>6. Evolves
  BY <1>1, EvolvesStays DEF IInv
<1>7. /\ gate' \in [Lanes -> Calls \cup {None}] /\ gate'[l] = c
      /\ \A k \in Lanes : k # l => gate'[k] = gate[k]
  BY <1>1, <1>2 DEF IInv, LaneTypeOK, LeftBehind
<1>8. Working'
  <2>1. WorkingOf(c)'
    BY <1>1, <1>2, <1>4 DEF WorkingOf
  <2> QED
    BY <1>1, <1>5, <1>6, <2>1, OthersWork DEF Working
<1>9. Gates'
  <2>1. ASSUME NEW d \in Calls, call'[d].pc \in Looping PROVE gate'[call'[d].lane] = d
    <3>1. CASE d = c
      BY <1>4, <1>7, <3>1
    <3>2. CASE d # c
      <4>1. call[d].pc \in Looping /\ call'[d].lane = call[d].lane
        BY <1>5, <2>1, <3>2
      <4>2. gate[call[d].lane] = d /\ call[d].lane \in Lanes /\ d # None
        BY <4>1, LaneAssumption, AtWork DEF IInv, Gates, Looping
      <4> QED
        BY <1>1, <1>7, <4>1, <4>2
    <3> QED
      BY <3>1, <3>2
  <2>2. ASSUME NEW k \in Lanes, gate'[k] # None
        PROVE  call'[gate'[k]].lane = k /\ call'[gate'[k]].pc \in Starting \cup Looping
    <3>1. CASE k = l
      BY <1>4, <1>7, <3>1 DEF Looping
    <3>2. CASE k # l
      <4>1. gate'[k] = gate[k] /\ gate[k] \in Calls /\ call[gate[k]].lane = k
            /\ call[gate[k]].pc \in Starting \cup Looping
        BY <1>7, <2>2, <3>2 DEF IInv, Gates, LaneTypeOK, LeftBehind
      <4> QED
        BY <1>5, <3>2, <4>1
    <3> QED
      BY <3>1, <3>2
  <2> QED
    BY <2>1, <2>2 DEF Gates
<1>10. Alone'
  <2>1. \A d \in Calls : Starts(d)' => Starts(d) /\ d # c /\ call'[d] = call[d]
                                       /\ call[d].lane \in Lanes
    BY <1>4, <1>5, StartKnows DEF Starts
  <2>2. ASSUME NEW d \in Calls, Starts(d)', gate'[call'[d].lane] # d
        PROVE  lanes'[call'[d].lane].task = None
    <3>1. gate[call[d].lane] # d
      BY <1>1, <1>7, <2>1, <2>2, LaneAssumption
    <3> QED
      BY <1>1, <2>1, <2>2, <3>1 DEF IInv, Alone
  <2>3. \A d, e \in Calls : Starts(d)' /\ Starts(e)' /\ call'[d].lane = call'[e].lane => d = e
    BY <2>1 DEF IInv, Alone
  <2> QED
    BY <2>2, <2>3 DEF Alone
<1>11. Accounted'
  <2>1. call[c].pc \notin {"created", "entered"}
    BY <1>1
  <2> QED
    BY <1>1, <1>4, <1>5, <1>6, <2>1, AccountsStay DEF LeftBehind
<1>12. Births' /\ OneTaskPerAttempt' /\ Attempts' /\ Held'
  BY <1>1 DEF IInv, Births, OneTaskPerAttempt, Attempts, Held
<1>13. Ending'
  BY <1>1, <1>2, Runs
<1>14. LaneTypeOK'
  BY <1>1, <1>3, <1>7 DEF IInv, LaneTypeOK, LeftBehind, Moved
<1>15. QED
  BY <1>8, <1>9, <1>10, <1>11, <1>12, <1>13, <1>14 DEF IInv

-----------------------------------------------------------------------------
(* The end of the stream, and of the finder. *)

LEMMA CallsDropped ==
    ASSUME IInv, DropCalls
    PROVE  /\ call' \in [Calls -> Call] /\ gate' \in [Lanes -> Calls \cup {None}]
           /\ \A c \in Calls : call'[c].pc = "idle" /\ ~Starts(c)' /\ ~Handles(c)'
           /\ \A l \in Lanes : gate'[l] = None
           /\ LeftBehind \subseteq LeftBehind' /\ LeftBehind' \subseteq Tasks
           /\ \A c \in Calls : call[c].pc \in {"created", "entered"} => call[c].task \in LeftBehind'
           /\ Working' /\ Gates' /\ Alone'
<1>1. /\ call' \in [Calls -> Call] /\ gate' \in [Lanes -> Calls \cup {None}]
      /\ \A c \in Calls : call'[c].pc = "idle"
      /\ \A l \in Lanes : gate'[l] = None
  BY IdleCall DEF DropCalls
<1>2. \A c \in Calls : ~Starts(c)' /\ ~Handles(c)' /\ call'[c].pc \notin Looping
  BY <1>1 DEF Starts, Handles, Starting, Looping
<1>3. \A c \in Calls : call[c].pc \in {"created", "entered"} => call[c].task \in Tasks
  BY StartKnows DEF Starts, Starting
<1>4. /\ LeftBehind \subseteq LeftBehind' /\ LeftBehind' \subseteq Tasks
      /\ \A c \in Calls : call[c].pc \in {"created", "entered"} => call[c].task \in LeftBehind'
  <2>1. LeftBehind' = LeftBehind \cup TasksAt("created") \cup TasksAt("entered")
    BY DEF DropCalls, LeftBehind
  <2>2. LeftBehind \subseteq Tasks
    BY DEF IInv, LaneTypeOK, LeftBehind
  <2>3. \A pc \in {"created", "entered"} :
          /\ TasksAt(pc) \subseteq Tasks
          /\ \A c \in Calls : call[c].pc = pc => call[c].task \in TasksAt(pc)
    BY <1>3 DEF TasksAt
  <2> HIDE DEF TasksAt
  <2>4. QED
    BY <2>1, <2>2, <2>3
<1>5. Working' /\ Gates' /\ Alone'
  BY <1>1, <1>2 DEF Working, WorkingOf, Gates, Alone
<1>6. QED
  BY <1>1, <1>2, <1>4, <1>5

(* A task at work that is not left behind is then that of an open lane.    *)
LEMMA NotInHand ==
    ASSUME IInv, DropCalls, goose' = goose, NEW t \in Tasks, goose[t].state = "running",
           t \notin LeftBehind'
    PROVE  \E l \in Lanes : /\ goose[t].lane = l /\ lanes[l].task = t
                            /\ lanes[l].status # "completed"
                            /\ finder = "running" \/ t \in cancelling
<1>1. AccountedFor(t) /\ t \notin LeftBehind
  BY CallsDropped DEF IInv, Accounted
<1>2. \A c \in Calls : call[c].pc \in {"created", "entered"} => call[c].task # t
  BY CallsDropped
<1>3. QED
  BY <1>1, <1>2 DEF AccountedFor, Kept

LEMMA StreamReplacedStep ==
    ASSUME IInv, StreamReplaced
    PROVE  IInv'
<1>1. /\ finder = "running" /\ DropCalls
      /\ UNCHANGED <<lanes, tasks, goose, finder, allDone, cancelling>>
  BY DEF StreamReplaced
<1>2. Working' /\ Gates' /\ Alone'
  BY <1>1, CallsDropped
<1>3. Accounted'
  <2> SUFFICES ASSUME NEW t \in Tasks, goose[t].state = "running", t \notin LeftBehind' PROVE Kept(t)'
    BY <1>1 DEF Accounted, AccountedFor
  <2>1. PICK l \in Lanes : /\ goose[t].lane = l /\ lanes[l].task = t
                           /\ lanes[l].status # "completed"
    BY <1>1, NotInHand
  <2>2. \A c \in Calls : ~Starts(c)'
    BY <1>1, CallsDropped
  <2> QED
    BY <1>1, <2>1, <2>2 DEF Kept
<1>4. Births' /\ OneTaskPerAttempt' /\ Attempts' /\ Held' /\ Ending'
  BY <1>1 DEF IInv, Births, OneTaskPerAttempt, Attempts, Held, Ending
<1>5. LaneTypeOK'
  BY <1>1, CallsDropped DEF IInv, LaneTypeOK, LeftBehind
<1>6. QED
  BY <1>2, <1>3, <1>4, <1>5 DEF IInv

(* The view that the finder stops with: some running lanes are given up.   *)
LEMMA StopStep ==
    ASSUME IInv, NEW view \in [Lanes -> Lane], Stop(view), lanes' = view,
           \A l \in Lanes : \/ view[l] = lanes[l]
                            \/ /\ lanes[l].status = "running" /\ view[l].status = "incomplete"
                               /\ view[l].task = lanes[l].task
                               /\ view[l].attempt = lanes[l].attempt
                               /\ view[l].result = lanes[l].result,
           UNCHANGED <<tasks, goose>>
    PROVE  IInv'
<1>1. /\ finder = "running" /\ finder' = "cleanup" /\ DropCalls
      /\ allDone' = AllCompleted(view) /\ cancelling' = OpenTasks(view)
  BY DEF Stop
<1>2. Working' /\ Gates' /\ Alone'
  BY <1>1, CallsDropped
<1>3. \A l \in Lanes : /\ view[l].task = lanes[l].task /\ view[l].attempt = lanes[l].attempt
                       /\ view[l].result = lanes[l].result
                       /\ view[l].status = "completed" <=> lanes[l].status = "completed"
                       /\ view[l].status = "pending" <=> lanes[l].status = "pending"
  OBVIOUS
<1>4. \A t : t \in cancelling' <=>
        t # None /\ \E l \in Lanes : view[l].task = t /\ view[l].status # "completed"
  BY <1>1 DEF OpenTasks
<1>5. Accounted'
  <2> SUFFICES ASSUME NEW t \in Tasks, goose[t].state = "running", t \notin LeftBehind' PROVE Kept(t)'
    BY DEF Accounted, AccountedFor
  <2>1. PICK l \in Lanes : /\ goose[t].lane = l /\ lanes[l].task = t
                           /\ lanes[l].status # "completed"
    BY <1>1, NotInHand
  <2>2. \A c \in Calls : ~Starts(c)'
    BY <1>1, CallsDropped
  <2>3. t \in cancelling'
    BY <1>3, <1>4, <2>1, LaneAssumption
  <2> QED
    BY <1>3, <2>1, <2>2, <2>3 DEF Kept
<1>6. Births' /\ OneTaskPerAttempt' /\ Attempts'
  <2>1. Evolves
    BY EvolvesStays DEF IInv
  <2>2. \A k \in Lanes : lanes[k].attempt \in 0..1
    BY LaneFields DEF IInv
  <2> QED
    BY <1>3, <2>1, <2>2, EvolvesKeeps, AttemptsKept
<1>7. Held'
  BY <1>3 DEF IInv, Held
<1>8. Ending'
  <2>1. \A l \in Lanes : lanes[l].task # None => tasks[lanes[l].task] = l
    BY DEF IInv, Held
  <2> QED
    BY <1>1, <1>3, <1>4, <2>1, LaneAssumption DEF Ending
<1>9. LaneTypeOK'
  <2>1. cancelling' \subseteq Tasks
    BY <1>4 DEF Lane
  <2>2. allDone' \in BOOLEAN
    BY <1>1 DEF AllCompleted
  <2> QED
    BY <1>1, <2>1, <2>2, CallsDropped DEF IInv, LaneTypeOK, LeftBehind
<1>10. QED
  BY <1>2, <1>5, <1>6, <1>7, <1>8, <1>9 DEF IInv

LEMMA FinderStopsStep ==
    ASSUME IInv, FinderStops
    PROVE  IInv'
BY StopStep DEF FinderStops, IInv, LaneTypeOK, LeftBehind

LEMMA GivenUp ==
    ASSUME LaneTypeOK, NEW l \in Lanes
    PROVE  LET r == [lanes[l] EXCEPT !.status = "incomplete"] IN
           /\ r \in Lane /\ r.status = "incomplete" /\ r.task = lanes[l].task
           /\ r.attempt = lanes[l].attempt /\ r.result = lanes[l].result
BY DEF LaneTypeOK, LeftBehind, Lane, Statuses

LEMMA RecoveryPollStep ==
    ASSUME IInv, NEW S \in SUBSET Lanes, RecoveryPoll(S)
    PROVE  IInv'
<1> DEFINE view == [l \in Lanes |-> IF l \in S THEN [lanes[l] EXCEPT !.status = "incomplete"]
                                               ELSE lanes[l]]
<1>1. /\ \A l \in S : lanes[l].status = "running"
      /\ Stop(view) /\ lanes' = view /\ UNCHANGED <<tasks, goose>>
  BY DEF RecoveryPoll, Overdue
<1>2. \A l \in Lanes : view[l] = IF l \in S THEN [lanes[l] EXCEPT !.status = "incomplete"]
                                            ELSE lanes[l]
  OBVIOUS
<1>3. view \in [Lanes -> Lane]
  BY GivenUp DEF IInv, LaneTypeOK, LeftBehind
<1> HIDE DEF view
<1>4. \A l \in Lanes : \/ view[l] = lanes[l]
                       \/ /\ lanes[l].status = "running" /\ view[l].status = "incomplete"
                          /\ view[l].task = lanes[l].task
                          /\ view[l].attempt = lanes[l].attempt
                          /\ view[l].result = lanes[l].result
  BY <1>1, <1>2, GivenUp DEF IInv
<1>5. QED
  BY <1>1, <1>3, <1>4, StopStep

(* Once the finder does not run, no call does. *)
LEMMA NoCalls ==
    ASSUME IInv, finder # "running"
    PROVE  \A c \in Calls : call[c].pc = "idle" /\ ~Starts(c) /\ ~Handles(c)
BY DEF IInv, Working, WorkingOf, Starts, Handles, Starting

LEMMA QuietCalls ==
    ASSUME IInv, finder # "running", UNCHANGED <<call, gate>>
    PROVE  Working' /\ Gates' /\ Alone'
<1>1. \A c \in Calls : /\ call'[c].pc = "idle" /\ ~Starts(c)' /\ ~Handles(c)'
                       /\ call'[c].pc \notin Looping /\ call'[c].pc \notin Starting
  BY NoCalls DEF Starts, Handles, Looping, Starting
<1>2. \A l \in Lanes : gate[l] = None
  BY <1>1 DEF IInv, Gates, LaneTypeOK, LeftBehind
<1>3. QED
  BY <1>1, <1>2 DEF Working, WorkingOf, Gates, Alone

LEMMA CleanupAnswerStep ==
    ASSUME IInv, NEW t \in Tasks, CleanupAnswer(t)
    PROVE  IInv'
<1>1. /\ finder = "cleanup" /\ t \in cancelling /\ cancelling' = cancelling \ {t}
      /\ UNCHANGED <<gate, tasks, call, orphaned, finder, allDone>>
  BY DEF CleanupAnswer
<1> DEFINE l == tasks[t]
<1>2. /\ l \in Lanes /\ l # None /\ goose[t].lane = l /\ lanes[l].task = t
      /\ lanes[l].status # "completed" /\ lanes[l].attempt \in 0..1 /\ t # None
  BY <1>1, LaneFields, LaneAssumption DEF IInv, Ending, Births, LaneTypeOK, LeftBehind
<1>3. \/ /\ Became(l, "completed", t, lanes[l].attempt, t)
         /\ goose' = [goose EXCEPT ![t].state = "gone"] /\ LeftBehind' = LeftBehind
      \/ lanes' = lanes /\ goose' = [goose EXCEPT ![t].state = "gone"] /\ LeftBehind' = LeftBehind
      \/ lanes' = lanes /\ goose' = goose /\ LeftBehind' = LeftBehind \cup {t}
  <2>1. CASE lanes' = Record(l, t) /\ goose' = [goose EXCEPT ![t].state = "gone"] /\ UNCHANGED lost
    <3>1. lanes' = [lanes EXCEPT ![l].status = "completed", ![l].result = t]
      BY <2>1 DEF Record
    <3>2. Became(l, "completed", lanes[l].task, lanes[l].attempt, t)
      BY <1>2, <3>1, LaneRecorded DEF IInv
    <3> QED
      BY <1>1, <1>2, <2>1, <3>2 DEF LeftBehind
  <2> QED
    BY <1>1, <2>1 DEF CleanupAnswer, LeftBehind
<1>4. Evolves /\ LeftBehind \subseteq LeftBehind' /\ LeftBehind' \subseteq Tasks
      /\ (goose'[t].state = "running" => t \in LeftBehind')
  <2>1. LeftBehind \subseteq Tasks
    BY DEF IInv, LaneTypeOK, LeftBehind
  <2>2. CASE goose' = [goose EXCEPT ![t].state = "gone"] /\ LeftBehind' = LeftBehind
    BY <1>2, <2>1, <2>2, TaskEnded DEF IInv
  <2>3. CASE goose' = goose /\ LeftBehind' = LeftBehind \cup {t}
    BY <2>1, <2>3, EvolvesStays DEF IInv
  <2> QED
    BY <1>3, <2>2, <2>3
<1>5. /\ \A k \in Lanes : k # l => lanes'[k] = lanes[k]
      /\ \A k \in Lanes : lanes'[k].task = lanes[k].task /\ lanes'[k].attempt = lanes[k].attempt
                          /\ (lanes'[k].status = "pending" => lanes[k].status = "pending")
      /\ lanes' \in [Lanes -> Lane]
  BY <1>2, <1>3 DEF Became, IInv, LaneTypeOK, LeftBehind
<1>6. Working' /\ Gates' /\ Alone'
  BY <1>1, QuietCalls
<1>7. Births' /\ OneTaskPerAttempt' /\ Attempts'
  <2>1. \A k \in Lanes : lanes[k].attempt \in 0..1
    BY LaneFields DEF IInv
  <2> QED
    BY <1>1, <1>4, <1>5, <2>1, EvolvesKeeps, AttemptsKept
<1>8. Held'
  BY <1>1, <1>2, <1>3 DEF IInv, Held, Became
<1>9. Ending'
  <2>1. \A u \in cancelling' : /\ tasks[u] # None /\ lanes[tasks[u]].task = u /\ u # t
                               /\ lanes[tasks[u]].status # "completed" /\ tasks[u] \in Lanes
    BY <1>1 DEF IInv, Ending, LaneTypeOK, LeftBehind
  <2>2. \A u \in cancelling' : tasks[u] # l
    BY <1>2, <2>1
  <2> QED
    BY <1>1, <1>5, <2>1, <2>2 DEF Ending
<1>10. Accounted'
  <2> SUFFICES ASSUME NEW u \in Tasks, goose'[u].state = "running", u \notin LeftBehind' PROVE Kept(u)'
    BY DEF Accounted, AccountedFor
  <2>1. /\ goose[u].state = "running" /\ u \notin LeftBehind /\ goose'[u].lane = goose[u].lane
        /\ AccountedFor(u) /\ u # t
    BY <1>4 DEF Evolves, IInv, Accounted
  <2>2. Kept(u)
    BY <1>1, <2>1, NoCalls DEF AccountedFor
  <2>3. PICK k \in Lanes :
          /\ goose[u].lane = k /\ lanes[k].task = u /\ lanes[k].status # "completed"
          /\ u \in cancelling
    BY <1>1, <2>2 DEF Kept
  <2>4. k # l
    BY <1>2, <2>1, <2>3
  <2>5. \A c \in Calls : ~Starts(c)'
    BY <1>1, NoCalls DEF Starts
  <2> QED
    BY <1>1, <1>5, <2>1, <2>3, <2>4, <2>5 DEF Kept
<1>11. LaneTypeOK'
  BY <1>1, <1>4, <1>5 DEF IInv, LaneTypeOK, LeftBehind, Evolves
<1>12. QED
  BY <1>6, <1>7, <1>8, <1>9, <1>10, <1>11 DEF IInv

LEMMA CleanupEndsStep ==
    ASSUME IInv, CleanupEnds
    PROVE  IInv'
<1>1. /\ finder = "cleanup" /\ cancelling = {} /\ finder' = "over"
      /\ lanes' = [l \in Lanes |-> IF lanes[l].status = "running"
                                   THEN [lanes[l] EXCEPT !.status = "incomplete"]
                                   ELSE lanes[l]]
      /\ UNCHANGED <<gate, tasks, call, goose, lost, orphaned, allDone, cancelling>>
  BY DEF CleanupEnds
<1>2. \A l \in Lanes : /\ lanes'[l] \in Lane /\ lanes'[l].status # "running"
                       /\ lanes'[l].task = lanes[l].task
                       /\ lanes'[l].attempt = lanes[l].attempt
                       /\ lanes'[l].result = lanes[l].result
                       /\ lanes'[l].status = "completed" <=> lanes[l].status = "completed"
                       /\ lanes'[l].status = "pending" <=> lanes[l].status = "pending"
  <2> SUFFICES ASSUME NEW l \in Lanes
               PROVE  /\ lanes'[l] \in Lane /\ lanes'[l].status # "running"
                      /\ lanes'[l].task = lanes[l].task
                      /\ lanes'[l].attempt = lanes[l].attempt
                      /\ lanes'[l].result = lanes[l].result
                      /\ lanes'[l].status = "completed" <=> lanes[l].status = "completed"
                      /\ lanes'[l].status = "pending" <=> lanes[l].status = "pending"
    OBVIOUS
  <2>1. CASE lanes[l].status = "running"
    <3>1. lanes'[l] = [lanes[l] EXCEPT !.status = "incomplete"]
      BY <1>1, <2>1
    <3> QED
      BY <2>1, <3>1, GivenUp DEF IInv
  <2>2. CASE lanes[l].status # "running"
    <3>1. lanes'[l] = lanes[l]
      BY <1>1, <2>2
    <3> QED
      BY <2>2, <3>1 DEF IInv, LaneTypeOK, LeftBehind
  <2> QED
    BY <2>1, <2>2
<1>3. lanes' \in [Lanes -> Lane]
  BY <1>1, <1>2
<1>4. Working' /\ Gates' /\ Alone'
  BY <1>1, QuietCalls
<1>5. Births' /\ OneTaskPerAttempt' /\ Attempts'
  <2>1. Evolves
    BY <1>1, EvolvesStays DEF IInv
  <2>2. \A k \in Lanes : lanes[k].attempt \in 0..1
    BY LaneFields DEF IInv
  <2> QED
    BY <1>1, <1>2, <2>1, <2>2, EvolvesKeeps, AttemptsKept
<1>6. Held' /\ Ending'
  BY <1>1, <1>2 DEF IInv, Held, Ending
<1>7. Accounted'
  <2>1. ASSUME NEW t \in Tasks, goose[t].state = "running" PROVE t \in LeftBehind
    BY <1>1, <2>1, NoCalls DEF IInv, Accounted, AccountedFor, Kept
  <2> QED
    BY <1>1, <2>1 DEF Accounted, AccountedFor, LeftBehind
<1>8. LaneTypeOK'
  BY <1>1, <1>3 DEF IInv, LaneTypeOK, LeftBehind
<1>9. QED
  BY <1>4, <1>5, <1>6, <1>7, <1>8 DEF IInv

LEMMA TaskEndsStep ==
    ASSUME IInv, NEW t \in Tasks, TaskEnds(t)
    PROVE  IInv'
<1>1. /\ UNCHANGED <<lanes, gate, tasks, call, lost, orphaned, finder, allDone, cancelling>>
      /\ goose[t].state = "running"
  BY DEF TaskEnds
<1>2. PICK s \in {"done", "failed"} : goose' = [goose EXCEPT ![t].state = s]
  BY DEF TaskEnds
<1>3. Evolves
  <2>1. goose[t].lane # None
    BY <1>1 DEF IInv, Births
  <2> QED
    BY <1>2, <2>1, TaskEnded DEF IInv
<1>4. \A u \in Tasks : /\ goose'[u].lane = goose[u].lane /\ goose'[u].attempt = goose[u].attempt
                       /\ goose'[u].state = "running" => goose[u].state = "running"
  BY <1>3 DEF Evolves
<1>5. Births' /\ OneTaskPerAttempt' /\ Attempts'
  <2>1. \A k \in Lanes : lanes[k].attempt \in 0..1
    BY LaneFields DEF IInv
  <2> QED
    BY <1>1, <1>3, <2>1, EvolvesKeeps, AttemptsKept
<1>6. Held' /\ Ending' /\ Gates'
  BY <1>1 DEF IInv, Held, Ending, Gates
<1>7. \A c \in Calls : Starts(c)' = Starts(c) /\ Handles(c)' = Handles(c)
  BY <1>1 DEF Starts, Handles
<1>8. Alone'
  BY <1>1, <1>7 DEF IInv, Alone
<1>9. Working'
  <2> SUFFICES ASSUME NEW c \in Calls PROVE WorkingOf(c)'
    BY DEF Working
  <2>1. WorkingOf(c)
    BY DEF IInv, Working
  <2> QED
    BY <1>1, <1>4, <1>7, <2>1 DEF WorkingOf
<1>10. Accounted'
  <2> SUFFICES ASSUME NEW u \in Tasks, goose'[u].state = "running", u \notin LeftBehind
               PROVE  \/ \E d \in Calls : call[d].pc \in {"created", "entered"} /\ call[d].task = u
                      \/ Kept(u)'
    BY <1>1 DEF Accounted, AccountedFor, LeftBehind
  <2>1. /\ goose[u].state = "running" /\ goose'[u].lane = goose[u].lane /\ AccountedFor(u)
    BY <1>4 DEF IInv, Accounted
  <2>2. ASSUME Kept(u) PROVE Kept(u)'
    BY <1>1, <1>7, <2>1, <2>2 DEF Kept
  <2> QED
    BY <2>1, <2>2 DEF AccountedFor
<1>11. LaneTypeOK'
  BY <1>1, <1>3 DEF IInv, LaneTypeOK, LeftBehind, Evolves
<1>12. QED
  BY <1>5, <1>6, <1>8, <1>9, <1>10, <1>11 DEF IInv

-----------------------------------------------------------------------------
LEMMA InitIInv == LaneInit => IInv
<1> SUFFICES ASSUME LaneInit PROVE IInv
  OBVIOUS
<1>1. LaneTypeOK
  <2>1. [status |-> "pending", task |-> None, attempt |-> 0, result |-> None] \in Lane
    BY DEF Lane, Statuses
  <2>2. [state |-> "unborn", lane |-> None, attempt |-> 0] \in Task
    BY DEF Task
  <2>3. /\ lanes \in [Lanes -> Lane] /\ goose \in [Tasks -> Task] /\ call \in [Calls -> Call]
    BY <2>1, <2>2, IdleCall DEF LaneInit
  <2> QED
    BY <2>3 DEF LaneInit, LaneTypeOK, LeftBehind
<1>2. \A c \in Calls : /\ call[c].pc = "idle" /\ ~Starts(c) /\ ~Handles(c)
                       /\ call[c].pc \notin Looping
  BY IdleCall DEF LaneInit, Starts, Handles, Starting, Looping
<1>3. \A t \in Tasks : goose[t].lane = None /\ goose[t].state = "unborn" /\ tasks[t] = None
  BY DEF LaneInit
<1>4. \A l \in Lanes : lanes[l].status = "pending" /\ lanes[l].task = None
                       /\ lanes[l].attempt = 0 /\ lanes[l].result = None /\ gate[l] = None
  BY DEF LaneInit
<1>5. Births /\ Attempts /\ Held
  BY <1>3, <1>4 DEF Births, Attempts, Held
<1>6. Working /\ Gates /\ Alone
  BY <1>2, <1>4 DEF Working, WorkingOf, Gates, Alone
<1>7. Accounted /\ OneTaskPerAttempt
  BY <1>3 DEF Accounted, AccountedFor, OneTaskPerAttempt
<1>8. Ending
  BY DEF LaneInit, Ending
<1>9. QED
  BY <1>1, <1>5, <1>6, <1>7, <1>8 DEF IInv

LEMMA StutterStep ==
    ASSUME IInv, UNCHANGED laneVars
    PROVE  IInv'
<1>1. UNCHANGED <<lanes, gate, tasks, call, goose, lost, orphaned, finder, allDone, cancelling>>
  BY DEF laneVars
<1>2. LaneTypeOK' /\ Births' /\ Attempts' /\ Held' /\ Ending' /\ OneTaskPerAttempt' /\ Gates'
  BY <1>1 DEF IInv, LaneTypeOK, LeftBehind, Births, Attempts, Held, Ending, OneTaskPerAttempt, Gates
<1>3. Working' /\ Alone'
  BY <1>1 DEF IInv, Working, WorkingOf, Alone, Starts, Handles
<1>4. Accounted'
  BY <1>1 DEF IInv, Accounted, AccountedFor, LeftBehind, Kept, Starts
<1>5. QED
  BY <1>2, <1>3, <1>4 DEF IInv

LEMMA CallKeeps ==
    ASSUME IInv, NEW c \in Calls, CallStep(c)
    PROVE  IInv'
BY DelegateStep, GooseCreatesStep, EnterTaskStep, SetTaskStep, DelegateFailsStep, LoadStep,
   LockGateStep, ReturnSettledStep, AskStep, LoadCompletesStep, LoadRunningStep, LoadFailsStep,
   DropAndReplaceStep, CancelLaneStep
   DEF CallStep

(* The invariant holds in every state, wherever the calls are dropped and  *)
(* whatever Goose answers (review/delegation.rs).                          *)
THEOREM Invariance == LaneSpec => []IInv
<1>1. IInv /\ [LaneNext]_laneVars => IInv'
  <2> SUFFICES ASSUME IInv, [LaneNext]_laneVars PROVE IInv'
    OBVIOUS
  <2>1. CASE \E c \in Calls : CallStep(c)
    BY <2>1, CallKeeps
  <2>2. CASE \E t \in Tasks : TaskEnds(t)
    BY <2>2, TaskEndsStep
  <2>3. CASE StreamReplaced
    BY <2>3, StreamReplacedStep
  <2>4. CASE FinderStops
    BY <2>4, FinderStopsStep
  <2>5. CASE \E S \in SUBSET Lanes : RecoveryPoll(S)
    BY <2>5, RecoveryPollStep
  <2>6. CASE CleanupStep
    BY <2>6, CleanupAnswerStep, CleanupEndsStep DEF CleanupStep
  <2>7. CASE UNCHANGED laneVars
    BY <2>7, StutterStep
  <2> QED
    BY <2>1, <2>2, <2>3, <2>4, <2>5, <2>6, <2>7 DEF LaneNext
<1>2. QED
  BY InitIInv, <1>1, PTL DEF LaneSpec

(* A lane has at most one task for each attempt, however delegations,      *)
(* loads, failures and dropped calls interleave (replace,                  *)
(* delegation.rs:251).                                                     *)
THEOREM OneTask == LaneSpec => []OneTaskPerAttempt
<1>1. IInv => OneTaskPerAttempt
  BY DEF IInv
<1>2. QED
  BY Invariance, <1>1, PTL

(* Once the finder is over no lane runs, and a task still at work is one   *)
(* Goose never answered for (cleanup, delegation.rs:150).                  *)
THEOREM Cleaned == LaneSpec => []NothingRunsOn
<1>1. IInv => NothingRunsOn
  <2> SUFFICES ASSUME IInv, finder = "over" PROVE NothingRunsOn
    BY DEF NothingRunsOn
  <2>1. \A l \in Lanes : lanes[l].status # "running"
    BY DEF IInv, Ending
  <2>2. \A t \in Tasks : ~Kept(t)
    BY DEF IInv, Ending, Kept
  <2>3. \A t \in Tasks : goose[t].state = "running" => t \in LeftBehind
    BY <2>2, NoCalls DEF IInv, Accounted, AccountedFor
  <2> QED
    BY <2>1, <2>3 DEF NothingRunsOn
<1>2. QED
  BY Invariance, <1>1, PTL

(* What a step may do to a completed lane: nothing.                        *)
CompletedStay == \A l \in Lanes : lanes[l].status = "completed" => lanes'[l] = lanes[l]

(* What CompletedStay needs of a step that changes one lane.               *)
LEMMA OneLaneChanges ==
    ASSUME NEW l \in Lanes, lanes[l].status # "completed",
           \A k \in Lanes : k # l => lanes'[k] = lanes[k]
    PROVE  CompletedStay
BY DEF CompletedStay

LEMMA CompletedStep ==
    ASSUME IInv, [LaneNext]_laneVars
    PROVE  CompletedStay
<1>1. CASE lanes' = lanes
  BY <1>1 DEF CompletedStay
<1>2. lanes \in [Lanes -> Lane]
  BY DEF IInv, LaneTypeOK, LeftBehind
<1>3. ASSUME NEW c \in Calls, NEW l \in Lanes, Delegate(c, l) PROVE CompletedStay
  <2>1. lanes[l].status # "completed" /\ lanes' = [lanes EXCEPT ![l].status = "running"]
    BY <1>3 DEF Delegate
  <2> QED
    BY <1>2, <2>1, OneLaneChanges
<1>4. ASSUME NEW c \in Calls, SetTask(c) PROVE CompletedStay
  <2>1. Starts(c) /\ lanes' = [lanes EXCEPT ![call[c].lane].task = call[c].task]
    BY <1>4 DEF SetTask, Starts, Starting
  <2>2. call[c].lane \in Lanes /\ lanes[call[c].lane].status # "completed"
    BY <2>1, StartKnows
  <2> QED
    BY <1>2, <2>1, <2>2, OneLaneChanges
<1>5. ASSUME NEW c \in Calls, DelegateFails(c) \/ DropAndReplace(c) PROVE CompletedStay
  <2>1. (Starts(c) \/ Handles(c)) /\ ReplaceOrReturn(c)
    BY <1>5 DEF DelegateFails, DropAndReplace, Starts, Handles, Starting
  <2>2. call[c].lane \in Lanes /\ lanes[call[c].lane].status # "completed"
    BY <2>1, StartKnows, Handling
  <2>3. \A k \in Lanes : k # call[c].lane => lanes'[k] = lanes[k]
    BY <2>1, Replaces DEF Became
  <2> QED
    BY <2>2, <2>3, OneLaneChanges
<1>6. ASSUME NEW c \in Calls, LoadCompletes(c) \/ CancelLane(c) PROVE CompletedStay
  <2>1. /\ Handles(c)
        /\ \/ lanes' = Record(call[c].lane, call[c].task)
           \/ lanes' = [lanes EXCEPT ![call[c].lane].status = "incomplete"]
    BY <1>6 DEF LoadCompletes, CancelLane, Handles
  <2>2. call[c].lane \in Lanes /\ lanes[call[c].lane].status # "completed"
    BY <2>1, Handling
  <2>3. \A k \in Lanes : k # call[c].lane => lanes'[k] = lanes[k]
    BY <1>2, <2>1 DEF Record
  <2> QED
    BY <2>2, <2>3, OneLaneChanges
<1>7. ASSUME NEW t \in Tasks, CleanupAnswer(t) PROVE CompletedStay
  <2>1. t \in cancelling /\ (lanes' = lanes \/ lanes' = Record(tasks[t], t))
    BY <1>7 DEF CleanupAnswer
  <2>2. tasks[t] \in Lanes /\ lanes[tasks[t]].status # "completed"
    BY <2>1 DEF IInv, Ending, LaneTypeOK, LeftBehind
  <2>3. \A k \in Lanes : k # tasks[t] => lanes'[k] = lanes[k]
    BY <1>2, <2>1 DEF Record
  <2> QED
    BY <2>2, <2>3, OneLaneChanges
<1>8. ASSUME NEW S \in SUBSET Lanes, RecoveryPoll(S) PROVE CompletedStay
  BY <1>8 DEF RecoveryPoll, Overdue, CompletedStay
<1>9. CASE CleanupEnds
  BY <1>9 DEF CleanupEnds, CompletedStay
<1>10. \/ lanes' = lanes \/ CleanupEnds
       \/ \E S \in SUBSET Lanes : RecoveryPoll(S)
       \/ \E t \in Tasks : CleanupAnswer(t)
       \/ \E c \in Calls : \/ \E l \in Lanes : Delegate(c, l)
                           \/ SetTask(c) \/ DelegateFails(c) \/ DropAndReplace(c)
                           \/ LoadCompletes(c) \/ CancelLane(c)
  BY DEF LaneNext, CallStep, CleanupStep, laneVars, GooseCreates, EnterTask, Load, LockGate,
     ReturnSettled, Ask, LoadRunning, LoadFails, TaskEnds, StreamReplaced, FinderStops
<1>11. QED
  BY <1>1, <1>3, <1>4, <1>5, <1>6, <1>7, <1>8, <1>9, <1>10

(* A completed lane keeps its notes: no late failure, deadline,            *)
(* replacement or cancellation takes its result back (delegation.rs:354).  *)
THEOREM NotesStay == LaneSpec => CompletedIsFinal
<1>1. IInv /\ [LaneNext]_laneVars => [CompletedStay]_laneVars
  BY CompletedStep
<1>2. QED
  BY Invariance, <1>1, PTL DEF LaneSpec, CompletedIsFinal, CompletedStay

-----------------------------------------------------------------------------
(* The review agent.  Its invariant says how far a result can be relied on *)
(* where the review stands: past the finder every lane has been completed  *)
(* and a limit the finder met is in the artifact; past the verifier every  *)
(* candidate has a verdict, or the artifact says that it failed; a finished*)
(* review has the status of its artifact, which no later step changes.     *)

Concluded == outcome \in Statuses3
Delivered == stage \in {"verifier", "suppress", "adjudicate"} \/ Concluded

DoneLanes == allDone => finder # "running" /\ cancelling = {} /\ AllCompleted(lanes)

Stages ==
    /\ stage # "done" => outcome = "pending"
    /\ Delivered => ended = "ok" /\ allDone /\ (budgetHit => artifact.budget # "none")

Results ==
    /\ artifact.noFindings => artifact.findings = 0
    /\ \A f \in Ids : artifact.duplicates[f] # "stranger"
    /\ Concluded => outcome = Status

Decided ==
    /\ stage \in {"suppress", "adjudicate"} \/ Concluded
    /\ artifact.findings > 0 /\ ~artifact.verifierFailed
    => \A f \in Found : artifact.verdicts[f] # "none"

AgentInv == AgentTypeOK /\ DoneLanes /\ Stages /\ Results /\ Decided

(* Every step of the review is one of its lanes, or none.                  *)
LEMMA LaneSteps ==
    ASSUME AgentNext
    PROVE  [LaneNext]_laneVars
<1>1. CASE SkipReview \/ SetupFails \/ Charge
  BY <1>1 DEF SkipReview, SetupFails, Charge
<1>2. CASE StartFinder
  BY <1>2 DEF StartFinder, LaneNext
<1>3. CASE SubmitSummary \/ SubmitFinding \/ SubmitNoFindings
  BY <1>3 DEF SubmitSummary, SubmitFinding, SubmitNoFindings
<1>4. CASE FinderBudgetReached \/ Nudge \/ FinderStreamEnds \/ FinderStreamBreaks \/ FinderInterrupted
  BY <1>4 DEF FinderBudgetReached, Nudge, FinderStreamEnds, FinderStreamBreaks,
     FinderInterrupted, EndFinder, LaneNext
<1>5. CASE LaneStep
  BY <1>5 DEF LaneStep, LaneNext
<1>6. CASE Conclude
  BY <1>6 DEF Conclude, SaveIncomplete, NoResult, BuildArtifact
<1>7. CASE VerifierStep
  BY <1>7 DEF VerifierStep, Inspect, SubmitVerdict, VerifierBudgetReached, VerifierStreamEnds,
     VerifierStreamBreaks, VerifierFails
<1>8. CASE SuppressionStep
  BY <1>8 DEF SuppressionStep, Cancelled, NoSuppression, JevDecides, SubmitDuplicateDecision,
     AdjudicationRestarts, AdjudicationEnds
<1>9. QED
  BY <1>1, <1>2, <1>3, <1>4, <1>5, <1>6, <1>7, <1>8 DEF AgentNext, FinderStep

(* The finder works with its lanes as LaneRecovery says, so that all that  *)
(* is proved of them holds of the lanes of a review.                       *)
THEOREM AgentLanes == AgentSpec => LaneSpec
<1>1. AgentInit => LaneInit
  BY DEF AgentInit
<1>2. [AgentNext]_vars => [LaneNext]_laneVars
  BY LaneSteps DEF vars
<1>3. QED
  BY <1>1, <1>2, PTL DEF AgentSpec, LaneSpec

(* Once all lanes are completed nothing is left to change them.            *)
LEMMA DoneLanesStay ==
    ASSUME IInv, DoneLanes, [LaneNext]_laneVars
    PROVE  DoneLanes'
<1>1. CASE allDone
  <2>1. finder # "running" /\ cancelling = {} /\ AllCompleted(lanes)
    BY <1>1 DEF DoneLanes
  <2>2. AllCompleted(lanes')
    BY <2>1, CompletedStep DEF CompletedStay, AllCompleted
  <2>3. finder' # "running" /\ cancelling' = {}
    <3>1. \A c \in Calls : ~CallStep(c)
      BY <2>1, NoCalls DEF CallStep, Delegate, GooseCreates, EnterTask, SetTask, DelegateFails,
         Load, LockGate, ReturnSettled, Ask, LoadCompletes, LoadRunning, LoadFails,
         DropAndReplace, CancelLane
    <3>2. QED
      BY <2>1, <3>1 DEF LaneNext, TaskEnds, StreamReplaced, FinderStops, Stop, RecoveryPoll,
         CleanupStep, CleanupAnswer, CleanupEnds, laneVars
  <2>4. QED
    BY <2>2, <2>3 DEF DoneLanes
<1>2. CASE ~allDone
  <2>1. CASE allDone'
    <3>1. PICK view : Stop(view) /\ lanes' = view
      <4>1. \A c \in Calls : CallStep(c) => UNCHANGED allDone
        BY DEF CallStep, Delegate, GooseCreates, EnterTask, SetTask, DelegateFails,
           Load, LockGate, ReturnSettled, Ask, LoadCompletes, LoadRunning, LoadFails,
           DropAndReplace, CancelLane
      <4>2. FinderStops \/ \E S \in SUBSET Lanes : RecoveryPoll(S)
        BY <1>2, <2>1, <4>1 DEF LaneNext, TaskEnds, StreamReplaced,
           CleanupStep, CleanupAnswer, CleanupEnds, laneVars
      <4>3. QED
        BY <4>2 DEF FinderStops, RecoveryPoll
    <3>2. AllCompleted(lanes') /\ finder' = "cleanup" /\ cancelling' = OpenTasks(lanes')
      BY <2>1, <3>1 DEF Stop
    <3>3. cancelling' = {}
      BY <3>2 DEF OpenTasks, AllCompleted
    <3>4. QED
      BY <3>2, <3>3 DEF DoneLanes
  <2>2. QED
    BY <2>1 DEF DoneLanes
<1>3. QED
  BY <1>1, <1>2

-----------------------------------------------------------------------------
(* The types of the review.                                                *)

LEMMA ArtifactFields ==
    ASSUME NEW a \in Artifact
    PROVE  /\ a.summary \in BOOLEAN /\ a.findings \in 0..MaxFindings /\ a.noFindings \in BOOLEAN
           /\ a.verdicts \in [Ids -> Verdicts] /\ a.duplicates \in [Ids -> Duplicates]
           /\ a.budget \in {"none", "finder", "verifier"} /\ a.verifierFailed \in BOOLEAN
           /\ a.markdown \in BOOLEAN /\ a.failure \in BOOLEAN
BY DEF Artifact

LEMMA FoundIds == AgentTypeOK => Found \subseteq Ids /\ Accepted \subseteq Ids
BY ArtifactFields, AgentAssumption DEF AgentTypeOK, Found, Accepted, Ids

LEMMA StatusType == Status \in Statuses3
BY DEF Status, Statuses3

(* What is known of a conclusion, whatever it reports.                     *)
LEMMA ReportTypes ==
    ASSUME AgentTypeOK, NEW d \in [Ids -> Duplicates], Report(d)
    PROVE  /\ artifact' \in Artifact /\ stage' = "done" /\ inspected' = inspected
           /\ outcome' = Status' /\ outcome' \in Statuses3
           /\ artifact' = [artifact EXCEPT !.duplicates = d] /\ artifact'.duplicates = d
           /\ \A k \in DOMAIN artifact \ {"duplicates"} : artifact'[k] = artifact[k]
<1>1. artifact \in Artifact /\ artifact' = [artifact EXCEPT !.duplicates = d]
  BY DEF AgentTypeOK, Report
<1>2. artifact' \in Artifact /\ artifact'.duplicates = d
  BY <1>1 DEF Artifact
<1>3. Status' \in Statuses3
  BY DEF Status, Statuses3
<1>4. QED
  BY <1>1, <1>2, <1>3 DEF Report

LEMMA ValidatedType == AgentTypeOK => Validated \in [Ids -> Duplicates]
<1> SUFFICES ASSUME AgentTypeOK PROVE Validated \in [Ids -> Duplicates]
  OBVIOUS
<1>1. artifact.duplicates \in [Ids -> Duplicates] /\ drafts \in [Ids -> Duplicates]
        /\ "other" \in Duplicates
  BY ArtifactFields DEF AgentTypeOK, Duplicates
<1>2. QED
  BY <1>1 DEF Validated

(* What Jev decided: nothing but "same" and "other".                       *)
LEMMA JevDecisions ==
    ASSUME AgentTypeOK, JevDecides
    PROVE  \E decided \in [Ids -> Duplicates] :
             /\ \A f \in Ids : decided[f] # "stranger"
             /\ \/ (cost' = cost \/ cost' = 3) /\ Report(decided)
                \/ /\ artifact' = [artifact EXCEPT !.duplicates = decided]
                   /\ stage' = "adjudicate" /\ UNCHANGED <<inspected, cost, outcome>>
<1>1. PICK S \in SUBSET Accepted : \E decision \in [S -> {"same", "other"}] :
        LET decided == [f \in Ids |-> IF f \in S THEN decision[f] ELSE "none"] IN
        \/ /\ \/ S = Accepted /\ UNCHANGED cost
              \/ Budgeted /\ cost' = 3
           /\ Report(decided)
        \/ /\ S # Accepted
           /\ artifact' = [artifact EXCEPT !.duplicates = decided]
           /\ stage' = "adjudicate" /\ UNCHANGED <<inspected, cost, outcome>>
  BY DEF JevDecides
<1>2. PICK decision \in [S -> {"same", "other"}] :
        LET decided == [f \in Ids |-> IF f \in S THEN decision[f] ELSE "none"] IN
        \/ (cost' = cost \/ cost' = 3) /\ Report(decided)
        \/ /\ artifact' = [artifact EXCEPT !.duplicates = decided]
           /\ stage' = "adjudicate" /\ UNCHANGED <<inspected, cost, outcome>>
  BY <1>1
<1> DEFINE decided == [f \in Ids |-> IF f \in S THEN decision[f] ELSE "none"]
<1>3. decided \in [Ids -> Duplicates] /\ \A f \in Ids : decided[f] # "stranger"
  BY DEF Duplicates
<1>4. \/ (cost' = cost \/ cost' = 3) /\ Report(decided)
      \/ /\ artifact' = [artifact EXCEPT !.duplicates = decided]
         /\ stage' = "adjudicate" /\ UNCHANGED <<inspected, cost, outcome>>
  BY <1>2
<1> HIDE DEF decided
<1>5. QED
  BY <1>3, <1>4

LEMMA FinderTypes ==
    ASSUME AgentTypeOK, LaneTypeOK', FinderStep
    PROVE  AgentTypeOK'
<1>1. artifact \in Artifact
  BY DEF AgentTypeOK
<1>2. CASE SubmitSummary
  <2>1. artifact' \in Artifact
    BY <1>1, <1>2 DEF SubmitSummary, Artifact
  <2>2. QED
    BY <1>2, <2>1 DEF SubmitSummary, AgentTypeOK
<1>3. CASE SubmitFinding
  <2>1. artifact.findings + 1 \in 0..MaxFindings
    BY <1>1, <1>3, AgentAssumption, ArtifactFields DEF SubmitFinding
  <2>2. artifact' \in Artifact
    BY <1>1, <1>3, <2>1 DEF SubmitFinding, Artifact
  <2>3. QED
    BY <1>3, <2>2 DEF SubmitFinding, AgentTypeOK
<1>4. CASE SubmitNoFindings
  <2>1. artifact' \in Artifact
    BY <1>1, <1>4 DEF SubmitNoFindings, Artifact
  <2>2. QED
    BY <1>4, <2>1 DEF SubmitNoFindings, AgentTypeOK
<1>5. retries \in 0..MaxRetries /\ MaxRetries \in 0..MaxRetries
  BY AgentAssumption DEF AgentTypeOK
<1>6. CASE FinderBudgetReached \/ Nudge \/ FinderStreamEnds \/ FinderStreamBreaks \/ FinderInterrupted
  <2>1. retries' \in 0..MaxRetries
    BY <1>5, <1>6, AgentAssumption DEF FinderBudgetReached, Nudge, FinderStreamEnds,
       FinderStreamBreaks, FinderInterrupted, Restarted, Started
  <2>2. ended' \in {"no", "ok", "error", "timeout"} /\ nudged' \in BOOLEAN /\ budgetHit' \in BOOLEAN
    BY <1>6 DEF FinderBudgetReached, Nudge, FinderStreamEnds,
       FinderStreamBreaks, FinderInterrupted, EndFinder, AgentTypeOK
  <2>3. UNCHANGED <<stage, artifact, inspected, cost, leftover, drafts, outcome>>
    BY <1>6 DEF FinderBudgetReached, Nudge, FinderStreamEnds, FinderStreamBreaks, FinderInterrupted
  <2>4. QED
    BY <2>1, <2>2, <2>3 DEF AgentTypeOK
<1>7. CASE LaneStep
  BY <1>7 DEF LaneStep, AgentTypeOK
<1>8. QED
  BY <1>2, <1>3, <1>4, <1>6, <1>7 DEF FinderStep

LEMMA BuildTypes ==
    ASSUME AgentTypeOK, LaneTypeOK', Conclude
    PROVE  AgentTypeOK'
<1>1. artifact \in Artifact
  BY DEF AgentTypeOK
<1>2. CASE SaveIncomplete
  <2>1. artifact' \in Artifact
    BY <1>1, <1>2 DEF SaveIncomplete, Artifact
  <2>2. QED
    BY <1>2, <2>1 DEF SaveIncomplete, AgentTypeOK
<1>3. CASE NoResult
  BY <1>3 DEF NoResult, AgentTypeOK
<1>4. CASE BuildArtifact
  <2>1. artifact' \in Artifact
    <3>1. PICK m \in BOOLEAN, b \in {"none", "finder", "verifier"}, v \in BOOLEAN :
            artifact' = [artifact EXCEPT !.markdown = m, !.budget = b, !.verifierFailed = v]
      BY <1>1, <1>4, ArtifactFields, AgentAssumption DEF BuildArtifact, AgentTypeOK
    <3>2. QED
      BY <1>1, <3>1 DEF Artifact
  <2>2. retries' \in 0..MaxRetries /\ stage' \in {"verifier", "suppress"}
    BY <1>4, AgentAssumption DEF BuildArtifact
  <2>3. QED
    BY <1>4, <2>1, <2>2 DEF BuildArtifact, AgentTypeOK
<1>5. QED
  BY <1>2, <1>3, <1>4 DEF Conclude

LEMMA VerifierTypes ==
    ASSUME AgentTypeOK, LaneTypeOK', VerifierStep
    PROVE  AgentTypeOK'
<1>1. artifact \in Artifact /\ retries \in 0..MaxRetries
  BY DEF AgentTypeOK
<1>2. ASSUME NEW f \in Found, Inspect(f) PROVE AgentTypeOK'
  <2>1. inspected' \subseteq Ids
    BY <1>2, FoundIds DEF Inspect, AgentTypeOK
  <2>2. QED
    BY <1>2, <2>1 DEF Inspect, AgentTypeOK
<1>3. ASSUME NEW f \in Found, NEW v \in Verdicts \ {"none"}, SubmitVerdict(f, v) PROVE AgentTypeOK'
  <2>1. f \in Ids /\ artifact.verdicts \in [Ids -> Verdicts]
    BY <1>1, ArtifactFields, FoundIds
  <2>2. artifact' = [artifact EXCEPT !.verdicts = [artifact.verdicts EXCEPT ![f] = v]]
    BY <1>1, <1>3 DEF SubmitVerdict, Artifact
  <2>3. [artifact.verdicts EXCEPT ![f] = v] \in [Ids -> Verdicts]
    BY <2>1
  <2>4. artifact' \in Artifact
    BY <1>1, <2>2, <2>3 DEF Artifact
  <2>5. QED
    BY <1>3, <2>4 DEF SubmitVerdict, AgentTypeOK
<1>4. ASSUME NEW x \in BOOLEAN, EndVerifier(x) PROVE artifact' \in Artifact /\ stage' = "suppress"
  BY <1>1, <1>4 DEF EndVerifier, Artifact
<1>5. CASE VerifierBudgetReached
  <2>1. EndVerifier(TRUE)
    BY <1>5 DEF VerifierBudgetReached
  <2>2. artifact' \in Artifact /\ stage' = "suppress"
    BY <1>4, <2>1
  <2>3. QED
    BY <1>5, <2>2 DEF VerifierBudgetReached, AgentTypeOK
<1>6. CASE VerifierStreamEnds
  <2>1. artifact' \in Artifact /\ stage' \in {"verifier", "suppress"}
    BY <1>1, <1>4, <1>6 DEF VerifierStreamEnds
  <2>2. retries' \in 0..MaxRetries
    <3>1. UNCHANGED retries \/ Restarted
      BY <1>6 DEF VerifierStreamEnds
    <3>2. QED
      BY <1>1, <3>1, AgentAssumption DEF Restarted
  <2>3. QED
    BY <1>6, <2>1, <2>2 DEF VerifierStreamEnds, AgentTypeOK
<1>7. CASE VerifierStreamBreaks
  <2>1. retries' \in 0..MaxRetries
    BY <1>1, <1>7, AgentAssumption DEF VerifierStreamBreaks, Restarted
  <2>2. QED
    BY <1>7, <2>1 DEF VerifierStreamBreaks, AgentTypeOK
<1>8. CASE VerifierFails
  BY <1>8 DEF VerifierFails, AgentTypeOK
<1>9. QED
  BY <1>2, <1>3, <1>5, <1>6, <1>7, <1>8 DEF VerifierStep

LEMMA SuppressionTypes ==
    ASSUME AgentTypeOK, LaneTypeOK', SuppressionStep
    PROVE  AgentTypeOK'
<1>1. artifact \in Artifact /\ artifact.duplicates \in [Ids -> Duplicates] /\ retries \in 0..MaxRetries
        /\ 0 \in 0..MaxRetries
  BY ArtifactFields, AgentAssumption DEF AgentTypeOK
<1>2. CASE Cancelled
  BY <1>2 DEF Cancelled, AgentTypeOK
<1>3. CASE NoSuppression
  <2>1. artifact' \in Artifact /\ stage' = "done" /\ outcome' \in Statuses3 /\ inspected' = inspected
    BY <1>1, <1>3, ReportTypes DEF NoSuppression
  <2>2. QED
    BY <1>3, <2>1 DEF NoSuppression, AgentTypeOK
<1>4. CASE JevDecides
  <2>1. PICK decided \in [Ids -> Duplicates] :
          \/ /\ cost' = cost \/ cost' = 3
             /\ Report(decided)
          \/ /\ artifact' = [artifact EXCEPT !.duplicates = decided]
             /\ stage' = "adjudicate" /\ UNCHANGED <<inspected, cost, outcome>>
    BY <1>4, JevDecisions
  <2>3. CASE Report(decided) /\ (cost' = cost \/ cost' = 3)
    <3>1. artifact' \in Artifact /\ stage' = "done" /\ outcome' \in Statuses3
            /\ inspected' = inspected
      BY <2>3, ReportTypes
    <3>2. cost' \in Costs
      BY <2>3 DEF AgentTypeOK, Costs
    <3>3. QED
      BY <1>1, <1>4, <3>1, <3>2 DEF JevDecides, AgentTypeOK
  <2>4. CASE /\ artifact' = [artifact EXCEPT !.duplicates = decided]
             /\ stage' = "adjudicate" /\ UNCHANGED <<inspected, cost, outcome>>
    <3>1. artifact' \in Artifact
      BY <1>1, <2>4 DEF Artifact
    <3>2. QED
      BY <1>1, <1>4, <2>4, <3>1 DEF JevDecides, AgentTypeOK
  <2>5. QED
    BY <2>1, <2>3, <2>4
<1>5. ASSUME NEW f \in Found, NEW d \in Duplicates \ {"none"}, SubmitDuplicateDecision(f, d)
      PROVE  AgentTypeOK'
  <2>1. drafts' \in [Ids -> Duplicates]
    BY <1>5, FoundIds DEF SubmitDuplicateDecision, AgentTypeOK
  <2>2. QED
    BY <1>5, <2>1 DEF SubmitDuplicateDecision, AgentTypeOK
<1>6. CASE AdjudicationRestarts
  <2>1. retries' \in 0..MaxRetries
    BY <1>1, <1>6, AgentAssumption DEF AdjudicationRestarts, Restarted
  <2>2. QED
    BY <1>6, <2>1 DEF AdjudicationRestarts, AgentTypeOK
<1>7. CASE AdjudicationEnds
  <2>1. Report(Validated) \/ Report(artifact.duplicates)
    BY <1>7 DEF AdjudicationEnds
  <2>2. artifact' \in Artifact /\ stage' = "done" /\ outcome' \in Statuses3 /\ inspected' = inspected
    BY <1>1, <2>1, ReportTypes, ValidatedType
  <2>3. QED
    BY <1>7, <2>2 DEF AdjudicationEnds, AgentTypeOK
<1>8. QED
  BY <1>2, <1>3, <1>4, <1>5, <1>6, <1>7 DEF SuppressionStep

LEMMA AgentTypes ==
    ASSUME AgentTypeOK, LaneTypeOK', AgentNext
    PROVE  AgentTypeOK'
<1>1. CASE SkipReview \/ SetupFails
  BY <1>1 DEF SkipReview, SetupFails, AgentTypeOK
<1>2. CASE StartFinder
  <2>1. cost' \in Costs
    BY <1>2 DEF StartFinder, LaneSelectionSpends, SkillSpends, Costs
  <2>2. QED
    BY <1>2, <2>1 DEF StartFinder, AgentTypeOK
<1>3. CASE Charge
  <2>1. cost' \in Costs
    BY <1>3 DEF Charge, Costs, AgentTypeOK
  <2>2. QED
    BY <1>3, <2>1 DEF Charge, AgentTypeOK
<1>4. QED
  BY <1>1, <1>2, <1>3, FinderTypes, BuildTypes, VerifierTypes, SuppressionTypes DEF AgentNext

-----------------------------------------------------------------------------
(* What the steps of each phase do to the result.                          *)

(* A step that leaves the result alone.                                    *)
LEMMA QuietStep ==
    ASSUME AgentInv, AgentTypeOK', DoneLanes', UNCHANGED <<stage, artifact, outcome>>,
           Delivered => UNCHANGED <<ended, allDone, budgetHit>>,
           Concluded => UNCHANGED inspected
    PROVE  AgentInv'
<1>1. Stages'
  BY DEF AgentInv, Stages, Delivered, Concluded
<1>2. Concluded => Status' = Status
  BY DEF Status, Incomplete, Publishable, AlreadyReported, Accepted, Found
<1>3. Results' /\ Decided'
  BY <1>2 DEF AgentInv, Results, Decided, Concluded, Found
<1>4. QED
  BY <1>1, <1>3 DEF AgentInv

(* A review that ends without a report.                                    *)
LEMMA FailStep ==
    ASSUME AgentInv, AgentTypeOK', DoneLanes', stage' = "done",
           outcome' \in {"failed", "skipped"},
           UNCHANGED artifact \/ artifact' = [artifact EXCEPT !.failure = TRUE]
    PROVE  AgentInv'
<1>1. ~Concluded' /\ ~Delivered'
  BY DEF Concluded, Delivered, Statuses3
<1>2. /\ artifact'.noFindings = artifact.noFindings /\ artifact'.findings = artifact.findings
      /\ artifact'.duplicates = artifact.duplicates
  BY DEF AgentInv, AgentTypeOK, Artifact
<1>3. QED
  BY <1>1, <1>2 DEF AgentInv, Stages, Results, Decided

(* A step that starts or moves a phase on.                                 *)
LEMMA PhaseStep ==
    ASSUME AgentTypeOK', DoneLanes', outcome' = "pending",
           artifact'.noFindings => artifact'.findings = 0,
           \A f \in Ids : artifact'.duplicates[f] # "stranger",
           Delivered' => ended' = "ok" /\ allDone' /\ (budgetHit' => artifact'.budget # "none"),
           stage' \in {"suppress", "adjudicate"} => Decided'
    PROVE  AgentInv'
<1>1. ~Concluded'
  BY DEF Concluded, Statuses3
<1>2. QED
  BY <1>1 DEF AgentInv, Stages, Results, Decided

(* A report, from a phase past the verifier.                               *)
LEMMA ReportStep ==
    ASSUME AgentInv, AgentTypeOK', DoneLanes', stage \in {"suppress", "adjudicate"},
           NEW d \in [Ids -> Duplicates], Report(d), \A f \in Ids : d[f] # "stranger",
           UNCHANGED <<ended, allDone, budgetHit>>
    PROVE  AgentInv'
<1>1. /\ artifact \in Artifact /\ artifact' = [artifact EXCEPT !.duplicates = d]
      /\ stage' = "done" /\ outcome' = Status'
  BY DEF AgentInv, AgentTypeOK, Report
<1>2. /\ artifact'.noFindings = artifact.noFindings /\ artifact'.findings = artifact.findings
      /\ artifact'.duplicates = d /\ artifact'.budget = artifact.budget
      /\ artifact'.verdicts = artifact.verdicts
      /\ artifact'.verifierFailed = artifact.verifierFailed
  BY <1>1 DEF Artifact
<1>3. Delivered /\ (stage \in {"suppress", "adjudicate"})
  BY DEF Delivered
<1>4. Stages'
  BY <1>1, <1>2, <1>3 DEF AgentInv, Stages
<1>5. Results'
  BY <1>1, <1>2 DEF AgentInv, Results
<1>6. Decided'
  BY <1>2, <1>3 DEF AgentInv, Decided, Found
<1>7. QED
  BY <1>4, <1>5, <1>6 DEF AgentInv

(* The lanes' flag only changes in the finder.                             *)
LEMMA FinderStepKeeps ==
    ASSUME AgentInv, AgentTypeOK', DoneLanes', FinderStep
    PROVE  AgentInv'
<1>1. artifact \in Artifact
  BY DEF AgentInv, AgentTypeOK
<1>2. stage = "finder" /\ stage' = stage /\ outcome' = outcome
  BY DEF FinderStep, SubmitSummary, SubmitFinding, SubmitNoFindings, FinderBudgetReached, Nudge,
     FinderStreamEnds, FinderStreamBreaks, FinderInterrupted, LaneStep, Finding
<1>3. outcome = "pending" /\ ~Delivered /\ ~Concluded /\ ~Delivered'
  BY <1>2 DEF AgentInv, Stages, Delivered, Concluded, Statuses3
<1>4. CASE artifact' = artifact
  BY <1>2, <1>3, <1>4, QuietStep
<1>5. CASE SubmitSummary \/ SubmitFinding \/ SubmitNoFindings
  <2>1. /\ artifact'.noFindings => artifact'.findings = 0
        /\ artifact'.duplicates = artifact.duplicates
    <3>1. artifact.noFindings => artifact.findings = 0
      BY DEF AgentInv, Results
    <3>2. CASE SubmitSummary
      BY <1>1, <3>1, <3>2 DEF SubmitSummary, Artifact
    <3>3. CASE SubmitFinding
      BY <1>1, <3>3 DEF SubmitFinding, Artifact
    <3>4. CASE SubmitNoFindings
      BY <1>1, <3>4 DEF SubmitNoFindings, Artifact
    <3>5. QED
      BY <1>5, <3>2, <3>3, <3>4
  <2>2. \A f \in Ids : artifact'.duplicates[f] # "stranger"
    BY <2>1 DEF AgentInv, Results
  <2>3. QED
    BY <1>2, <1>3, <2>1, <2>2, PhaseStep
<1>6. QED
  BY <1>4, <1>5 DEF FinderStep, FinderBudgetReached, Nudge, FinderStreamEnds, FinderStreamBreaks,
     FinderInterrupted, LaneStep

LEMMA ConcludeKeeps ==
    ASSUME AgentInv, AgentTypeOK', DoneLanes', Conclude
    PROVE  AgentInv'
<1>1. artifact \in Artifact /\ stage = "finder" /\ outcome = "pending" /\ finder = "over"
  BY DEF AgentInv, AgentTypeOK, Stages, Conclude, SaveIncomplete, NoResult, BuildArtifact
<1>2. CASE SaveIncomplete
  BY <1>2, FailStep DEF SaveIncomplete
<1>3. CASE NoResult
  BY <1>3, FailStep DEF NoResult
<1>4. CASE BuildArtifact
  <2> DEFINE verify == VerifyFindings /\ artifact.findings > 0
             broke  == verify /\ Reached(3)
  <2>1. /\ stage' = IF verify /\ ~broke THEN "verifier" ELSE "suppress"
        /\ artifact' = [artifact EXCEPT
                      !.markdown = ~FinderComplete /\ leftover,
                      !.budget = IF broke THEN "verifier" ELSE IF budgetHit THEN "finder" ELSE @,
                      !.verifierFailed = artifact.findings > 0 /\ (~VerifyFindings \/ broke)]
        /\ ended = "ok" /\ allDone
        /\ UNCHANGED <<laneVars, budgetHit, ended, outcome>>
    BY <1>4 DEF BuildArtifact, StoppedEarly
  <2>2. /\ artifact'.budget = IF broke THEN "verifier" ELSE IF budgetHit THEN "finder"
                              ELSE artifact.budget
        /\ artifact'.verifierFailed = (artifact.findings > 0 /\ (~VerifyFindings \/ broke))
        /\ artifact'.noFindings = artifact.noFindings /\ artifact'.findings = artifact.findings
        /\ artifact'.duplicates = artifact.duplicates
    BY <1>1, <2>1 DEF Artifact
  <2>3. budgetHit' => artifact'.budget # "none"
    BY <2>1, <2>2
  <2>4. stage' \in {"suppress", "adjudicate"} => Decided'
    <3>1. stage' = "suppress" => artifact'.findings = 0 \/ artifact'.verifierFailed \/ ~(artifact'.findings > 0)
      BY <2>1, <2>2
    <3>2. ~(artifact'.findings > 0) \/ artifact'.verifierFailed => Decided'
      BY DEF Decided
    <3>3. QED
      BY <2>1, <2>2, <3>1, <3>2
  <2>5. allDone' /\ ended' = "ok" /\ outcome' = "pending"
    BY <1>1, <2>1 DEF laneVars
  <2>6. /\ artifact'.noFindings => artifact'.findings = 0
        /\ \A f \in Ids : artifact'.duplicates[f] # "stranger"
    BY <2>2 DEF AgentInv, Results
  <2>7. QED
    BY <2>3, <2>4, <2>5, <2>6, PhaseStep
<1>5. QED
  BY <1>2, <1>3, <1>4 DEF Conclude

(* As many verdicts as candidates are a verdict on each.                   *)
LEMMA CompleteDecides ==
    ASSUME AgentTypeOK, VerifierComplete
    PROVE  \A f \in Found : artifact.verdicts[f] # "none"
<1> DEFINE D == {f \in Found : artifact.verdicts[f] # "none"}
           n == artifact.findings
<1>1. n \in Nat /\ n > 0 /\ Found = 1..n
  BY ArtifactFields, AgentAssumption DEF AgentTypeOK, VerifierComplete, Found
<1>2. Cardinality(D) >= n
  BY DEF VerifierComplete
<1> HIDE DEF n
<1>3. IsFiniteSet(Found) /\ Cardinality(Found) = IF 1 > n THEN 0 ELSE n - 1 + 1
  BY <1>1, FS_Interval
<1>4. Cardinality(Found) = n
  BY <1>1, <1>3
<1>5. D \in SUBSET Found
  OBVIOUS
<1> HIDE DEF D
<1>6. /\ Cardinality(D) <= Cardinality(Found) /\ IsFiniteSet(D)
      /\ Cardinality(Found) = Cardinality(D) => Found = D
  BY <1>3, <1>5, FS_Subset
<1>7. Cardinality(D) \in Nat
  BY <1>6, FS_CardinalityType
<1>8. Found = D
  BY <1>1, <1>2, <1>4, <1>6, <1>7
<1>9. QED
  BY <1>8 DEF D

LEMMA EndVerifierKeeps ==
    ASSUME AgentInv, AgentTypeOK', DoneLanes', stage = "verifier", NEW x \in BOOLEAN, EndVerifier(x),
           UNCHANGED <<laneVars, budgetHit, ended, outcome>>
    PROVE  AgentInv'
<1>1. artifact \in Artifact /\ outcome' = "pending" /\ allDone' = allDone /\ Delivered
  BY DEF AgentInv, AgentTypeOK, Stages, Delivered, laneVars
<1>2. /\ artifact'.noFindings = artifact.noFindings /\ artifact'.findings = artifact.findings
      /\ artifact'.duplicates = artifact.duplicates /\ artifact'.verdicts = artifact.verdicts
      /\ artifact'.budget # artifact.budget => artifact'.budget = "verifier"
      /\ (artifact' = artifact /\ VerifierComplete) \/ artifact'.verifierFailed
  BY <1>1 DEF EndVerifier, Artifact
<1>3. Decided'
  BY <1>2, CompleteDecides DEF Decided, AgentInv, Found
<1>4. QED
  BY <1>1, <1>2, <1>3, PhaseStep DEF AgentInv, Stages, Results

LEMMA VerifierStepKeeps ==
    ASSUME AgentInv, AgentTypeOK', DoneLanes', VerifierStep
    PROVE  AgentInv'
<1>1. artifact \in Artifact /\ stage = "verifier" /\ outcome = "pending" /\ Delivered
  BY DEF AgentInv, AgentTypeOK, Stages, Delivered, VerifierStep, Inspect, SubmitVerdict,
     VerifierBudgetReached, VerifierStreamEnds, VerifierStreamBreaks, VerifierFails
<1>2. ~Concluded
  BY <1>1 DEF Concluded, Statuses3
<1>3. ASSUME NEW f \in Found, Inspect(f) PROVE AgentInv'
  BY <1>2, <1>3, QuietStep DEF Inspect, laneVars
<1>4. ASSUME NEW f \in Found, NEW v \in Verdicts, SubmitVerdict(f, v) PROVE AgentInv'
  <2>1. /\ artifact'.noFindings = artifact.noFindings /\ artifact'.findings = artifact.findings
        /\ artifact'.duplicates = artifact.duplicates /\ artifact'.budget = artifact.budget
    BY <1>1, <1>4 DEF SubmitVerdict, Artifact
  <2>2. stage' = "verifier" /\ UNCHANGED <<outcome, ended, allDone, budgetHit>>
    BY <1>1, <1>4 DEF SubmitVerdict, laneVars
  <2>3. QED
    BY <1>1, <2>1, <2>2, PhaseStep DEF AgentInv, Stages, Results
<1>5. CASE VerifierBudgetReached
  BY <1>1, <1>5, EndVerifierKeeps DEF VerifierBudgetReached
<1>6. CASE VerifierStreamEnds
  <2>1. CASE EndVerifier(FALSE)
    BY <1>1, <1>6, <2>1, EndVerifierKeeps DEF VerifierStreamEnds
  <2>2. CASE UNCHANGED <<stage, artifact>>
    BY <1>2, <1>6, <2>2, QuietStep DEF VerifierStreamEnds, laneVars
  <2>3. QED
    BY <1>6, <2>1, <2>2 DEF VerifierStreamEnds
<1>7. CASE VerifierStreamBreaks
  BY <1>2, <1>7, QuietStep DEF VerifierStreamBreaks, laneVars
<1>8. CASE VerifierFails
  BY <1>8, FailStep DEF VerifierFails
<1>9. QED
  BY <1>3, <1>4, <1>5, <1>6, <1>7, <1>8 DEF VerifierStep

(* The validated decisions name no comment that does not exist.            *)
LEMMA ValidatedExist ==
    ASSUME AgentTypeOK, Results
    PROVE  \A f \in Ids : Validated[f] # "stranger"
BY DEF Validated, Results

LEMMA SuppressionStepKeeps ==
    ASSUME AgentInv, AgentTypeOK', DoneLanes', SuppressionStep
    PROVE  AgentInv'
<1>1. artifact \in Artifact /\ stage \in {"suppress", "adjudicate"} /\ outcome = "pending" /\ Delivered
  BY DEF AgentInv, AgentTypeOK, Stages, Delivered, SuppressionStep, Cancelled, NoSuppression,
     JevDecides, SubmitDuplicateDecision, AdjudicationRestarts, AdjudicationEnds
<1>2. ~Concluded
  BY <1>1 DEF Concluded, Statuses3
<1>3. /\ artifact.duplicates \in [Ids -> Duplicates] /\ Validated \in [Ids -> Duplicates]
      /\ \A f \in Ids : artifact.duplicates[f] # "stranger"
      /\ \A f \in Ids : Validated[f] # "stranger"
  BY <1>1, ArtifactFields, ValidatedType, ValidatedExist DEF AgentInv, Results
<1>4. CASE Cancelled
  BY <1>4, FailStep DEF Cancelled
<1>5. CASE NoSuppression
  BY <1>1, <1>3, <1>5, ReportStep DEF NoSuppression, laneVars
<1>6. CASE JevDecides
  <2>1. PICK decided \in [Ids -> Duplicates] :
          /\ \A f \in Ids : decided[f] # "stranger"
          /\ \/ (cost' = cost \/ cost' = 3) /\ Report(decided)
             \/ /\ artifact' = [artifact EXCEPT !.duplicates = decided]
                /\ stage' = "adjudicate" /\ UNCHANGED <<inspected, cost, outcome>>
    BY <1>6, JevDecisions DEF AgentInv
  <2>2. UNCHANGED <<ended, allDone, budgetHit>>
    BY <1>6 DEF JevDecides, laneVars
  <2>3. CASE Report(decided)
    BY <1>1, <2>1, <2>2, <2>3, ReportStep
  <2>4. CASE /\ artifact' = [artifact EXCEPT !.duplicates = decided]
             /\ stage' = "adjudicate" /\ UNCHANGED <<inspected, cost, outcome>>
    <3>1. /\ artifact'.noFindings = artifact.noFindings /\ artifact'.findings = artifact.findings
          /\ artifact'.duplicates = decided /\ artifact'.budget = artifact.budget
          /\ artifact'.verdicts = artifact.verdicts
          /\ artifact'.verifierFailed = artifact.verifierFailed
      BY <1>1, <2>4 DEF Artifact
    <3>2. Decided'
      BY <1>1, <3>1 DEF AgentInv, Decided, Found
    <3>3. QED
      BY <1>1, <2>1, <2>2, <2>4, <3>1, <3>2, PhaseStep DEF AgentInv, Stages, Results
  <2>5. QED
    BY <2>1, <2>3, <2>4
<1>7. ASSUME NEW f \in Found, NEW d \in Duplicates, SubmitDuplicateDecision(f, d) PROVE AgentInv'
  BY <1>2, <1>7, QuietStep DEF SubmitDuplicateDecision, laneVars
<1>8. CASE AdjudicationRestarts
  BY <1>2, <1>8, QuietStep DEF AdjudicationRestarts, laneVars
<1>9. CASE AdjudicationEnds
  BY <1>1, <1>3, <1>9, ReportStep DEF AdjudicationEnds, laneVars
<1>10. QED
  BY <1>4, <1>5, <1>6, <1>7, <1>8, <1>9 DEF SuppressionStep

LEMMA InitAgentInv == AgentInit => AgentInv
<1> SUFFICES ASSUME AgentInit PROVE AgentInv
  OBVIOUS
<1>1. IInv
  BY InitIInv DEF AgentInit
<1>2. NoDecisions \in [Ids -> Verdicts] /\ NoDecisions \in [Ids -> Duplicates]
        /\ \A f \in Ids : NoDecisions[f] = "none"
  BY DEF NoDecisions, Verdicts, Duplicates
<1>3. /\ artifact \in Artifact /\ artifact.noFindings = FALSE /\ artifact.duplicates = NoDecisions
  BY <1>2, AgentAssumption DEF AgentInit, Artifact
<1>4. AgentTypeOK
  <2>1. LaneTypeOK
    BY <1>1 DEF IInv
  <2>2. 0 \in 0..MaxRetries /\ 0 \in Costs
    BY AgentAssumption DEF Costs
  <2>3. stage = "setup" /\ ended = "no" /\ outcome = "pending"
    BY DEF AgentInit
  <2>4. inspected \subseteq Ids /\ cost \in Costs /\ retries \in 0..MaxRetries /\ drafts \in [Ids -> Duplicates]
    BY <1>2, <2>2 DEF AgentInit
  <2>5. nudged \in BOOLEAN /\ budgetHit \in BOOLEAN /\ leftover \in BOOLEAN
    BY DEF AgentInit
  <2>6. QED
    BY <1>3, <2>1, <2>3, <2>4, <2>5 DEF AgentTypeOK
<1>5. ~Concluded /\ ~Delivered
  BY DEF AgentInit, Concluded, Delivered, Statuses3
<1>6. DoneLanes
  BY DEF AgentInit, LaneInit, DoneLanes
<1>7. QED
  BY <1>2, <1>3, <1>4, <1>5, <1>6 DEF AgentInv, AgentInit, Stages, Results, Decided

LEMMA StepAgentInv == IInv /\ IInv' /\ AgentInv /\ [AgentNext]_vars => AgentInv'
<1> SUFFICES ASSUME IInv, IInv', AgentInv, [AgentNext]_vars PROVE AgentInv'
  OBVIOUS
<1>1. CASE UNCHANGED vars
  <2>1. AgentTypeOK' /\ DoneLanes'
    BY <1>1 DEF AgentInv, AgentTypeOK, DoneLanes, LaneTypeOK, LeftBehind, vars, laneVars, agentVars
  <2>2. QED
    BY <1>1, <2>1, QuietStep DEF vars, laneVars, agentVars
<1>2. CASE AgentNext
  <2>1. AgentTypeOK'
    BY <1>2, AgentTypes DEF AgentInv, IInv
  <2>2. DoneLanes'
    BY <1>2, LaneSteps, DoneLanesStay DEF AgentInv
  <2>3. stage # "done" => ~Concluded
    BY DEF AgentInv, Stages, Concluded, Statuses3
  <2>4. CASE SkipReview \/ SetupFails
    BY <2>1, <2>2, <2>4, FailStep DEF SkipReview, SetupFails
  <2>5. CASE StartFinder
    <3>1. stage' = "finder" /\ UNCHANGED <<artifact, outcome>> /\ outcome = "pending"
      BY <2>5 DEF StartFinder, AgentInv, Stages
    <3>2. ~Delivered'
      BY <3>1 DEF Delivered, Concluded, Statuses3
    <3>3. QED
      BY <2>1, <2>2, <3>1, <3>2, PhaseStep DEF AgentInv, Results
  <2>6. CASE Charge
    BY <2>1, <2>2, <2>6, QuietStep DEF Charge, laneVars
  <2>7. QED
    BY <1>2, <2>1, <2>2, <2>4, <2>5, <2>6, FinderStepKeeps, ConcludeKeeps, VerifierStepKeeps,
       SuppressionStepKeeps DEF AgentNext
<1>3. QED
  BY <1>1, <1>2

(* The result of a review is earned in every state, however the agents     *)
(* behave and wherever they stop.                                          *)
THEOREM AgentInvariance == AgentSpec => []AgentInv
<1>1. AgentSpec => []IInv
  BY AgentLanes, Invariance, PTL
<1>2. QED
  BY <1>1, InitAgentInv, StepAgentInv, PTL DEF AgentSpec

(* Type correctness of the review, its lanes included.                     *)
THEOREM AgentTypesHold == AgentSpec => []AgentTypeOK
<1>1. AgentInv => AgentTypeOK
  BY DEF AgentInv
<1>2. QED
  BY <1>1, AgentInvariance, PTL

(* A review is reported clean only when every lane has completed, nothing  *)
(* was submitted as a candidate, and no limit cut the finder short         *)
(* (review.rs:2111, :2320).                                                *)
THEOREM Clean == AgentSpec => []CleanIsEarned
<1>1. AgentInv => CleanIsEarned
  <2> SUFFICES ASSUME AgentInv, outcome = "none"
               PROVE  /\ \A l \in Lanes : lanes[l].status = "completed"
                      /\ artifact.noFindings /\ artifact.findings = 0
                      /\ ~budgetHit /\ ended = "ok"
    BY DEF CleanIsEarned
  <2>1. Concluded /\ Delivered
    BY DEF Concluded, Delivered, Statuses3
  <2>2. Status = "none" /\ ended = "ok" /\ allDone /\ (budgetHit => artifact.budget # "none")
    BY <2>1 DEF AgentInv, Results, Stages
  <2>3. ~Incomplete /\ artifact.noFindings
    BY <2>2 DEF Status
  <2>4. AllCompleted(lanes)
    BY <2>2 DEF AgentInv, DoneLanes
  <2>5. QED
    BY <2>2, <2>3, <2>4 DEF AgentInv, Results, Incomplete, AllCompleted
<1>2. QED
  BY <1>1, AgentInvariance, PTL

(* Every candidate of a finished review that is not unverified is          *)
(* published on an approval after an inspection, or turned down by the     *)
(* verifier, or reported by a comment that exists (reporting.rs:112, :156, *)
(* review.rs:3127).                                                        *)
THEOREM Candidates == AgentSpec => []CandidatesAreAccountedFor
<1>1. AgentInv => CandidatesAreAccountedFor
  <2> SUFFICES ASSUME AgentInv, outcome \in Statuses3 \ {"unverified"}, NEW f \in Found
               PROVE  IF f \in Publishable
                      THEN artifact.verdicts[f] = "approve" /\ f \in inspected
                      ELSE \/ artifact.verdicts[f] = "reject"
                           \/ f \notin inspected
                           \/ artifact.duplicates[f] = "same"
    BY DEF CandidatesAreAccountedFor
  <2>1. Concluded /\ Status = outcome
    BY DEF Concluded, AgentInv, Results
  <2>2. ~Incomplete
    BY <2>1 DEF Status
  <2>3. f \in Ids /\ artifact \in Artifact
    BY FoundIds DEF AgentInv, AgentTypeOK
  <2>4. artifact.verdicts[f] # "none"
    <3>1. artifact.findings > 0
      BY <2>3, ArtifactFields, AgentAssumption DEF Found
    <3>2. QED
      BY <2>1, <2>2, <3>1 DEF AgentInv, Decided, Incomplete
  <2>5. artifact.verdicts[f] \in Verdicts /\ artifact.duplicates[f] # "stranger"
    BY <2>3, ArtifactFields DEF AgentInv, Results
  <2>6. CASE f \in Accepted
    BY <2>2, <2>5, <2>6 DEF Publishable, AlreadyReported, Accepted
  <2>7. CASE f \notin Accepted
    BY <2>2, <2>4, <2>5, <2>7 DEF Publishable, Accepted, Verdicts
  <2>8. QED
    BY <2>6, <2>7
<1>2. QED
  BY <1>1, AgentInvariance, PTL

=============================================================================
