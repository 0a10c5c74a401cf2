---------------------------- MODULE PollSubmitter ----------------------------
(***************************************************************************)
(* The daemon's poll submitter (PendingPollReviews, src/src/daemon.rs)     *)
(* beside the scheduler it submits to.  The poll loop of run_daemon puts   *)
(* each cycle's whole discovery in a watch channel; the submitter merges   *)
(* it with what it still holds, submits from the front, and when the       *)
(* scheduler is full waits for a new discovery or for capacity_changed.    *)
(* Other callers (HTTP requests, the issue worker) submit to the same      *)
(* scheduler at any time, never as retries.  Their constants, and the one  *)
(* that names jobs, keep instances small; Asks = all targets, Returning =  *)
(* all callers is the code's case.                                         *)
(***************************************************************************)
EXTENDS Scheduler

CONSTANTS
    Poller,      \* the submitter, one of Clients
    Discoveries, \* the discoveries a poll may end with: sequences of requests
    Asks,        \* what each other caller may ask for
    Returning,   \* other callers that ask again after an answer
    IdsOf        \* names for the jobs of each target, taken in order

Request == [target : Targets, retry : BOOLEAN]

ASSUME PollerAssumption ==
    /\ Poller \in Clients
    /\ Discoveries \subseteq Seq(Request)
    /\ Asks \in [Clients \ {Poller} -> SUBSET Targets]
    /\ IdsOf \in [Targets -> SUBSET (JobIds \cap Nat)]

VARIABLES
    found,   \* the value in the watch channel
    unseen,  \* the submitter has not taken that value yet
    pending, \* PendingPollReviews.requests
    poller   \* where PendingPollReviews::run is

pollVars == <<found, unseen, pending, poller>>
allVars == <<vars, pollVars>>

(* What the submitter holds is a sequence of requests. *)
PollTypeOK ==
    /\ TypeOK
    /\ found \in Seq(Request) /\ pending \in Seq(Request)
    /\ unseen \in BOOLEAN
    /\ poller \in {"refresh", "submit", "await", "select", "done"}

TargetsOf(s) == {s[i].target : i \in DOMAIN s}

First(s, t) == CHOOSE i \in DOMAIN s : s[i].target = t
                          /\ \A j \in 1..(i - 1) : s[j].target # t

Latest(d, t) == d[CHOOSE i \in DOMAIN d : d[i].target = t
                             /\ \A j \in DOMAIN d : d[j].target = t => j <= i]

(* refresh: what is discovered, each target with its latest request, and   *)
(* nothing else; a stable sort puts fresh requests before retries, and     *)
(* within a class deferred targets keep their order, before the new ones.  *)
Rank(held, d, t) == IF t \in TargetsOf(held) THEN First(held, t)
                                              ELSE Len(held) + First(d, t)

Precedes(held, d, r, q) ==
    \/ ~ r.retry /\ q.retry
    \/ r.retry = q.retry /\ Rank(held, d, r.target) < Rank(held, d, q.target)

IsMerge(requests, held, d) ==
    \A i, j \in DOMAIN requests : i < j => Precedes(held, d, requests[i], requests[j])

Merges(held, d) ==
    {requests \in SetToSeqs({Latest(d, t) : t \in TargetsOf(d)}) : IsMerge(requests, held, d)}

-----------------------------------------------------------------------------

(* The poll loop: a cycle replaces the value in the watch channel.         *)
Discover(d) ==
    /\ ~cancelled
    /\ poller # "done"
    /\ found' = d
    /\ unseen' = TRUE
    /\ UNCHANGED <<pending, poller, vars>>

Refresh ==
    /\ poller = "refresh"
    /\ pending' \in Merges(pending, found)
    /\ unseen' = FALSE
    /\ poller' = "submit"
    /\ UNCHANGED <<found, vars>>

SubmitFront ==
    /\ poller = "submit" /\ pending # <<>> /\ ~cancelled
    /\ \/ Submit(Poller, pending[1].target, pending[1].retry)
       \/ SubmitRefused(Poller)
    /\ poller' = "await"
    /\ UNCHANGED <<found, unseen, pending>>

SubmitDone ==
    /\ poller = "submit" /\ pending = <<>>
    /\ poller' = "select"
    /\ UNCHANGED <<found, unseen, pending, vars>>

(* run returns: what it held, and its end of the watch, is dropped.        *)
Return ==
    /\ poller' = "done"
    /\ found' = <<>> /\ unseen' = FALSE /\ pending' = <<>>

Answered ==
    /\ poller = "await" /\ ~cancelled
    /\ \/ /\ client[Poller] = "job"
          /\ pending' = Tail(pending)
          /\ poller' = "submit"
          /\ UNCHANGED <<found, unseen>>
       \/ /\ client[Poller] = "full"
          /\ poller' = "select"
          /\ UNCHANGED <<found, unseen, pending>>
       \/ client[Poller] = "closed" /\ Return
    /\ UNCHANGED vars

(* The biased select of run: the token, a discovery, freed capacity.       *)
SelectDiscovery ==
    /\ poller = "select" /\ ~cancelled
    /\ unseen
    /\ poller' = "refresh"
    /\ UNCHANGED <<found, unseen, pending, vars>>

SelectCapacity ==
    /\ poller = "select" /\ ~cancelled /\ ~unseen
    /\ pending # <<>>
    /\ permit \/ phase # "loop"
    /\ poller' = "submit"
    /\ permit' = IF phase = "loop" THEN FALSE ELSE permit
    /\ UNCHANGED <<found, unseen, pending, jobs, queue, active, byTarget, tasks,
                   terminal, channel, inHand, phase, cancelled, client>>

(* The submitter leaves at the token wherever it awaits; an answer still   *)
(* under way then goes to nobody.                                          *)
PollerStops ==
    /\ cancelled
    /\ \/ poller \in {"await", "select"}
       \/ poller = "submit" /\ pending # <<>>
    /\ Return
    /\ UNCHANGED vars

PollerStep == Refresh \/ SubmitFront \/ SubmitDone \/ Answered
                \/ SelectDiscovery \/ SelectCapacity \/ PollerStops

MayAsk(c) == client[c] = "none" \/ c \in Returning

(* Nothing compares ids, so which free one a new job takes is no choice of *)
(* the scheduler's: the lowest of its target's own.                        *)
TakesLowestId ==
    \A id \in DOMAIN jobs' \ DOMAIN jobs :
        LET own == IdsOf[inHand.target]
        IN  id \in own /\ \A j \in own \ DOMAIN jobs : id <= j

OtherStep ==
    /\ \/ \E c \in Clients \ {Poller} :
            MayAsk(c) /\ (SubmitRefused(c) \/ \E t \in Asks[c] : Submit(c, t, FALSE))
       \/ SchedulerStep /\ TakesLowestId
       \/ \E id \in JobIds : TaskEnds(id)
       \/ Cancel
    /\ UNCHANGED pollVars

PollInit ==
    /\ Init
    /\ found = <<>>
    /\ unseen = FALSE
    /\ pending = <<>>
    /\ poller = "refresh"

PollNext == (\E d \in Discoveries : Discover(d)) \/ PollerStep \/ OtherStep

PollSpec == PollInit /\ [][PollNext]_allVars

(* As for the scheduler: tasks of the runtime go on, reviews end.  Nothing *)
(* is asked of the poll loop, nor of other callers.                        *)
PollFairSpec ==
    /\ PollSpec
    /\ WF_allVars(PollerStep)
    /\ WF_allVars(SchedulerStep /\ TakesLowestId /\ UNCHANGED pollVars)
    /\ \A id \in JobIds : WF_allVars(TaskEnds(id) /\ UNCHANGED pollVars)

-----------------------------------------------------------------------------

(* No wakeup is lost: with deferred requests the submitter never waits for *)
(* ever, even if no further discovery arrives and other callers take the   *)
(* freed space (capacity_changed, scheduler.rs:272-279).  A refusal by the *)
(* queue is made good by the next dispatch (377), one by the channel by    *)
(* the Recv that makes room in it (429); each wakeup is needed.            *)
DeferredIsRetried ==
    (poller = "select" /\ pending # <<>>) ~> poller # "select"

(* The reason: while the submitter waits with deferred requests, or is     *)
(* about to, the scheduler owes it a wakeup.  A permit is stored, or the   *)
(* queue will shrink, or the channel is full and its next Recv will notify *)
(* (scheduler.rs:377, 429), whoever fills either again in the meantime.    *)
Deferring ==
    \/ poller = "select" /\ pending # <<>>
    \/ poller = "await" /\ client[Poller] = "full"

WakeupIsOwed ==
    Deferring /\ phase = "loop" =>
        \/ permit \/ queue # <<>> \/ Len(channel) = Capacity
        \/ inHand # NoSubmission /\ Len(channel) = Capacity - 1

=============================================================================
