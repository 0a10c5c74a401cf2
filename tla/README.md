# Verification of fiach

fiach reviews pull requests with language-model agents. Its daemon polls the
forge, queues reviews, runs each in a sandbox, publishes the findings and keeps
a durable record of what it reviewed. This directory holds TLA+ models of that
machinery, the TLC configurations that check them, and proofs for TLAPS. Paths
such as `scheduler.rs:432` are relative to `src/src/`; `README.md:30` is the
repository's own README.

    tlc -workers 2 -config SchedulerSafety.cfg MCScheduler.tla
    tlapm SchedulerProofs.tla

## 1. Inventory

| Component | State it keeps | Operations | Talks to |
|---|---|---|---|
| Review scheduler (`scheduler.rs`) | job table, queue, active ids, target index, finished ids, JoinSet, channel, capacity wakeup | submit, dispatch, join, evict, shutdown | every caller, by a channel with a reply; the handler of a job |
| Processing health (`scheduler.rs`) | recent attempts, degraded flag | record, snapshot | HTTP server |
| Poll loop (`daemon.rs` run_daemon) | none but a watch channel | discover, publish the discovery | forge, poll submitter |
| Poll submitter (`daemon.rs` PendingPollReviews) | deferred requests | refresh, submit, wait | watch channel, scheduler |
| Job processing (`daemon.rs` process_daemon_job) | local decisions | gates, decision, claim, execute, record | state store, forge, executor, finalizer |
| State store (`state.rs`) | records by pull request and by commit, disclosure journal, Buzz cursor and receipts | should_review, lock_for_review, mark_reviewed, begin/finish_disclosure, recover_interrupted, migration | job processing, finalizer, HTTP server, Buzz |
| Finalizer and disclosure (`finalizer.rs`, `disclose.rs`) | journal records, marked posts | finalize, find existing, publish | forge, state store |
| Workspace, sandbox, veth allocator (`workspace.rs`, `daemon.rs`, `process.rs`, `execution.rs`) | directories, child process, reserved subnets | prepare, adopt, run with hard timeout, clean up | git, systemd-nspawn |
| Review agent (`review.rs`, `lane_selection.rs`, `review/delegation.rs`) | phases, lanes and their attempts | finder, delegate/load/cancel with bounded recovery, verifier, adjudication | model provider, reporting tools |
| Reporting, deduplication (`reporting.rs`, `dedupe.rs`) | artifact under construction | submit finding, verify, render | agent |
| Model broker (`broker.rs`) | ledger, quarantine | check budget, forward, charge, shut down | sandbox, provider |
| Buzz (`buzz.rs`) | question cursor, receipts, threads | listen, answer, publish thread | relay, state store |
| Issue workflow (`issues/*.rs`) | issue records, iterations with a journalled push | triage, fix, push, reconcile, notice | forge, worker sandbox, scheduler |
| HTTP server (`server.rs`) | none | list, trigger, health | scheduler, state store |
| Forge adapters, configuration, CLI | none | requests, parsing | everything |

How they interact: the poll loop, the HTTP server and the issue worker are all
callers of one scheduler, which runs one job for each *target* (repository,
pull request, commit, review kind). A job works on the *record* of its pull
request and review kind, which it claims in one database transaction. Jobs of
several commits and a manual request (whose target names no commit) share that
record, so the claim, and not the scheduler, keeps two reviews of a pull
request apart. The finalizer journals its publication so that a crash between
the post and its receipt is recognised.

What is hard, and what makes each part correct:

* **Scheduler.** Five tables describe the same jobs, and submissions,
  completions, panics, eviction and shutdown update them in pieces. They must
  agree; a target must have one live job; callers must be answered; fresh work
  must not wait behind retries or forever.
* **Poll submitter.** It holds what a full scheduler refused, merges it with
  discoveries that keep coming, and sleeps on a wakeup that others cause. No
  wakeup may be lost, no request starved or reordered.
* **Record, claim and journal.** Decision, claim, review, post, receipt and
  result are separate steps; a crash, a failure, a lost answer, a push, a
  mention or another job may fall between any two. A claim must be kept while
  its review works and released afterwards; a commit gets one review; retries
  are budgeted; the head is reviewed in the end.
* **Issue workflow and iterations.** A trusted mention buys a coding run, its
  patch a branch and a draft pull request, and each fix command there a
  revision. Saves, pushes, posts and reads of the forge are separate steps; the
  daemon may die or a call fail at any of them, and people push, delete
  comments, edit and close meanwhile. A run must be paid for once, nobody's
  commit replaced, and what landed be recognised, reviewed and reported.
* **Review agent and its lanes.** A language model calls the tools, several at
  once, and its stream may be cut at any await, replaced or stopped by a
  deadline or a spent budget. A lane may cost two tasks at most, nothing may run
  on unnoticed, a finished result must stay, and neither missing lanes nor a
  lost candidate may look like a clean review.
* **Sandbox and broker.** A few subnets are shared by all containers and given
  back by guards on every path. The broker checks the budget when a request
  comes and charges it when the answer has streamed, so what comes between
  overshoots; its report is taken at the shutdown, while requests may be under
  way.
* **Buzz.** A thread is several messages and one receipt after the last; a
  question's answer and its receipt are two calls; the relay repeats and reorders
  events. Findings must not be sent twice once recorded, nor questions dropped.
* **Disclosure.** A report is combined with a file found earlier and force-pushed
  while people merge, close and reopen the pull request it belongs to, and a
  failed or interrupted finalization is run again.
* **Issue worker.** The host accepts a patch that agents made and checks it in
  sandboxes that may alter their copies; streams break and agents stop without a
  report. What is handed on must be what every check saw.
* **Triage.** A fix is authorized only by a comparison with every other item,
  which batches, limits, budgets, refusals and edits interrupt, and whose answers
  cost money.

`PROJECT.json` lists each of these hazards at its line with the properties
that would catch it.

## 2. Modules

| Module | Models |
|---|---|
| `Scheduler` | the scheduler task and its callers, one action per branch of `run_scheduler` |
| `ReviewBoard` | what the scheduler promises: a board with one entry per target |
| `PollSubmitter` | EXTENDS `Scheduler`: the poll submitter beside it and other callers |
| `ReviewLifecycle` | one pull request and review kind: record, jobs, publication, crashes |
| `Disclosure` | what finalizations leave on the pull request and in the sync repository |
| `LaneRecovery` | the lanes of a finder: delegation, loads, cancellation, deadline, cleanup |
| `ReviewAgent` | EXTENDS `LaneRecovery`: a whole review around it, from its checks to its result |
| `SandboxRun` | sandboxed jobs, their subnets and model brokers |
| `BuzzThreads` | the Buzz thread of a pull request, and the listener that answers questions in it |
| `IssueFix` | one issue with a trigger mention: the fix, its publication, the iterations of its pull request |
| `IssueWorker` | one coding run: agents, patch, checks and verifier |
| `IssueTriage` | one issue without a mention: classification, comparison, marking |
| `MCScheduler`, `MCPollSubmitter`, `MCReviewLifecycle`, `MCLaneRecovery`, `MCIssueTriage` | instances for TLC |
| `SchedulerProofs`, `ReviewLifecycleProofs`, `DisclosureProofs`, `ReviewAgentProofs`, `SandboxRunProofs`, `BuzzThreadsProofs`, `IssueFixProofs`, `AutoFixProofs` | theorems and proofs |

`ReviewLifecycle` is the frame of the others on the review side: its `Work` is
what `ReviewAgent` does inside what `SandboxRun` does, and its `Publish` is what
`Disclosure` details. `IssueFix` is the frame on the issue side: `StartFix` to
`VerifyFix` is a run of `IssueWorker`, and `IssueTriage` decides which issues
without a mention get there.

Operators named in a comment as *mutants* are wrong versions of the definition
that follows them. Each property of a passing run is violated when one of them
takes the place of the original; nothing else uses them.

### Scheduler

State: `jobs`, `queue`, `active`, `byTarget`, `tasks` (the JoinSet),
`terminal`, `channel`, `permit` (the Notify of `capacity_changed`) and
`cancelled` are the variables of `run_scheduler` and `SchedulerHandle`; `inHand`
is a submission between `recv` and its answer, `phase` the loop or the two
stages of shutdown, `client` what each caller waits for.

The actions follow the loop: `Dispatch` (the inner while), `CloseReceiver`,
`DrainChannel`, `AbortAll` (the three stages of the shutdown block, between
which callers can run), `Join`/`JoinPanicked` and `Recv` (the branches of the
biased select, so `Recv` only when no finished review waits), then exactly one
of `AnswerDuplicate`, `AnswerFull`, `Accept`. `Submit` and `SubmitRefused` are
`try_send`. A job id is any id no table mentions, since the code's counter
never repeats one and no behaviour depends on its value. Left out: timestamps,
error texts, `max_workers = 0`, and health, which only observes.

The dropped-response case is covered: the poll submitter may leave while its
answer is under way, and the answer is then written to a `client` entry nobody
reads.

### PollSubmitter

`found`/`unseen` are the watch channel, `pending` the deferred requests,
`poller` the await point of `PendingPollReviews::run`. `refresh` puts deferred
targets first and in order, each with its latest request, then the new ones,
and sorts by `is_retry`, stably. `Merges` says so by what the result is: the
latest request of each discovered target, in the order of `Precedes` (always
exactly one sequence). `SelectDiscovery`/`SelectCapacity`
keep the bias of the select. `capacity_changed` also returns when the scheduler
is gone. Other callers submit fresh requests at any time. Three constants only keep
instances small: `Asks` (what each of them may ask for), `Returning` (who asks
again after an answer) and `IdsOf` (which name a new job gets).

### ReviewLifecycle

`record` and `reviewed` are the two tables of reviews, `journal` the disclosure
journal, `posts` the marked reviews on the forge, `job[s]` the job of a target
(a commit, or the manual request), with `pc` between its awaits. Each database
transaction is a step, as is each call the forge's users can see. `Decision`
is `should_review_inner`, `Lock` is `lock_for_review`, `Stage` the checkout,
which takes the head *of that moment*, `Work` the review, then
`BeginDisclosure`, `FindExisting`, `Publish`, `FinishDisclosure`, `Complete`.
`ReviewFails` and `FinalizationFails` write the record as the error paths do;
`Publish` may post and yet fail (the answer is lost). `Crash` may come anywhere;
`Restart` is `recover_interrupted`. A graceful shutdown drops jobs at an await
point, which for the record is the same as a crash. `Panic` leaves the claim and
the target blocked, as `JoinPanicked` of `Scheduler` does.

Time counts units of the first retry delay (300 s) and advances only while a
claim, a delay or an awaited mention depends on it. The doubling of the delay is
a table (`Powers`), which the provers can reason about; its cap in the code is
72 units. Two assumptions shape it:
a job holds its claim no longer than `ReviewLimit`, and a job acts on what it
read from the record within a unit (only database calls lie between). `OnTime`,
`SkipsAlone` and their conjunction `Undisturbed` name what the claims of this
module rest on and the code does not enforce (section 5).

Left out: the pull request stays open and its findings go to a pull request
review; reactions, Buzz threads and reports; database errors; the author gate
and `skip_prs` (whose skip path is that of `Backport`); the jitter and the
migration of retry dates; the retry count of finished records, which nothing
reads; eventual consistency of the forge's history.

### IssueFix

`record` and `iter` are the two entries the issue store keeps
(`issue_workflow_v1`, `issue_pr_iterations_v1`); `rec` and `mem` the same values
in the memory of a pass, `look` what it read of the forge, `pc` its await point.
A pass over the issue (`StartPass` to `EndPass`) is `iterations::process`
followed by the rest of `workflow::process`. A call to the forge is a step
together with the computation and the saves up to the next call; a call that
changes the forge and the save that records it are two steps.

Iterations: `FetchPr` reads and reconciles, `CheckNotice`, `PostNotice`,
`SaveNotice` are `publish_notice` (also after an attempt), `RequestReview` is
`GeneratedReviewQueue::submit`, `ReadCommand` consumes a command and saves the
attempt, then `StartRevision`, `EndRevision`, `Recheck` (which commits and
journals), `PushRevision`, `SavePush`; `AttemptFails` and `ReportFailure` are
the error path of `process`. The issue: `ReadTrigger`, `ResumePublication` (a
journalled publication found at the start of a pass), `ReadIssue`, `Authorize`,
`StartFix`, `EndFix`, `VerifyFix`, `CreateBranch`, `OpenPr`, `Track`,
`ClearPublication`, `Mark`.

A commit is a number; its parent is what it was built on and its author says
whether it is somebody else's, the first fix, or the revision of a command.
`investigated`, `ran`, `landed` and `prs` are history the properties need.
`Interrupted` is a call that fails, or the death of the daemon (which also
empties the scheduler), at any await. People mention, command, delete comments,
edit, close and reopen, make a pull request of the branch, and push.

Triage, coverage, the moves of the default branch and the answers of the worker
are choices: wherever the code may refuse for such a reason, the model may too.
Left out: everything without a trigger mention (so the retry delay of a failed
triage, which mentions bypass), configurations in which publishing, fixing or
iterations are off, the reaction that acknowledges a mention, the text of labels
and comments, feedback other than commands (its change is one of the failures of
an attempt), several review personas, resets and deletions of the branch by
people, and a push that lands after the daemon that made it has died.

### Disclosure

`live` is the reviewed pull request, `posts` the marked reviews on it; `base`,
`branch` and `pull` are the report file on the base branch and on the report
branch of the sync repository, and the pull request between them; `receipts` is
`DISCLOSURE_STATE`. A report is the number of the run that wrote it and a file a
sequence of reports, so `combine_reports` is a concatenation. A finalization
(`run`) takes the mode, `notify_on_empty` and the kind of persona as the code
does, begins its receipt (`begin_disclosure`), looks for an earlier post when it
recovers, checks that the pull request is open, posts, or finds the sync pull
request, checks out its branch (or the base), pushes by force, looks again and
creates it, and ends the receipt. Each call is a step; any may fail, be done
with its answer lost, or die. `People` merge, dismiss and reopen.

Left out: several pull requests and personas in one sync repository (each has a
file and a branch of its own), rendering, and the plain reports without an
artifact.

### LaneRecovery

`lanes`, `tasks` and `gate` are the tables and the mutex per lane of `Recovery`;
`goose` is Goose's own table of tasks; `call` holds the tool calls under way,
each at the await it has reached. `Delegate`, `GooseCreates`, `EnterTask` and
`SetTask` start a lane; `Load` and `LockGate` enter the loop of a load, whose
answers (`LoadCompletes`, `LoadRunning`, `LoadFails`, `DropAndReplace`,
`CancelLane`) record a result, wait, replace or cancel; `TaskEnds` is a task
that finishes whenever it likes. `StreamReplaced` drops every call at its await;
`FinderStops` and `RecoveryPoll` (the deadline poll) end the phase,
`CleanupStep` cancels the tasks the lanes name. `lost` and `orphaned` are history:
tasks a dropped call left before their start was confirmed, or their cancel
unconfirmed (`lost`), and tasks one had entered in the task table when it was
dropped before it set the lane (`orphaned`; `delegation.rs:225`). Any answer of Goose may be an
error. What a coordinator asks for is left open. Left out: the wording of
answers, and time (a wait that expires is a choice).

### ReviewAgent

The stages of `run_review`: state check and set-up, finder, verifier,
suppression of duplicates, result. `artifact` is the reporting artifact and
`SubmitSummary`, `SubmitFinding`, `SubmitNoFindings`, `SubmitVerdict` and
`SubmitDuplicateDecision` the tools that fill it; `cost` knows the
three thresholds the code compares with; `retries`, `nudged` and `budgetHit` are
the loop around the reply stream; `ended` is how the finder's future ended,
`drafts` the duplicate decisions of the resumed coordinator, and `outcome` what
the caller gets. The finder runs `LaneRecovery`'s steps. Its tools may be called
at any time and in any order. Left out: prompts, skills, the context of earlier
reviews, field validation and anchors.

### SandboxRun

For each job, `job` is where the host is between root directory, reservation of
a subnet, broker, spawn, link and end; every early return and drop runs the
guards it has acquired. `active` is the global `ACTIVE_VETH_SUBNETS` and
`FirstFree` its linear probing. A broker takes a request (`Admit`, which reads
it and checks budget and quarantine), looks for canaries, sends and streams, and
charges when the stream ends or is dropped. `Finish` shuts it down and takes the
report, after its requests have ended or after five seconds of grace (`late`).
Left out: which addresses a subnet has, headers and bodies, the local executor
without a sandbox.

### BuzzThreads

`thread` is the thread stored with the record, `pub` a publication between its
messages, `posts` the relay; `cursor` and `receipt` are the two tables of
questions, `listener` the loop with the events it has received. `Subscribe`
replays whatever is not older than the cursor less one second (`Since`); events
come in any order; `Skip`, `Ignore` and `Answer` handle one, `SendReply` and
`RecordAnswer` are the two calls of an answer. Left out: signatures, allow
lists, texts, and publications of other personas, which have threads of their
own.

### IssueWorker

`host` is where `fix_at` is; `checkout` the host's tree, `box` the sandbox of
the phase with the agent in it, `evidence` what checks said of which trees. A
tree is the set of files in which it differs from the base. The phases are code,
the tests alone, the patched tree, earlier checks, verifier. In a box the agent
edits, reports (a report is final), stops, or loses its connection, and is
resumed within two budgets; `AcceptPatch` and `RefusePatch` are the checks on
what came back. Left out: cloning, the dependency cache, the deadline's value.

### IssueTriage

`world` holds version numbers of the issue and the other items; `answers` is the
cache of judgements under keys of their evidence, `record` the issue's record,
`marked` its labels and comment. A pass takes the inventory, reads, classifies,
screens in batches (`TakeBatch`, `Split`, `Unaffordable`, `RejectedAlone`),
investigates one by one, decides, checks the issue again, marks and commits. Jev
and GitHub may ask for a pause, any call may fail, people edit at any time. Left
out: areas and labels beyond the route, several issues competing for the budget.

## 3. Runs

| Run | Question | Bounds and why they suffice |
|---|---|---|
| SchedulerSafety | has a target one live job, whatever interleaves, panics or stops; does the scheduler implement `ReviewBoard`? | 2 callers, 4 targets, 5 ids, 1 worker, channel and queue of 2, one finished job kept: a fourth target finds one review running and two queued, so duplicates, a full queue, a full channel, eviction and a panic happen together; ids, targets and callers are symmetric, and every property of the run is a safety property that treats them alike |
| PollShared | is a submitter refused by the channel or by the queue woken although others take the space, and every caller answered? | channel and queue of 2, two other callers, 4 targets: one runs, two wait, the fourth finds the queue full (`AnswerFull`), and three callers can fill the channel, so the wakeups of the receive and of the dispatch are each needed. With a capacity of 1 every receive finds the channel full and notifies, which would hide a lost wakeup of the dispatch. Each other caller asks once, for the fresh target of the discovery or one of its own; jobs are named in order; 586 thousand states |
| LifecycleLive | is a claim kept, is there one post for a commit, are retries budgeted, and is the head reviewed or out of retries in the end? | 2 commits, polled and generated jobs, 1 retry, a failure, a crash, a panic |
| LifecycleMention | is a mention followed by a review that begins after it? | a backport, 2 mentions, a manual request, 2 failures, a crash, 1 retry |
| Disclosure | is every reported finding kept, in order, and is a commit reviewed once? | every mode; 3 finalizations of 2 commits, so a third may find what two others left; 3 acts of people (merge, dismiss, reopen or close) and a fault at any step; 1.2 million states |
| LaneRecovery | is a lane worked on once for each attempt, does anything run on, are results kept? | 2 lanes, 2 overlapping calls, 3 tasks: a lane's two attempts and another lane's task; lanes, calls and tasks are symmetric |
| ReviewAgent | is a clean result earned, is every candidate accounted for, does a review end? | a lane, a call and a task (their overlap is the run before), 2 candidates, 1 retry, a budget, a verifier |
| SandboxRun | are subnets apart, how far is the budget overshot, is the report final, does every job end? | 2 jobs and 2 subnets, so that one reservation finds the other; 2 connections, limit 2, charges 0 or 1: both may pass the check at the limit |
| BuzzThreads | is what is recorded delivered, and not repeated; is every question settled? | 2 findings, 2 questions at 2 times, 2 channels, 2 reviews, a failed call and a crash |
| IssueFix | is a run paid for once, is nobody's commit replaced, is what landed journalled, reviewed and truthfully reported? | 2 mentions, 2 commands, 1 attempt, one act of somebody else, one crash or failed call: the second command meets the spent budget, and a crash or a failure falls at every step of either half. The safety part also passes with 2 acts and 2 faults (5.0 million states) and with 2 attempts and 3 commands |
| IssueWorker | was what is handed on proved to the host, does reported work stand, does every run end? | all kinds, a file of each sort the patch checks tell apart (test, source, toolchain, lock, hidden), 2 earlier checks, 1 retry and 1 recovery (each budget is spent and exceeded) |
| IssueTriage | does a fix rest on a complete comparison, is handled evidence marked, is a judgement final, does the issue settle? | a pull request and a newer issue, batches of both, every combination of sizes (small, dense, huge), a budget of 3 comparisons that one pass cannot finish with, one investigation for each pass, one edit, one fault |

Deadlock is not checked: a stopped scheduler, a pull request with nothing left
to do, a job or review that is over are meant to stop.

**Fairness.** Weak fairness of the scheduler task and of the submitter: the
runtime runs tasks that are ready. Weak fairness of the end of each review: the
hard timeout kills it (`daemon.rs:1893`). Weak fairness of polling, of restarts
(the service manager) and of time. In `IssueFix` and `IssueTriage`, weak
fairness of the pass as a whole: the watch loop starts another after each
interval, visits the issues in turn (`workflow.rs:285`), and its calls return or
fail; pauses and delays end. In `ReviewAgent`, of the host's own steps and of
the ends of phases, which each have a timeout; nothing obliges an agent to do
anything. In `SandboxRun`, of the host with each job, the kill at the timeout
included. In `BuzzThreads`, of the listener: it reconnects by itself
(`buzz.rs:133`) and its requests return or fail. In `IssueWorker`, of worker and
host, without the kill: the budgets alone must end a run. Nothing obliges a
caller to submit, a user to push or mention, or anyone to cancel, and nothing
prevents failures except the bounds on their number.

**What the liveness runs say exactly.** A retry may wait forever behind steady
fresh work, as designed; with other callers the code promises a deferred request
no more than `DeferredIsRetried`, another attempt. `HeadEventuallySettled`
excuses a head blocked by a panicked job, because the code leaves its target
blocked until the daemon restarts (`scheduler.rs:408`). `LandedIsReported`
excuses an issue people have taken out of the host's hands (`OutOfHands`:
closed, or its branch or pull request changed). `QuestionsAreSettled` excuses a
question the cursor has passed. `MentionIsReviewed` starts from a mention that is
newer than a record nobody has claimed, and asks for a review that begins after
it; that an older review ends or a restart dates the record anew does not count.
It excuses a manual request about to write a skip (`SkipInTheWay`): the record it
leaves is newer than the mention. `EveryCallerAnswered` says of each caller that
again and again it is not waiting. `IssueSettles` excuses a closed issue and one
whose request Jev refuses for good.

## 4. Properties

* *Refinement.* `ImplementsBoard`: under the mapping `board`, from the target
  index and the statuses to one entry per live target, every step of the
  scheduler is a step of `ReviewBoard` or a stutter.
* *Safety.* `OneLiveJobPerTarget`, `DuplicateSeesLiveJob`, `ClaimIsHeld`,
  `AtMostOnePost`, `NothingIsLost`, `NewestFirst`, `OneReviewPerCommit`,
  `OneTaskPerAttempt`, `NothingRunsOn`, `CleanIsEarned`,
  `CandidatesAreAccountedFor`, `SandboxesAreApart`, `OvershootIsBounded`,
  `RunsArePaidOnce`, `JournalKnowsTip`, `ReviewIsOwed`, `StatusIsTrue`,
  `FixIsProved`, `DecisionIsBacked`, `CommittedIsMarked`.
* *Action properties.* `QueueIsFair`, `RetriesAreBudgeted`, `CompletedIsFinal`,
  `ReportIsFinal`, `DeliveredIsNotRepeated`, `ReceiptIsFinal`, `PushesExtend`,
  `ReportedWorkStands`, `JudgmentsAreFinal`.
* *Liveness.* `DeferredIsRetried`, `EveryCallerAnswered`,
  `HeadEventuallySettled`, `MentionIsReviewed`, `ReviewEnds`, `JobsEnd`,
  `QuestionsAreSettled`, `LandedIsReported`, `FixEnds`, `IssueSettles`.

Proved, and so left out of the runs: the type invariants of all modules (by a
theorem of their own or within the inductive invariant), `StatusTellsTheTruth`,
`CallerIsHeard`, `WakeupIsOwed`, `OneLiveReview`, `OnePullRequest`,
`OneStatusPerCommand`, `ThreadIsAsRecorded`, `SecretsFailTheJob`, `ReportIsKept`.

Each is explained where it is defined.

## 5. Proofs

**SchedulerProofs**, from `SchedulerAssumption` (the constants are positive and
outcomes are those of the code) and, for the poll submitter, `PollerAssumption`
(it is one of the callers, and a discovery is a sequence of requests), for any
callers, targets, ids, workers and capacity:

* `Invariance`: `Spec => []IInv`, with `IInv == TypeOK /\ Tables`.
* `TypeCorrect`, `OneLiveJob`, `TruthfulStatus`, `LiveDuplicates`: `[]TypeOK`,
  `[]OneLiveJobPerTarget`, `[]StatusTellsTheTruth`, `[]DuplicateSeesLiveJob`.
* `QueueOrdered`, `NoOvertaking`: `[]Order`, and from it the action property
  `QueueIsFair`.
* `Refinement`: `Spec => ImplementsBoard`.
* `CallersAreHeard`: `[]CallerIsHeard`.
* `PollInvariance`, `WakeupOwed`, `PollRefinement`, `PollCallersAreHeard`: beside
  the submitter, `[]PollInv`, `[]WakeupIsOwed`, `ImplementsBoard` and
  `[]CallerIsHeard`.

None of the first four is inductive. `Tables` adds what the code relies on without
saying so: the queue holds no id twice; every task is of an active job; every
live job is the one its target points at; and, until shutdown, the finished
list holds only finished jobs, once each (else eviction could remove a live
one). The proof has a lemma
for each action; the steps that change several tables (`Dispatch`, `Join`,
`Accept`, `CloseReceiver`, `AbortAll`) are split along the conjuncts of
`Tables`. `InsertAtProperties` says what an insertion does to a sequence.

`Order` (first attempts stand before retries, and a scheduler that has stopped
taking jobs has an empty queue) is what the refinement needs besides: with it
the queue's head is a retry only when no fresh entry is on the board, so that
`Dispatch` is a step of the board. The proof goes action by action, each to one
action of `ReviewBoard` or to a stutter.

`CallerIsHeard` is the safety half of `EveryCallerAnswered`: who waits has one
submission in the channel or in hand, and nobody waits for a scheduler that has
stopped. Its invariant `Calls` says the converse, too (what the channel holds is
waited for, once for each caller), and that shutdown ends with an empty channel.

`WakeupIsOwed` is the safety half of `DeferredIsRetried`. While the submitter
waits with deferred requests, or is about to, and the scheduler runs, a permit
is stored, or the queue is not empty (so that it will shrink, which notifies), or
the channel is full or was full until the submission now in hand was received
(which notifies too). It is inductive because a submission is refused only when
one of the two is full, and whoever fills them again owes the next notification.
That the latest request of a target exists (`LatestType`) is shown by
well-founded descent.

**ReviewLifecycleProofs**, for any number of commits, retries, crashes, panics,
failures and mentions:

* `LifecycleTypes`: `Spec => []TypeOK`, without condition.
* `LifecycleInvariance`, `ClaimKept`, `SingleReview`, `SinglePost`:
  `Spec /\ []Undisturbed => []LInv`, `[]ClaimIsHeld`, `[]OneLiveReview`,
  `[]AtMostOnePost`.
* `RetriesStayBudgeted`: `Spec /\ []Undisturbed => RetriesAreBudgeted`.
* `UndisturbedInstances`: `Spec => []Undisturbed` where
  `ReviewLimit <= StaleAfter` and `~Backport`, the case of `LifecycleLive`.

`Undisturbed` is a condition on behaviours, and both of its halves say something
about the code, which enforces neither. `OnTime`: a review gives up its claim
before others may call it stale. That is what `claim_stale_after_secs` is for
(`review.rs:462`), but the clone, the copy of the root file system and the
finalization are outside the hard timeout (`daemon.rs:1893`). `SkipsAlone`: no
job is about to write a skip while a review is at work; the skip path reads the
record and overwrites it in another transaction (`daemon.rs:1000`), and so can
overwrite a live claim. In a behaviour where either fails the code can lose a
claim and start a second review, and the theorems say nothing. Backports and
long reviews are allowed as long as neither happens.
`LInv == TypeOK /\ Claims /\ Posted`. `Claims` adds to the claim of a review its
age: no review at work is older than `ReviewLimit`, so `Lock` never finds its
claim stale. `Posted` adds that a commit without a journal record has no post,
and that a job about to publish, or in its history check without recovering,
works on a commit without a post; so whoever may post without a look at the
history posts first.

The retry count is checked when a job decides (`state.rs:559`) and raised when it
claims (`state.rs:730`), in two transactions, so a job could raise a count that
was changed in between. `BInv` adds to `LInv` why it does not. `Windows`: while a
polled job that decided to retry is on its way to the claim, it is the only such
job, the record still has retries left or was claimed or written in this very
unit, then with none used, and a review at work began or ended in this unit and
counts none. `Counted` says
that jobs carry a count only between claim and end, `Named` which job is the
manual one (which never retries). The positive delay (`DelayIsPositive`) is what
closes it: a record written now is not retried now.

**IssueFixProofs**, from `IssueAssumption` alone (the bounds are natural numbers
and `max_attempts` is positive), for any number of mentions, commands, attempts,
interruptions and acts of others:

* `IssueInvariance`: `Spec => []IInv`, and `IssueTypes`: `[]TypeOK`.
* `RunsPaidOnce`, `TipIsJournalled`, `ReviewStaysOwed`, `SingleStatus`,
  `SinglePullRequest`: `[]RunsArePaidOnce`, `[]JournalKnowsTip`,
  `[]ReviewIsOwed`, `[]OneStatusPerCommand`, `[]OnePullRequest`.
* `StatusAgrees`: `[]StatusIsTrue`.
* `NobodyIsOverwritten`: the action property `PushesExtend`.

What makes them inductive is what the code never says in one place. `Memory`:
from the fetch to the last notice the pass and the journal differ at most in the
notice, nothing is pending while a new revision is made, and the commit about to
be pushed is journalled and a child of the recorded head. `Publishing`: an
iteration is tracked only once the issue's record knows of a publication, and a
branch is created only while nothing is tracked. `Tip`: which of the two
journals names the tip, and that it stays so when others push. `Paid`: runs have
been started only for ids the records have consumed. The proof has a lemma for
each action; lemmas about the updates of a record (`ReconciledFields`,
`AttemptFields` and others) keep those steps small, and `MaxOfBounded` gives the
newest comment its properties by well-founded descent.

`StatusIsTrue` needs a second invariant, `Reporting`, on top of `IInv`. `Built`:
what has landed exists, and the tip of the branch has landed. `Authored`: no
commit is the revision of a command that has not been consumed, and none is the
last command's while its attempt is still unbuilt. `Awaited`: a pending commit is
the last command's only one, is newer than the recorded head, and has landed only
if the branch has reached it. `Told`: statuses exist only for consumed commands,
and what a status says, or the notice still to be posted will say, fits what
became of the command's commit.

**ReviewAgentProofs**. Of `LaneRecovery`, from `LaneAssumption` alone (`None` is
not a lane, call or task), for any number of lanes, overlapping calls and tasks:

* `Invariance`: `LaneSpec => []IInv`; `OneTask`, `Cleaned`, `NotesStay`:
  `[]OneTaskPerAttempt`, `[]NothingRunsOn`, and the action property
  `CompletedIsFinal`.

Of `ReviewAgent`, with `AgentAssumption` (the number of findings and retries is
bounded), for any candidates, retries and configuration:

* `AgentLanes`: `AgentSpec => LaneSpec`, a review uses its lanes in no way that
  `LaneRecovery` does not allow; the theorems above hold of it, too.
* `AgentInvariance`: `AgentSpec => []AgentInv`; `AgentTypesHold`, `Clean`,
  `Candidates`: `[]AgentTypeOK`, `[]CleanIsEarned`,
  `[]CandidatesAreAccountedFor`.

The heart is `Accounted`: a task at work is left behind (`LeftBehind`: its start
or cancellation was never confirmed, or its call was dropped after it had
entered it in the task table and before it set the lane), in the hands of a call that is starting it, or that of a lane
that is running and not getting another. `Births` and `Attempts` say which tasks
exist for a lane, `Held`, `Gates` and `Alone` who holds its mutex and that
nobody else is inside, `Working` what a call in a loop knows, `Ending` what is
left when the finder stops. With them a dropped call can be shown to leave
nothing the cleanup does not find.

Of the review, `Stages` says that a review past its verifier has had a finder
that ended well, with every lane done and an exhausted budget noted in the
artifact; `DoneLanes` that a finder counted as done has stopped with all its
lanes completed; `Results` that a concluded
review says what its artifact says, and that no duplicate decision that counts
rests on a comment that does not exist; `Decided` that past the verifier every finding has
a verdict unless the verifier failed.

**SandboxRunProofs**, from `SandboxAssumption` alone, for any number of jobs,
subnets and connections, any limit and any charge:

* `Invariance`: `Spec => []IInv`; `Apart`, `Overshoot`, `LeakedJobsFail`,
  `Final`: `[]SandboxesAreApart`, `[]OvershootIsBounded`,
  `[]SecretsFailTheJob`, and the action property `ReportIsFinal`.

`Metered` is what makes the overshoot inductive: as long as the ledger is below
the limit anything may start, and from then on what is charged and what may
still be charged stay together below the limit and the price of one request for
each connection. `Pool` says that the subnets in use are those of the jobs, each
of one job; `Host` what a job holds in each phase; `Secrets` that a leak means a
quarantine; `Ended` that a report that was not late finds no request under way
and is the ledger. `ProbeReaches` shows that
the allocator's linear probing returns a free subnet whenever there is one, by
the least index at which it succeeds.

**BuzzThreadsProofs**, from `BuzzAssumption` alone, for any findings, questions,
channels, reviews, faults and crashes:

* `Invariance`: `Spec => []IInv`; `Delivered`: `[]ThreadIsAsRecorded`;
  `NotRepeated`, `ReceiptsAreFinal`: the action properties
  `DeliveredIsNotRepeated` and `ReceiptIsFinal`.

`Publishing` says that what a publication still has to send is disjoint from the
keys it claims, that those are on the relay under its root, and that it either
continues the stored thread or has a root of its own; `Answering` says that the
question in hand has no receipt.

**AutoFixProofs**. Of `IssueWorker`, from `WorkerAssumption` and `NoneIsNoReport`
(`None` is not a report), for any files, areas, kinds, earlier checks and
budgets:

* `Invariance`: `Spec => []IInv`; `OnlyProvedFixes`: `[]FixIsProved`;
  `WorkStands`, `KeptReport`: the action properties `ReportedWorkStands` and
  `ReportIsKept`.

`Course` gives each phase of the host what its predecessors showed of the tree
that is being checked; `Saved` says that a report is on disk before it counts,
`Tools` says that a worker asked for its report has lost the developer tools.

Of `IssueTriage`, from `TriageAssumption`, for any inventory, order, batch size
and budget, and any number of edits and failures:

* `TriageInvariance`: `TriageSpec => []TriageInv`; `TriageTypesHold`,
  `DecisionBacked`, `HandledIsMarked`: `[]TriageTypeOK`, `[]DecisionIsBacked`,
  `[]CommittedIsMarked`; `JudgmentsStay`: the action property
  `JudgmentsAreFinal`.

`Compared` says what is known at each stage of a pass: while it screens, which
items are still in a batch, and that every other one has been weighed; while it
investigates, that all but the rest are settled; when it decides, that the
comparison is complete or the issue too large. `Handled` orders the versions of
what was handled, listed and read: evidence that is handled is never newer than
what there is, and a pass is about something that is not handled yet.

**DisclosureProofs**, from `DisclosureAssumption` alone, for any number of runs,
commits, faults and acts of people:

* `Invariance`: `Spec => []IInv`; `ReceiptedReportsStay`, `FilesAreInOrder`,
  `OneReview`: `[]NothingIsLost`, `[]NewestFirst`, `[]OneReviewPerCommit`.

`Keeping` holds that what a finalization has read is still enough when it
pushes: every report with a receipt is in the file it is about to push, on the
base, or dismissed. `Posting` says that a commit
without a receipt has no review, and that a run about to post without having
looked works on such a commit. `Urls` says that the receipt of a run is
open while it acts, `Order` that files are sorted and no newer than the run.

**Only model-checked.** Every safety and action property of the runs, and the
refinement, is a theorem. Liveness under fairness is out of the prover's reach
and rests on TLC alone: `DeferredIsRetried`, `EveryCallerAnswered`,
`HeadEventuallySettled`, `MentionIsReviewed`, `ReviewEnds`, `JobsEnd`,
`QuestionsAreSettled`, `LandedIsReported`, `FixEnds`, `IssueSettles`. So is
induction over data (nothing here rests on it). That `Merges` is always one
sequence was evaluated for small inputs, and no theorem needs it. The claims of
`ReviewLifecycle` are proved for undisturbed behaviours; `LifecycleMention` runs
with a backport.

## 6. Where code and documentation differ

No run expects a violation; these were seen while modelling. They are listed for
the authors to decide which side is meant.

Sentences of the documentation that the code does not keep as they stand:

* "Each mention triggers one review" (`README.md:30`): the record of a review is
  dated to its end, or to the restart that found it interrupted, so a mention
  made while the record was claimed is older and triggers nothing
  (`daemon.rs:771`, `state.rs:1034`). On a backport the skip a manual request
  writes buries a mention in the same way. `MentionIsReviewed` says what holds
  of all other mentions.
* Reviewed commits are remembered, "preventing redundant LLM calls"
  (`README.md:34`): a job queued for an older commit that starts after a newer
  one was reviewed checks out the head and reviews it again (`state.rs:551`).
* Interrupted claims are marked failed at startup "so normal retry policy can
  reclaim them immediately" (`README.md:306`): the record is dated to the
  restart, and the policy adds at least five minutes (`state.rs:1034`).
* Reconnects do not duplicate answers (`README.md:498`): they do not, but a
  crash between an answer and its receipt does (`buzz.rs:308`).
* A status comment for each handled command (`ISSUES.md:393`): an attempt that a
  crash ends before its push has consumed its command and leaves none
  (`iterations.rs:305`).
* Manual and polled reviews share a queue that is FIFO only within fresh work
  and within retries (`README.md:297`).

Behaviour a reader of the code might not expect:

* a fatal provider error is logged as "stopping daemon" (`daemon.rs:1408`) but
  only fails its job; a mention resets the decision but not the attempt count of
  the claim (`state.rs:729`);
* a publication that posts nothing leaves a published receipt, so later findings
  on that commit are not posted (`finalizer.rs:119`); a finalization repeated
  after a push combines its report in a second time unless the file holds
  nothing else (`disclose.rs:816`);
* the nudge at 80% of the budget drops tool calls under way (`review.rs:1984`);
  one decision of the coordinator about a finding that is not pending voids all
  of them (`review.rs:3127`);
* a delegated task that is in the task table but not yet in its lane when its
  call is dropped is left working: `cleanup` reads the lanes only
  (`delegation.rs:150`, `:225`), and the lane ends incomplete;
* a request dropped before its stream begins is never charged
  (`broker.rs:876`), and after five seconds of shutdown its handlers are detached
  (`broker.rs:695`);
* a later Buzz question that is handled first moves the cursor past earlier
  ones, which a new subscription then does not replay;
* edits a coder makes after its report are still in the patch, which the host
  checks as a whole; once a publication was interrupted before its pull request,
  any new comment on the issue, a new mention included, keeps it from being
  resumed (`workflow.rs:433`).

## 7. Plan

Next, in this order:

1. Proofs: safety cores of the liveness properties, as `WakeupIsOwed` is that of
   `DeferredIsRetried`: no question between cursor and receipt, no job without a
   step that ends it; that `Merges` is never empty.
2. `ReviewLifecycle`: the migration of retry dates, jitter and reactions;
   discovery with its filters and mention search (`daemon.rs`).
3. The hysteresis of processing health (`scheduler.rs`), several issues that
   compete for one triage budget, several personas of one generated head.

**Not modelled.** Processing health observes the scheduler and is a pure
function of the last attempts. The inspection tools, the HTTP handlers and the
command line keep no state: they read, or call what is modelled. Prompts and
answers of language models, forge and relay protocols, processes and file trees,
parsing and rendering are I/O or data without control that these properties
could tell apart; where a model needs them, they are choices. Within the
modelled parts, the hazards of a clock that is set back (`state.rs:537`) and of
the skip path that overwrites a claim (`daemon.rs:1002`) have no property: time
only advances in the model, and the second is a stated condition of the claim
theorems. Errors of the databases are not modelled either. One such error would
matter to `LandedIsReported`: a pushed revision is reconciled in memory and then
saved (`iterations.rs:464`), and if that save fails the error path saves the
reconciled state with a notice that says the attempt stopped (`:317`), which
later passes do not correct.
