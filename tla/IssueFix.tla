------------------------------ MODULE IssueFix ------------------------------
(***************************************************************************)
(* The life of one issue the bot is asked to fix (src/src/issues): a       *)
(* trusted mention starts a coding run, its patch becomes a branch and a   *)
(* draft pull request (workflow.rs), and each trusted fix command on that  *)
(* pull request becomes one revision of the branch (iterations.rs).  One   *)
(* polling pass is modelled step by step: a call to the forge is a step,   *)
(* together with what is computed and saved before the next one, except    *)
(* that a call which changes the forge and the save that records it are    *)
(* two.  A pass may be interrupted at every step by a failing call or a    *)
(* crash; people act at any time.                                          *)
(*                                                                         *)
(* Configuration: trigger_mention, publish, auto_fix, a worker, iterations *)
(* and the review queue of the daemon, for one persona.                    *)
(***************************************************************************)
EXTENDS Integers, FiniteSets, Sequences, FiniteSetsExt

CONSTANTS
    MaxAttempts, \* issues.iterations.max_attempts
    MaxMentions, MaxCommands, MaxMeddling, MaxFaults \* bounds

ASSUME IssueAssumption ==
    /\ MaxAttempts \in Nat \ {0}
    /\ MaxMentions \in Nat /\ MaxCommands \in Nat
    /\ MaxMeddling \in Nat /\ MaxFaults \in Nat

VARIABLES
    record,       \* the issue's entry of issue_workflow_v1
    iter,         \* its entry of issue_pr_iterations_v1
    pc, mem, rec, look,  \* the pass: where it is, iter and record as held in
                         \* memory, and what it read
    mentions,     \* trusted mentions on the issue, by comment id
    commands,     \* trusted fix commands on the pull request, by comment id
    edits,        \* revision of the issue's text
    issueOpen,
    branch,       \* tip of fiach/issue-N, 0 when there is none
    commits,      \* every commit made for the branch
    pr, prAuthor, \* the pull request of the branch
    status,       \* command -> the bot's status comments with its marker
    requested,    \* commits whose review the scheduler holds
    reviewed,     \* commits whose review is recorded as completed
    investigated, ran, landed, prs, \* history: mentions and commands a worker
                  \* ran for, commits that were the tip, pull requests made
    used          \* how much of each bound is spent

durable == <<record, iter>>
pass == <<pc, mem, rec, look>>
people == <<mentions, commands, edits, issueOpen>>
forge == <<branch, commits, pr, prAuthor, status>>
reviews == <<requested, reviewed>>
history == <<investigated, ran, landed, prs>>
vars == <<durable, pass, people, forge, reviews, history, used>>

NoState == [head |-> 0, attempts |-> 0, last |-> 0, pending |-> 0, review |-> 0,
            notice |-> "none"]
NoContent == <<0, {}>>
NoPublication == [commit |-> 0, content |-> NoContent]
NoRecord == [fingerprint |-> <<NoContent, 0>>, last |-> 0, pr |-> FALSE,
             pending |-> NoPublication]
NoLook == [trigger |-> 0, content |-> NoContent, head |-> 0, commands |-> {},
           next |-> "idle"]

People == 0  \* author of the commits others push
Host == -1   \* author of the first commit; a command, of its revision

Newest(ids) == IF ids = {} THEN 0 ELSE Max(ids)

(* content_key: the issue's text and every comment that is not the bot's.  *)
Content == <<edits, mentions>>

Spend(b) == used' = [used EXCEPT ![b] = @ + 1]

Goto(l) == pc' = l
EndPass == pc' = "idle" /\ mem' = NoState /\ rec' = NoRecord /\ look' = NoLook
Saved(s) == mem' = s /\ iter' = s

-----------------------------------------------------------------------------

(* iterations::State.                                                      *)

NewState(c) == [NoState EXCEPT !.head = c, !.review = c]

Reconcilable(s, tip) == tip = s.head \/ (s.pending # 0 /\ tip = s.pending)

ReconciledSilently(s, tip) ==
    IF s.pending = 0 THEN s
    ELSE IF s.pending = tip
      THEN [s EXCEPT !.head = tip, !.pending = 0, !.review = tip]
      ELSE [s EXCEPT !.pending = 0, !.notice = "unpublished"]

ReconciledBlindly(s, tip) ==
    IF s.pending = 0 THEN s
    ELSE [s EXCEPT !.head = tip, !.pending = 0, !.review = tip, !.notice = "pushed"]

Reconciled(s, tip) ==
    IF s.pending = 0 THEN s
    ELSE IF s.pending = tip
      THEN [s EXCEPT !.head = tip, !.pending = 0, !.review = tip, !.notice = "pushed"]
      ELSE [s EXCEPT !.pending = 0, !.notice = "unpublished"]

-----------------------------------------------------------------------------

(* The iteration half of a pass: iterations::process.                      *)

StartPass ==
    /\ pc = "idle" /\ issueOpen
    /\ mem' = iter
    /\ Goto(IF iter.head = 0 THEN "trigger" ELSE "fetch")
    /\ UNCHANGED <<durable, rec, look, people, forge, reviews, history, used>>

FetchPr ==
    /\ pc = "fetch"
    /\ \/ /\ pr # "open"
          /\ Goto("trigger")
          /\ UNCHANGED <<iter, mem, rec, look>>
       \/ /\ pr = "open" /\ prAuthor = Host /\ Reconcilable(mem, branch)
          /\ Saved(Reconciled(mem, branch))
          /\ look' = [look EXCEPT !.head = branch, !.next = "review"]
          /\ Goto("notice")
          /\ UNCHANGED rec
       \/ /\ pr = "open" /\ ~ (prAuthor = Host /\ Reconcilable(mem, branch))
          /\ EndPass
          /\ UNCHANGED iter
    /\ UNCHANGED <<record, people, forge, reviews, history, used>>

CheckNotice ==
    /\ pc = "notice"
    /\ \/ /\ mem.notice = "none"
          /\ Goto(look.next)
          /\ UNCHANGED <<mem, rec, look>>
       \/ /\ mem.notice # "none" /\ pr = "open"
          /\ Goto("post")
          /\ UNCHANGED <<mem, rec, look>>
       \/ /\ mem.notice # "none" /\ pr # "open"
          /\ EndPass
    /\ UNCHANGED <<durable, people, forge, reviews, history, used>>

(* A comment with the marker is edited, else one is posted.                *)
PutStatus(k) ==
    status' = [status EXCEPT ![k] =
                 IF @ = <<>> THEN <<mem.notice>> ELSE [@ EXCEPT ![1] = mem.notice]]

PostNotice ==
    /\ pc = "post"
    /\ PutStatus(mem.last)
    /\ Goto("posted")
    /\ UNCHANGED <<durable, mem, rec, look, people, branch, commits, pr, prAuthor, reviews,
                   history, used>>

SaveNotice ==
    /\ pc = "posted"
    /\ iter' = [mem EXCEPT !.notice = "none"]
    /\ IF look.next = "idle" THEN EndPass
       ELSE Goto(look.next) /\ mem' = iter' /\ UNCHANGED <<rec, look>>
    /\ UNCHANGED <<record, people, forge, reviews, history, used>>

(* Mutant: a submitted review is taken for a completed one. *)
ReviewForgotten ==
    /\ pc = "review"
    /\ Saved([mem EXCEPT !.review = 0])
    /\ requested' = requested \cup {mem.review}
    /\ Goto("command")
    /\ UNCHANGED <<record, rec, look, people, forge, reviewed, history, used>>

(* GeneratedReviewQueue::submit; the queue may be full.                    *)
RequestReview ==
    /\ pc = "review"
    /\ Goto("command")
    /\ \/ /\ mem.review # look.head
          /\ UNCHANGED <<iter, mem, requested, used>>
       \/ /\ mem.review = look.head /\ mem.review \in reviewed
          /\ Saved([mem EXCEPT !.review = 0])
          /\ UNCHANGED <<requested, used>>
       \/ /\ mem.review = look.head /\ mem.review \notin reviewed
          /\ requested' = requested \cup {mem.review}
          /\ UNCHANGED <<iter, mem, used>>
       \/ /\ mem.review = look.head /\ mem.review \notin reviewed
          /\ used.faults < MaxFaults /\ Spend("faults")
          /\ UNCHANGED <<iter, mem, requested>>
    /\ UNCHANGED <<record, rec, look, people, forge, reviewed, history>>

IsNewCommand(k) == k > mem.last

MayAttempt == mem.attempts < MaxAttempts

(* Mutant: the attempt is in memory only when the worker starts. *)
ReadCommandUnsaved ==
    LET k == Newest(commands) IN
    /\ pc = "command" /\ IsNewCommand(k) /\ MayAttempt
    /\ mem' = [mem EXCEPT !.last = k, !.attempts = @ + 1]
    /\ look' = [look EXCEPT !.commands = commands, !.next = "trigger"]
    /\ Goto("revise")
    /\ UNCHANGED <<durable, rec, people, forge, reviews, history, used>>

(* The newest command is consumed before anything is done for it.          *)
ReadCommand ==
    LET k == Newest(commands) IN
    /\ pc = "command"
    /\ \/ /\ ~ IsNewCommand(k)
          /\ Goto("trigger")
          /\ UNCHANGED <<iter, mem, look>>
       \/ /\ IsNewCommand(k) /\ MayAttempt
          /\ Saved([mem EXCEPT !.last = k, !.attempts = @ + 1])
          /\ look' = [look EXCEPT !.commands = commands, !.next = "trigger"]
          /\ Goto("revise")
       \/ /\ IsNewCommand(k) /\ ~ MayAttempt
          /\ Saved([mem EXCEPT !.last = k, !.notice = "limit"])
          /\ look' = [look EXCEPT !.next = "trigger"]
          /\ Goto("notice")
    /\ UNCHANGED <<record, rec, people, forge, reviews, history, used>>

(* Iteration::attempt.  The worker starts only from the recorded head.     *)
StartRevision ==
    /\ pc = "revise"
    /\ issueOpen /\ branch = mem.head
    /\ look' = [look EXCEPT !.content = Content]
    /\ ran' = Append(ran, mem.last)
    /\ Goto("coding")
    /\ UNCHANGED <<durable, mem, rec, people, forge, reviews, investigated, landed, prs,
                   used>>

EndRevision ==
    /\ pc = "coding"
    /\ \/ Goto("recheck") /\ UNCHANGED mem
       \/ Goto("notice") /\ mem' = [mem EXCEPT !.notice = "blocked"]
    /\ UNCHANGED <<durable, rec, look, people, forge, reviews, history, used>>

NewCommit(parent, author) == commits' = Append(commits, [parent |-> parent, author |-> author])

(* Mutant: the journal is written after the push. *)
RecheckUnsaved ==
    /\ pc = "recheck"
    /\ pr = "open" /\ branch = look.head
    /\ issueOpen /\ Content = look.content /\ commands = look.commands
    /\ NewCommit(mem.head, mem.last)
    /\ mem' = [mem EXCEPT !.pending = Len(commits')]
    /\ Goto("push")
    /\ UNCHANGED <<durable, rec, look, people, branch, pr, prAuthor, status, reviews, history, used>>

(* Nothing the revision answers has changed; the push is journalled.       *)
Recheck ==
    /\ pc = "recheck"
    /\ pr = "open" /\ branch = look.head
    /\ issueOpen /\ Content = look.content /\ commands = look.commands
    /\ NewCommit(mem.head, mem.last)
    /\ Saved([mem EXCEPT !.pending = Len(commits')])
    /\ Goto("push")
    /\ UNCHANGED <<record, rec, look, people, branch, pr, prAuthor, status, reviews, history, used>>

(* Mutant: no lease. *)
LeaseAny(expected) == TRUE

Lease(expected) == branch = expected

PushRevision ==
    /\ pc = "push"
    /\ Lease(mem.head)
    /\ branch' = mem.pending
    /\ landed' = landed \cup {mem.pending}
    /\ Goto("pushed")
    /\ UNCHANGED <<durable, mem, rec, look, people, commits, pr, prAuthor, status, reviews,
                   investigated, ran, prs, used>>

SavePush ==
    /\ pc = "pushed"
    /\ Saved(Reconciled(mem, mem.pending))
    /\ Goto("notice")
    /\ UNCHANGED <<record, rec, look, people, forge, reviews, history, used>>

(* An attempt may fail wherever it is: a check, the worker, a call, the    *)
(* lease, or an answer lost after the push has landed.                     *)
AttemptFails ==
    /\ pc \in {"revise", "coding", "recheck", "push", "pushed"}
    /\ Saved([mem EXCEPT !.notice = "stopped"])
    /\ look' = [look EXCEPT !.next = "idle"]
    /\ Goto("failed")
    /\ UNCHANGED <<record, rec, people, forge, reviews, history, used>>

ReportFailure ==
    /\ pc = "failed"
    /\ \/ pr = "open" /\ Goto("notice") /\ UNCHANGED <<mem, rec, look>>
       \/ pr # "open" /\ EndPass
    /\ UNCHANGED <<durable, people, forge, reviews, history, used>>

-----------------------------------------------------------------------------

(* The issue half of a pass: workflow::process.                            *)

ReadTrigger ==
    /\ pc = "trigger"
    /\ \/ mentions = {} /\ EndPass
       \/ /\ mentions # {}
          /\ look' = [NoLook EXCEPT !.trigger = Newest(mentions), !.next = "issue"]
          /\ rec' = record
          /\ mem' = NoState
          /\ Goto(IF record.pending.commit # 0 THEN "pending" ELSE "issue")
    /\ UNCHANGED <<durable, people, forge, reviews, history, used>>

(* A publication was interrupted.  Triage may find the issue unfit, or the *)
(* default branch may have moved.                                          *)
ResumePublication ==
    /\ pc = "pending"
    /\ \/ /\ pr # "none"
          /\ rec' = [rec EXCEPT !.pr = TRUE]
          /\ Goto("track")
          /\ UNCHANGED <<mem, look>>
       \/ /\ pr = "none" /\ branch = rec.pending.commit
          /\ issueOpen /\ Content = rec.pending.content
          /\ Newest(mentions) = look.trigger
          /\ Goto("open")
          /\ UNCHANGED <<mem, rec, look>>
       \/ pr = "none" /\ EndPass
    /\ UNCHANGED <<durable, people, forge, reviews, history, used>>

(* open_pr; a pull request of the branch is reused while it is open.       *)
OpenPr ==
    /\ pc = "open"
    /\ \/ /\ pr # "closed"
          /\ rec' = [rec EXCEPT !.pr = TRUE]
          /\ IF pr = "none"
               THEN pr' = "open" /\ prAuthor' = Host /\ prs' = prs + 1
               ELSE UNCHANGED <<pr, prAuthor, prs>>
          /\ Goto("track")
          /\ UNCHANGED <<mem, look>>
       \/ /\ pr = "closed"
          /\ EndPass
          /\ UNCHANGED <<pr, prAuthor, prs>>
    /\ UNCHANGED <<durable, people, branch, commits, status, reviews, investigated, ran,
                   landed, used>>

(* track_publication.                                                      *)
Track ==
    /\ pc = "track"
    /\ iter' = IF iter.head = 0 THEN NewState(rec.pending.commit) ELSE iter
    /\ Goto("clear")
    /\ UNCHANGED <<record, mem, rec, look, people, forge, reviews, history, used>>

ClearPublication ==
    /\ pc = "clear"
    /\ rec' = [rec EXCEPT !.pending = NoPublication]
    /\ record' = rec'
    /\ Goto(look.next)
    /\ UNCHANGED <<iter, mem, look, people, forge, reviews, history, used>>

(* The issue is triaged unless its fingerprint is that of the last time;   *)
(* other issues and pull requests are part of the evidence too.            *)
ReadIssue ==
    /\ pc = "issue"
    /\ \/ /\ issueOpen
          /\ look' = [look EXCEPT !.content = Content]
          /\ Goto("triaged")
          /\ UNCHANGED <<mem, rec>>
       \/ /\ ~ issueOpen \/ rec.fingerprint = <<Content, look.trigger>>
          /\ EndPass
    /\ UNCHANGED <<durable, people, forge, reviews, history, used>>

(* blocks_attempt: a mention is good for one run, and spends older ones.   *)
Authorize ==
    /\ pc = "triaged"
    /\ \/ /\ rec.pr \/ rec.pending.commit # 0 \/ look.trigger <= rec.last
          /\ Goto("mark")
          /\ UNCHANGED <<record, mem, rec, look>>
       \/ /\ ~ rec.pr /\ rec.pending.commit = 0 /\ look.trigger > rec.last
          /\ Newest(mentions) = look.trigger
          /\ rec' = [rec EXCEPT !.last = look.trigger]
          /\ record' = rec'
          /\ Goto("investigate")
          /\ UNCHANGED <<mem, look>>
       \/ /\ ~ rec.pr /\ rec.pending.commit = 0 /\ look.trigger > rec.last
          /\ Newest(mentions) # look.trigger
          /\ EndPass
          /\ UNCHANGED record
    /\ UNCHANGED <<iter, people, forge, reviews, history, used>>

StartFix ==
    /\ pc = "investigate"
    /\ investigated' = Append(investigated, look.trigger)
    /\ Goto("fixing")
    /\ UNCHANGED <<durable, mem, rec, look, people, forge, reviews, ran, landed, prs, used>>

EndFix ==
    /\ pc = "fixing"
    /\ Goto("mark") \/ Goto("verify")
    /\ UNCHANGED <<durable, mem, rec, look, people, forge, reviews, history, used>>

(* The second triage may refuse, and the default branch may have moved.    *)
VerifyFix ==
    /\ pc = "verify"
    /\ \/ /\ issueOpen /\ Content = look.content /\ Newest(mentions) = look.trigger
          /\ Goto("mark")
          /\ \/ UNCHANGED rec
             \/ pr # "none" /\ rec' = [rec EXCEPT !.pr = TRUE]
          /\ UNCHANGED <<record, mem, look, commits>>
       \/ /\ issueOpen /\ Content = look.content /\ Newest(mentions) = look.trigger
          /\ pr = "none"
          /\ NewCommit(0, Host)
          /\ rec' = [rec EXCEPT !.pending = [commit |-> Len(commits'), content |-> Content]]
          /\ record' = rec'
          /\ look' = [look EXCEPT !.next = "mark"]
          /\ Goto("create")
          /\ UNCHANGED mem
       \/ EndPass /\ UNCHANGED <<record, commits>>
    /\ UNCHANGED <<iter, people, branch, pr, prAuthor, status, reviews, history, used>>

(* The lease on a branch that does not exist.                              *)
CreateBranch ==
    /\ pc = "create"
    /\ \/ /\ Lease(0)
          /\ branch' = rec.pending.commit
          /\ landed' = landed \cup {rec.pending.commit}
          /\ Goto("open")
          /\ UNCHANGED <<mem, rec, look>>
       \/ /\ ~ Lease(0)
          /\ EndPass
          /\ UNCHANGED <<branch, landed>>
    /\ UNCHANGED <<durable, people, commits, pr, prAuthor, status, reviews, investigated, ran, prs,
                   used>>

(* Labels and the comment on the issue, then the fingerprint.              *)
Mark ==
    /\ pc = "mark"
    /\ IF issueOpen /\ Content = look.content /\ Newest(mentions) = look.trigger
         THEN record' = [rec EXCEPT !.fingerprint = <<look.content, look.trigger>>]
         ELSE UNCHANGED record
    /\ EndPass
    /\ UNCHANGED <<iter, people, forge, reviews, history, used>>

-----------------------------------------------------------------------------

(* A call fails, or the daemon stops and starts again: the pass is over.   *)
(* A restart also empties the scheduler.                                   *)
Interrupted ==
    /\ pc # "idle"
    /\ used.faults < MaxFaults /\ Spend("faults")
    /\ EndPass
    /\ requested' \in {requested, {}}
    /\ UNCHANGED <<durable, people, forge, reviewed, history>>

ReviewCompletes(c) ==
    /\ c \in requested
    /\ requested' = requested \ {c}
    /\ reviewed' = reviewed \cup {c}
    /\ UNCHANGED <<durable, pass, people, forge, history, used>>

(* People.                                                                 *)

PostMention ==
    /\ used.mentions < MaxMentions /\ Spend("mentions")
    /\ mentions' = mentions \cup {used'.mentions}
    /\ UNCHANGED <<durable, pass, commands, edits, issueOpen, forge, reviews, history>>

PostCommand ==
    /\ pr # "none"
    /\ used.commands < MaxCommands /\ Spend("commands")
    /\ commands' = commands \cup {used'.commands}
    /\ UNCHANGED <<durable, pass, mentions, edits, issueOpen, forge, reviews, history>>

Meddle == used.meddling < MaxMeddling /\ Spend("meddling")

DeleteComment ==
    /\ Meddle
    /\ \/ \E k \in mentions : mentions' = mentions \ {k} /\ UNCHANGED commands
       \/ \E k \in commands : commands' = commands \ {k} /\ UNCHANGED mentions
    /\ UNCHANGED <<durable, pass, edits, issueOpen, forge, reviews, history>>

EditIssue ==
    /\ Meddle
    /\ \/ edits' = edits + 1 /\ UNCHANGED issueOpen
       \/ issueOpen' = ~ issueOpen /\ UNCHANGED edits
    /\ UNCHANGED <<durable, pass, mentions, commands, forge, reviews, history>>

(* Closed or reopened, or made from the branch by somebody else.           *)
ChangePr ==
    /\ Meddle
    /\ \/ /\ pr # "none"
          /\ pr' = IF pr = "open" THEN "closed" ELSE "open"
          /\ UNCHANGED <<prAuthor, prs>>
       \/ /\ pr = "none" /\ branch # 0
          /\ pr' = "open" /\ prAuthor' = People /\ prs' = prs + 1
    /\ UNCHANGED <<durable, pass, people, branch, commits, status, reviews,
                   investigated, ran, landed>>

ForeignPush ==
    /\ Meddle
    /\ NewCommit(branch, People)
    /\ branch' = Len(commits')
    /\ landed' = landed \cup {branch'}
    /\ UNCHANGED <<durable, pass, people, pr, prAuthor, status, reviews, investigated, ran, prs>>

-----------------------------------------------------------------------------

Init ==
    /\ record = NoRecord /\ iter = NoState
    /\ pc = "idle" /\ mem = NoState /\ rec = NoRecord /\ look = NoLook
    /\ mentions = {} /\ commands = {} /\ edits = 1 /\ issueOpen = TRUE
    /\ branch = 0 /\ commits = <<>> /\ pr = "none" /\ prAuthor = People
    /\ status = [k \in 1..MaxCommands |-> <<>>]
    /\ requested = {} /\ reviewed = {}
    /\ investigated = <<>> /\ ran = <<>> /\ landed = {} /\ prs = 0
    /\ used = [mentions |-> 0, commands |-> 0, meddling |-> 0, faults |-> 0]

IterationStep ==
    \/ FetchPr \/ CheckNotice \/ PostNotice \/ SaveNotice \/ RequestReview
    \/ ReadCommand \/ StartRevision \/ EndRevision \/ Recheck \/ PushRevision
    \/ SavePush \/ AttemptFails \/ ReportFailure

IssueStep ==
    \/ ReadTrigger \/ ResumePublication \/ OpenPr \/ Track \/ ClearPublication
    \/ ReadIssue \/ Authorize \/ StartFix \/ EndFix \/ VerifyFix \/ CreateBranch
    \/ Mark

PassStep == StartPass \/ IterationStep \/ IssueStep

PeopleStep ==
    PostMention \/ PostCommand \/ DeleteComment \/ EditIssue \/ ChangePr \/ ForeignPush

Next ==
    \/ PassStep
    \/ Interrupted
    \/ \E c \in requested : ReviewCompletes(c)
    \/ PeopleStep

Spec == Init /\ [][Next]_vars

(* The watch loop begins a pass after each interval, and calls return.     *)
FairSpec == Spec /\ WF_vars(PassStep)

-----------------------------------------------------------------------------

Texts == {"pushed", "unpublished", "blocked", "stopped", "limit"}
Contents == Nat \X SUBSET Nat
States == [head : Nat, attempts : 0..MaxAttempts, last : Nat, pending : Nat, review : Nat,
           notice : Texts \cup {"none"}]
Records == [fingerprint : Contents \X Nat, last : Nat, pr : BOOLEAN,
            pending : [commit : Nat, content : Contents]]
Looks == [trigger : Nat, content : Contents, head : Nat, commands : SUBSET Nat,
          next : {"idle", "review", "trigger", "issue", "mark"}]

TypeOK ==
    /\ record \in Records /\ rec \in Records
    /\ iter \in States /\ mem \in States /\ look \in Looks
    /\ mentions \subseteq 1..used.mentions /\ commands \subseteq 1..used.commands
    /\ edits \in Nat /\ issueOpen \in BOOLEAN
    /\ commits \in Seq([parent : Nat, author : Int]) /\ branch \in 0..Len(commits)
    /\ pr \in {"none", "open", "closed"} /\ prAuthor \in {Host, People}
    /\ status \in [1..MaxCommands -> Seq(Texts)]
    /\ investigated \in Seq(Nat) /\ ran \in Seq(Nat) /\ prs \in Nat
    /\ used \in [mentions : 0..MaxMentions, commands : 0..MaxCommands,
                 meddling : 0..MaxMeddling, faults : 0..MaxFaults]

(* A mention and a command pay for one worker run each, older ones are     *)
(* never run after newer ones, and revisions keep to max_attempts, however *)
(* often passes are interrupted and comments deleted (workflow.rs:624,     *)
(* iterations.rs:305).                                                     *)
Increasing(s) == \A i, j \in DOMAIN s : i < j => s[i] < s[j]

RunsArePaidOnce ==
    /\ Increasing(investigated) /\ Increasing(ran)
    /\ Len(ran) <= MaxAttempts

(* Every commit of the host is pushed on top of the one it was built on:   *)
(* nobody's commit is ever replaced, though the branch may change between  *)
(* the last check and the push (iterations.rs:449).                        *)
PushesExtend ==
    [][branch' # branch =>
         commits'[branch'].parent = branch \/ commits'[branch'].author = People]_vars

(* Whenever the daemon stops, it finds the commit it left on the branch in *)
(* one of its journals (workflow.rs:727, iterations.rs:445).               *)
JournalKnowsTip ==
    branch # 0 /\ commits[branch].author # People =>
        branch \in {record.pending.commit, iter.head, iter.pending}

(* A review of the recorded head is owed until it is recorded as complete: *)
(* a full queue or a restart does not lose it (ISSUES.md:370).             *)
ReviewIsOwed ==
    iter.head # 0 /\ iter.head \notin reviewed => iter.review = iter.head

(* There is one pull request for the branch, also when the publication was *)
(* interrupted or somebody else was faster (github.rs:412).                *)
OnePullRequest == prs <= 1

(* A command gets one status comment, edited when more is known.           *)
OneStatusPerCommand == \A k \in DOMAIN status : Len(status[k]) <= 1

(* The status comment of a command agrees with what happened to the        *)
(* branch: an update it reports was pushed for this very command, one it   *)
(* denies never was.                                                       *)
Delivered(k) == \E c \in landed : commits[c].author = k

StatusIsTrue ==
    \A k \in DOMAIN status : \A i \in DOMAIN status[k] :
        /\ status[k][i] = "pushed" => Delivered(k)
        /\ status[k][i] \in {"unpublished", "blocked", "limit"} => ~ Delivered(k)

(* People have taken the issue, the pull request or the branch out of the  *)
(* host's hands.                                                           *)
OutOfHands ==
    \/ ~ issueOpen \/ pr # "open" \/ prAuthor # Host
    \/ iter.head = 0 \/ branch \notin {iter.head, iter.pending}

(* A revision that has landed is reported, though the push was             *)
(* interrupted before the host knew.                                       *)
LandedIsReported ==
    \A k \in 1..MaxCommands :
        branch # 0 /\ commits[branch].author = k ~>
            status[k] = <<"pushed">> \/ OutOfHands

=============================================================================
