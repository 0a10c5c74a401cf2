----------------------------- MODULE Disclosure -----------------------------
(***************************************************************************)
(* What a finalized review leaves with its readers: a review on the pull   *)
(* request, or a report on the sync repository's pull request, and the     *)
(* receipt of either (src/finalizer.rs, src/disclose.rs, src/state.rs).    *)
(*                                                                         *)
(* One pull request and one persona, whose claims keep its finalizations   *)
(* apart (ReviewLifecycle).  A finalization may fail or die between any    *)
(* two calls and the review of the same commit is then run again; people   *)
(* close and reopen the pull request, and merge, close and reopen the      *)
(* sync pull request, at any moment.  A report is the number of the run    *)
(* that wrote it, a report file the sequence of the reports in it.         *)
(***************************************************************************)
EXTENDS Naturals, Sequences

CONSTANTS MaxRuns,   \* bound on finalized runs, and so on reports
          MaxHeads,  \* bound on commits of the pull request
          MaxPeople, \* bound on what people do
          MaxFaults  \* bound on failed calls, lost answers and crashes

ASSUME DisclosureAssumption ==
  /\ MaxRuns \in Nat \ {0} /\ MaxHeads \in Nat \ {0}
  /\ MaxPeople \in Nat /\ MaxFaults \in Nat

VARIABLES
  config,    \* DiscloseConfig: mode, notify_on_empty; and the persona's kind
  live,      \* whether the reviewed pull request is open
  posts,     \* per commit, the reviews posted with its marker
  base,      \* the report file on the sync repository's base branch
  branch,    \* the report file on the report branch
  pull,      \* the last sync pull request: none | open | closed | merged
  dismissed, \* the reports on sync pull requests that people closed
  receipts,  \* DISCLOSURE_STATE, per commit
  run,       \* the finalization under way
  used       \* what the bounds count

vars == <<config, live, posts, base, branch, pull, dismissed, receipts, run, used>>

Reports == 1..MaxRuns
Heads == 1..MaxHeads
Modes == {"Local", "PrComment", "SyncPr", "Hybrid"}
\* A verified finding of an artifact: introduced by the pull request and
\* new, introduced and already reported, or confirmed outside the change.
Findings == {"publishable", "already_reported", "non_pr"}
Places == {"none", "file", "review", "pull"}
Steps == {"begin", "look", "check", "post", "find", "checkout", "push",
          "find_again", "create", "finish"}
Artifacts == [findings : SUBSET Findings, is_incomplete : BOOLEAN]
Runs == [pc : Steps \cup {"idle"}, head : Heads, report : 0..MaxRuns,
         artifact : Artifacts, pr_open : BOOLEAN, recovering : BOOLEAN,
         existing : BOOLEAN, file : Seq(Reports), url : Places]

In(file) == {file[i] : i \in DOMAIN file}

TypeOK ==
  /\ config \in [mode : Modes, notify_on_empty : BOOLEAN, security : BOOLEAN]
  /\ live \in BOOLEAN
  /\ posts \in [Heads -> Nat]
  /\ base \in Seq(Reports) /\ branch \in Seq(Reports)
  /\ pull \in {"none", "open", "closed", "merged"}
  /\ dismissed \subseteq Reports
  /\ receipts \in [Heads -> [status : {"None", "Publishing", "Published"},
                             url : Places, report : 0..MaxRuns]]
  /\ run \in Runs
  /\ used \in [runs : 0..MaxRuns, people : 0..MaxPeople, faults : 0..MaxFaults]

Init ==
  /\ config \in [mode : Modes, notify_on_empty : BOOLEAN, security : BOOLEAN]
  /\ live = TRUE
  /\ posts = [h \in Heads |-> 0]
  /\ base = << >> /\ branch = << >> /\ pull = "none" /\ dismissed = {}
  /\ receipts = [h \in Heads |-> [status |-> "None", url |-> "none", report |-> 0]]
  /\ run = [pc |-> "idle", head |-> 1, report |-> 0,
            artifact |-> [findings |-> {}, is_incomplete |-> FALSE],
            pr_open |-> TRUE, recovering |-> FALSE, existing |-> FALSE,
            file |-> << >>, url |-> "none"]
  /\ used = [runs |-> 0, people |-> 0, faults |-> 0]

remote == <<posts, base, branch, pull, dismissed>>

(***************************************************************************)
(* structured_disclosure_route.                                            *)
(***************************************************************************)
Publishable(a) == ~a.is_incomplete /\ "publishable" \in a.findings

DuplicateOnly(a) == ~Publishable(a) /\ "already_reported" \in a.findings

CommentRoute(a, pr_open) ==
  IF ~DuplicateOnly(a) /\ (Publishable(a) \/ config.notify_on_empty) /\ pr_open
    THEN "PrReview" ELSE "Skip"

SyncRoute(a) ==
  IF Publishable(a) \/ config.notify_on_empty THEN "SyncPr" ELSE "Skip"

\* What the pull request introduced is for its review; a finding elsewhere
\* is for the sync repository only when there is no such review to write.
HybridRoute(a, pr_open) ==
  IF DuplicateOnly(a) THEN "Skip"
  ELSE IF Publishable(a) /\ pr_open THEN "PrReview"
  ELSE IF config.security /\ "non_pr" \in a.findings THEN "SyncPr"
  ELSE IF config.notify_on_empty /\ pr_open THEN "PrReview"
  ELSE "Skip"

structured_disclosure_route(a, pr_open) ==
  IF config.mode = "Local" THEN "Local"
  ELSE IF a.is_incomplete THEN "Skip"
  ELSE CASE config.mode = "PrComment" -> CommentRoute(a, pr_open)
         [] config.mode = "SyncPr" -> SyncRoute(a)
         [] config.mode = "Hybrid" -> HybridRoute(a, pr_open)

(***************************************************************************)
(* The finalization.                                                       *)
(***************************************************************************)
\* A review ends with an artifact and the lifecycle of the pull request as
\* its policy saw it.  It is the review of a new commit, or another one of
\* the same commit: the retry of a failed job or a forced review, which may
\* render the very report of the run before.
ReviewEnds ==
  /\ run.pc = "idle" /\ used.runs < MaxRuns
  /\ \E a \in Artifacts, h \in {run.head, run.head + 1} \cap Heads,
       r \in {used.runs + 1, run.report} \ {0} :
       /\ r = run.report => h = run.head /\ a = run.artifact
       /\ run' = [run EXCEPT !.pc = "begin", !.head = h, !.report = r,
                    !.artifact = a, !.pr_open = live, !.url = "none"]
  /\ used' = [used EXCEPT !.runs = @ + 1]
  /\ UNCHANGED <<config, live, remote, receipts>>

FirstStep(route) ==
  CASE route = "PrReview" -> "look" [] route = "SyncPr" -> "find"
    [] OTHER -> "finish"

\* begin_disclosure, and the route the artifact takes.
Begin ==
  /\ run.pc = "begin"
  /\ IF receipts[run.head].status = "Published"
       THEN run' = [run EXCEPT !.pc = "idle"] /\ UNCHANGED receipts
       ELSE LET route == structured_disclosure_route(run.artifact, run.pr_open)
            IN /\ receipts' = [receipts EXCEPT ![run.head].status = "Publishing"]
               /\ run' = [run EXCEPT !.pc = FirstStep(route),
                            !.recovering = receipts[run.head].status = "Publishing",
                            !.url = IF route = "Local" THEN "file" ELSE "none"]
  /\ UNCHANGED <<config, live, remote, used>>

Fault == used.faults < MaxFaults /\ used' = [used EXCEPT !.faults = @ + 1]

LookBlind ==
  /\ run.pc = "look"
  /\ run' = [run EXCEPT !.pc = "check"]
  /\ UNCHANGED <<config, live, remote, receipts, used>>

\* find_existing_disclosure: a review posted before its answer was lost is
\* taken for this one.  A first attempt that cannot look goes on.
Look ==
  /\ run.pc = "look"
  /\ \/ /\ run' = IF posts[run.head] > 0
                    THEN [run EXCEPT !.pc = "finish", !.url = "review"]
                    ELSE [run EXCEPT !.pc = "check"]
        /\ UNCHANGED used
     \/ /\ Fault /\ ~run.recovering
        /\ run' = [run EXCEPT !.pc = "check"]
  /\ UNCHANGED <<config, live, remote, receipts>>

\* live_comments_allowed.
Check ==
  /\ run.pc = "check"
  /\ run' = [run EXCEPT !.pc = IF live THEN "post" ELSE "finish"]
  /\ UNCHANGED <<config, live, remote, receipts, used>>

\* publish_review, whose answer may be lost.
Post ==
  /\ run.pc = "post"
  /\ posts' = [posts EXCEPT ![run.head] = @ + 1]
  /\ \/ run' = [run EXCEPT !.pc = "finish", !.url = "review"] /\ UNCHANGED used
     \/ Fault /\ run' = [run EXCEPT !.pc = "idle"]
  /\ UNCHANGED <<config, live, base, branch, pull, dismissed, receipts>>

\* create_sync_pr: clone_repository, find_sync_pr and the remote branch.
Find ==
  /\ run.pc = "find"
  /\ run' = [run EXCEPT !.pc = "checkout", !.existing = pull = "open"]
  /\ UNCHANGED <<config, live, remote, receipts, used>>

combine_reports_after(old, new) == old \o new

\* The new report first, the ones before it after it.
combine_reports(old, new) == new \o old

base_branch == base

\* An open pull request's branch is added to; a branch left from a closed or
\* merged one is started again from the base.
checkout_report_branch == IF run.existing THEN branch ELSE base

\* A file that already is this report needs nothing; the URL is then the
\* open pull request's, or "unknown" if the report has been merged.
Checkout ==
  /\ run.pc = "checkout"
  /\ run' = IF checkout_report_branch = <<run.report>>
              THEN [run EXCEPT !.pc = "finish", !.url = "pull"]
              ELSE [run EXCEPT !.pc = "push",
                      !.file = combine_reports(checkout_report_branch, <<run.report>>)]
  /\ UNCHANGED <<config, live, remote, receipts, used>>

\* git push --force.
Push ==
  /\ run.pc = "push"
  /\ branch' = run.file
  /\ run' = [run EXCEPT !.pc = "find_again", !.file = << >>]
  /\ UNCHANGED <<config, live, posts, base, pull, dismissed, receipts, used>>

FindAgain ==
  /\ run.pc = "find_again"
  /\ run' = IF pull = "open" THEN [run EXCEPT !.pc = "finish", !.url = "pull"]
                             ELSE [run EXCEPT !.pc = "create"]
  /\ UNCHANGED <<config, live, remote, receipts, used>>

\* A forge refuses a second open pull request of one branch.
Create ==
  /\ run.pc = "create"
  /\ IF pull = "open"
       THEN run' = [run EXCEPT !.pc = "idle"] /\ UNCHANGED <<pull, used>>
       ELSE /\ pull' = "open"
            /\ \/ /\ run' = [run EXCEPT !.pc = "finish", !.url = "pull"]
                  /\ UNCHANGED used
               \/ Fault /\ run' = [run EXCEPT !.pc = "idle"]
  /\ UNCHANGED <<config, live, posts, base, branch, dismissed, receipts>>

\* finish_disclosure.
Finish ==
  /\ run.pc = "finish"
  /\ receipts' = [receipts EXCEPT ![run.head] =
       [status |-> "Published", url |-> run.url, report |-> run.report]]
  /\ run' = [run EXCEPT !.pc = "idle"]
  /\ UNCHANGED <<config, live, remote, used>>

\* A call that fails before it takes effect, or a daemon that stops: the
\* job is over and the receipt stays as it is.
Dies ==
  /\ run.pc # "idle" /\ Fault
  /\ run' = [run EXCEPT !.pc = "idle", !.file = << >>]
  /\ UNCHANGED <<config, live, remote, receipts>>

(***************************************************************************)
(* People.                                                                 *)
(***************************************************************************)
Act == used.people < MaxPeople /\ used' = [used EXCEPT !.people = @ + 1]

Turns ==
  /\ Act /\ live' = ~live
  /\ UNCHANGED <<config, remote, receipts, run>>

\* A branch that does not build on the base conflicts and is not merged.
Merge ==
  /\ Act /\ pull = "open"
  /\ \E n \in 0..Len(branch) : base = SubSeq(branch, n + 1, Len(branch))
  /\ pull' = "merged" /\ base' = branch
  /\ UNCHANGED <<config, live, posts, branch, dismissed, receipts, run>>

Dismiss ==
  /\ Act /\ pull = "open"
  /\ pull' = "closed" /\ dismissed' = dismissed \cup In(branch)
  /\ UNCHANGED <<config, live, posts, base, branch, receipts, run>>

Reopen ==
  /\ Act /\ pull = "closed" /\ pull' = "open"
  /\ UNCHANGED <<config, live, posts, base, branch, dismissed, receipts, run>>

Finalizing ==
  \/ Begin \/ Look \/ Check \/ Post \/ Find \/ Checkout \/ Push
  \/ FindAgain \/ Create \/ Finish

People == Turns \/ Merge \/ Dismiss \/ Reopen

Next == ReviewEnds \/ Finalizing \/ Dies \/ People

Spec == Init /\ [][Next]_vars

(***************************************************************************)
(* Properties.                                                             *)
(***************************************************************************)
Kept(r) == r \in In(base) \/ r \in dismissed \/ (pull = "open" /\ r \in In(branch))

\* A receipt that names a sync pull request stands for a report that is on
\* the base branch or on the open pull request, or that people dismissed:
\* no later finalization's force push drops it, whatever people merge,
\* close and reopen meanwhile (disclose.rs:800-930).
NothingIsLost ==
  \A h \in Heads : receipts[h].url = "pull" => Kept(receipts[h].report)

\* The latest report leads the file, and every one after it is older
\* (combine_reports, disclose.rs:1090).
NewestFirst ==
  \A file \in {base, branch} :
    \A i, j \in DOMAIN file : i < j => file[j] <= file[i]

\* A commit is reviewed on the pull request once, however often its
\* finalization dies or its answers are lost, and a receipt that names the
\* review is right about it (find_existing_disclosure, disclose.rs:424).
OneReviewPerCommit ==
  \A h \in Heads :
    posts[h] <= 1 /\ (receipts[h].url = "review" => posts[h] = 1)

=============================================================================
