----------------------------- MODULE IssueTriage -----------------------------
(***************************************************************************)
(* The triage of one issue without a trigger mention (issues/triage.rs,    *)
(* coverage.rs, workflow.rs, jev.rs).  Each polling cycle takes the        *)
(* inventory of the repository; a pass over the issue asks a model, Jev,   *)
(* to classify it, screens every other item of the inventory in batches,   *)
(* investigates what screening leaves open one by one, and marks the issue *)
(* with the decision.  Every judgement is stored as soon as it is paid for *)
(* under a key of its evidence.  A pass may run out of budget, be refused  *)
(* or paused by Jev or by GitHub, or die; people edit items at any time.   *)
(*                                                                         *)
(* Contents are version numbers.  The coding worker an eligible decision   *)
(* starts is the subject of IssueFix and IssueWorker.                      *)
(***************************************************************************)
EXTENDS Naturals, Sequences, FiniteSets

CONSTANTS Candidates,       \* the other items, as a sequence in order of priority
          Pulls,            \* those that are pull requests
          Newer,            \* those opened after the issue
          Classes,          \* what Jev may say of the issue itself
          BatchSize, MaxInvestigations,  \* CoverageConfig
          Budget,           \* max_jev_cost_usd, in the price of one comparison
          InvestigationBudget, \* max_investigation_cost_usd
          MaxEdits,         \* bound on edits by people
          MaxFaults,        \* bound on failing calls and crashes
          Unknown, Partly     \* no value; labels and comment under way

Items == {Candidates[i] : i \in DOMAIN Candidates}

AllClasses == {"eligible", "ready", "needs_info", "needs_decision", "needs_review"}
Outcomes == {"same", "related", "different", "uncertain"}
Versions == 0..MaxEdits
\* The evidence of a decision: the issue as it was read, the inventory.
Evidence == [issue : Versions, items : [Items -> Versions]]

ASSUME TriageAssumption ==
  /\ Candidates \in Seq(Items)
  /\ Pulls \cup Newer \subseteq Items /\ Classes \subseteq AllClasses
  /\ BatchSize \in Nat \ {0} /\ Budget \in Nat \ {0, 1}  \* a request can be paid for
  /\ {MaxInvestigations, InvestigationBudget, MaxEdits, MaxFaults} \subseteq Nat

VARIABLES
  world,    \* the contents on GitHub: of the issue, whether it is open, of the others
  size,     \* how a request about a candidate compares with the limits
  answers,  \* ANSWERS: the newest judgement of each kind
  record,   \* the Record of the issue
  marked,   \* what its labels and comment show
  paused,   \* who asked for no requests: Jev's cooldown, GitHub's rate limit
  pass,     \* the pass under way
  used      \* what the bounds count

triageVars == <<world, size, answers, record, marked, paused, pass, used>>

\* A decision is what Jev said of the issue and what was found of the rest.
Decisions == [class : Classes \cup {"oversized"}, found : [Items -> Outcomes \cup {Unknown}]]
Routes == {"Addressed", "Duplicate", "NeedsInfo", "NeedsDecision", "NeedsReview", "Ready"}
Steps == {"idle", "read", "classify", "screen", "investigate", "decide", "check", "mark", "commit"}

\* comparison_question: without its diff, a pull request is only screened
\* for relevance.  A choice below the threshold counts as uncertain.
Choices(c) == IF c \in Pulls THEN {"relevant", "different", "uncertain"} ELSE Outcomes

Worlds == [issue : Versions, open : BOOLEAN, items : [Items -> Versions]]
Classifications == [issue : Versions, choice : Classes]
Screenings == [issue : Versions, item : Versions, choice : Outcomes \cup {"relevant"}]
Investigations == [issue : Versions, item : Versions, diff : Versions, choice : Outcomes]

ASSUME UnknownIsNoValue ==
  /\ Unknown \notin AllClasses \cup Outcomes \cup {"oversized", "relevant"}
  /\ Unknown \notin Evidence \cup Classifications \cup Screenings \cup Investigations

Answers == [class : Classifications \cup {Unknown},
            screening : [Items -> Screenings \cup {Unknown}],
            investigation : [Items -> Investigations \cup {Unknown}]]
Retries == [evidence : Evidence, waiting : BOOLEAN, permanent : BOOLEAN]
Records == [fingerprint : Evidence \cup {Unknown}, decision : Decisions \cup {Unknown},
            retry : Retries \cup {Unknown}]
Markings == [class : Classes \cup {"oversized"}, route : Routes,
          matches : SUBSET Items, related : SUBSET Items]
\* rest: what is still to be screened or investigated, beyond the batches.
Passes == [pc : Steps, evidence : Evidence, class : Classes \cup {"oversized", Unknown},
           found : [Items -> Outcomes \cup {"relevant", Unknown}],
           rest : SUBSET Items, batches : Seq((SUBSET Items) \ {{}}),
           cost : 0..Budget, limit : 0..Budget, investigations : 0..MaxInvestigations]

TriageTypeOK ==
  /\ world \in Worlds /\ size \in [Items -> {"small", "dense", "huge"}]
  /\ answers \in Answers /\ record \in Records /\ pass \in Passes
  /\ marked \in Markings \cup {Unknown, Partly} /\ paused \subseteq {"jev", "github"}
  /\ used \in [edits : 0..MaxEdits, faults : 0..MaxFaults]

Nothing == [c \in Items |-> Unknown]

Idle == [pc |-> "idle", evidence |-> [issue |-> 0, items |-> [c \in Items |-> 0]],
         class |-> Unknown, found |-> Nothing, rest |-> {}, batches |-> << >>,
         cost |-> 0, limit |-> 0, investigations |-> 0]

TriageInit ==
  /\ world = [issue |-> 0, open |-> TRUE, items |-> [c \in Items |-> 0]]
  /\ size \in [Items -> {"small", "dense", "huge"}]
  /\ answers = [class |-> Unknown, screening |-> Nothing, investigation |-> Nothing]
  /\ record = [fingerprint |-> Unknown, decision |-> Unknown, retry |-> Unknown]
  /\ marked = Unknown /\ paused = {} /\ pass = Idle
  /\ used = [edits |-> 0, faults |-> 0]

Proceed(pc) == pass' = [pass EXCEPT !.pc = pc]

Fault == used.faults < MaxFaults /\ used' = [used EXCEPT !.faults = @ + 1]

(***************************************************************************)
(* A decision (WorkEvidence::record, classify_route, fix_kind).            *)
(***************************************************************************)
\* The oldest of several reports is the one that is kept.
Matches(d) == {c \in Items : d.found[c] = "same" /\ c \notin Newer \ Pulls}

Related(d) ==
  {c \in Items : d.found[c] = "related" \/ (d.found[c] = "same" /\ c \in Newer \ Pulls)}

Unresolved(d) == {c \in Items : d.found[c] = "uncertain"}

RouteOf(d) ==
  IF Matches(d) \cap Pulls # {} THEN "Addressed"
  ELSE IF Matches(d) # {} THEN "Duplicate"
  ELSE CASE d.class = "needs_info" -> "NeedsInfo"
         [] d.class = "needs_decision" -> "NeedsDecision"
         [] d.class \in {"needs_review", "oversized"} -> "NeedsReview"
         [] d.class \in {"ready", "eligible"} -> "Ready"

\* Ready work of a kind and in areas that allow it, with nothing open.
Eligible(d) == RouteOf(d) = "Ready" /\ d.class = "eligible" /\ Unresolved(d) = {}

\* What the labels and the comment say; what is unresolved stays internal.
Marks(d) == [class |-> d.class, route |-> RouteOf(d),
             matches |-> Matches(d), related |-> Related(d)]

(***************************************************************************)
(* A pass begins.                                                          *)
(***************************************************************************)
\* A cycle waits for Jev and GitHub and reads the inventory of all items.
Inventory ==
  /\ pass.pc = "idle" /\ paused = {}
  /\ pass' = [pass EXCEPT !.pc = "read", !.evidence.items = world.items]
  /\ UNCHANGED <<world, size, answers, record, marked, paused, used>>

Blocks(retry, evidence) ==
  retry # Unknown /\ retry.evidence = evidence /\ (retry.permanent \/ retry.waiting)

\* The issue is read again; a pass over the same evidence is not repeated,
\* and one that failed is not until its delay is over.
ReadIssue ==
  LET evidence == [pass.evidence EXCEPT !.issue = world.issue] IN
  /\ pass.pc = "read"
  /\ pass' = IF ~world.open \/ record.fingerprint = evidence \/ Blocks(record.retry, evidence)
               THEN Idle
               ELSE [pass EXCEPT !.pc = "classify", !.evidence = evidence]
  /\ UNCHANGED <<world, size, answers, record, marked, paused, used>>

(***************************************************************************)
(* Requests to Jev.                                                        *)
(***************************************************************************)
\* The estimate of a request of n questions: theirs, and one for the rest.
Estimate(n) == n + 1

\* A request is charged what it used, which its estimate bounds.
Spent(n) == {pass.cost + charge : charge \in 0..Estimate(n)}

\* The pass fails for this evidence: Jev is overloaded or cooling down, it
\* refuses the request for good, another error, an answer that is not valid.
RequestFails ==
  /\ Fault
  /\ \E permanent, overload \in BOOLEAN :
       /\ ~(permanent /\ overload)
       /\ paused' = IF overload THEN paused \cup {"jev"} ELSE paused
       /\ record' = [record EXCEPT !.retry = [evidence |-> pass.evidence, waiting |-> TRUE,
                                              permanent |-> permanent]]
  /\ pass' = Idle
  /\ UNCHANGED <<world, size, answers, marked>>

\* Nothing is left of the budget of this pass for the next request.
OutOfBudget ==
  /\ record' = [record EXCEPT !.retry = [evidence |-> pass.evidence, waiting |-> TRUE,
                                         permanent |-> FALSE]]
  /\ pass' = Idle
  /\ UNCHANGED <<world, size, answers, marked, paused, used>>

\* Mutant: judgements are not looked up.
KeptNever(answer, c) == FALSE

\* Judgements are kept under the evidence they were made from.
Kept(answer, c) ==
  /\ answer # Unknown
  /\ answer.issue = pass.evidence.issue /\ answer.item = pass.evidence.items[c]

\* What is known without a request, and what there is to screen.
Screening(class, cost) ==
  LET known == [c \in Items |->
                  IF size[c] = "huge" THEN "uncertain"
                  ELSE IF Kept(answers.screening[c], c) THEN answers.screening[c].choice
                  ELSE Unknown]
  IN [pass EXCEPT !.pc = "screen", !.class = class, !.cost = cost, !.found = known,
                  !.rest = {c \in Items : known[c] = Unknown}]

ClassKnown == answers.class # Unknown /\ answers.class.issue = pass.evidence.issue

\* The classification of this issue is known, or asked for and kept; an
\* issue that is too large for Jev is left to a maintainer.
Classify ==
  /\ pass.pc = "classify"
  /\ \/ /\ ClassKnown
        /\ pass' = Screening(answers.class.choice, 0)
        /\ UNCHANGED answers
     \/ /\ ~ClassKnown
        /\ \/ \E class \in Classes, cost \in Spent(1) :
                /\ answers' = [answers EXCEPT !.class = [issue |-> pass.evidence.issue,
                                                         choice |-> class]]
                /\ pass' = Screening(class, cost)
           \/ /\ pass' = [pass EXCEPT !.pc = "decide", !.class = "oversized"]
              /\ UNCHANGED answers
  /\ UNCHANGED <<world, size, record, marked, paused, used>>

ClassifyFails == pass.pc = "classify" /\ RequestFails

(***************************************************************************)
(* Screening.                                                              *)
(***************************************************************************)
\* The first ones of some candidates, in the order of priority.
Ahead(c, d) == \E i, j \in DOMAIN Candidates : i < j /\ Candidates[i] = c /\ Candidates[j] = d

Firsts(S) == {first \in SUBSET S : \A c \in first, d \in S \ first : Ahead(c, d)}

\* A batch ends at its configured size, or earlier by an estimate of what
\* fits into a request.
TakeBatch ==
  /\ pass.pc = "screen" /\ pass.batches = << >> /\ pass.rest # {}
  /\ \E batch \in Firsts(pass.rest) \ {{}} :
       /\ Cardinality(batch) <= BatchSize
       /\ pass' = [pass EXCEPT !.batches = <<batch>>, !.rest = @ \ batch]
  /\ UNCHANGED <<world, size, answers, record, marked, paused, used>>

Screens == pass.pc = "screen" /\ pass.batches # << >>

Batch == Head(pass.batches)

Affordable(n) == pass.cost + Estimate(n) <= Budget

\* A batch that is too dear, or rejected as too large, is split in two.
Split ==
  /\ Screens /\ Cardinality(Batch) > 1
  /\ \E half \in Firsts(Batch) \ {{}, Batch} :
       /\ Cardinality(half) = Cardinality(Batch) \div 2
       /\ pass' = [pass EXCEPT !.batches = <<half, Batch \ half>> \o Tail(@)]
  /\ UNCHANGED <<world, size, answers, record, marked, paused, used>>

Alone(c) == Screens /\ Batch = {c}

Unaffordable ==
  /\ \E c \in Items : Alone(c)
  /\ ~Affordable(1) /\ OutOfBudget

\* Mutant: an item that could not be asked about is passed over.
RejectedAloneIgnored ==
  /\ \E c \in Items :
       /\ Alone(c) /\ Affordable(1) /\ size[c] = "dense"
       /\ pass' = [pass EXCEPT !.found[c] = "different", !.batches = Tail(@)]
  /\ UNCHANGED <<world, size, answers, record, marked, paused, used>>

\* A single item that is rejected stays unresolved.
RejectedAlone ==
  /\ \E c \in Items :
       /\ Alone(c) /\ Affordable(1) /\ size[c] = "dense"
       /\ pass' = [pass EXCEPT !.found[c] = "uncertain", !.batches = Tail(@)]
  /\ UNCHANGED <<world, size, answers, record, marked, paused, used>>

Answerable ==
  Screens /\ Affordable(Cardinality(Batch)) /\ \A c \in Batch : size[c] = "small"

WithAnswers(batch, choice) ==
  [answers EXCEPT !.screening = [c \in Items |->
     IF c \in batch THEN [issue |-> pass.evidence.issue, item |-> pass.evidence.items[c],
                          choice |-> choice[c]]
     ELSE answers.screening[c]]]

\* What Jev may say of the items of the batch, and what it may charge.
Replies == {choice \in [Batch -> Outcomes \cup {"relevant"}] :
              \A c \in Batch : choice[c] \in Choices(c)}

WithFound(choice, cost) ==
  [pass EXCEPT !.cost = cost, !.batches = Tail(@),
     !.found = [c \in Items |-> IF c \in Batch THEN choice[c] ELSE @[c]]]

\* Mutant: answers are only kept in memory.
ScreenedUnsaved ==
  /\ Answerable
  /\ \E choice \in Replies, cost \in Spent(Cardinality(Batch)) : pass' = WithFound(choice, cost)
  /\ UNCHANGED <<world, size, answers, record, marked, paused, used>>

\* The answers of a batch are stored one by one.
Screened ==
  /\ Answerable
  /\ \E choice \in Replies, cost \in Spent(Cardinality(Batch)) :
       \/ /\ answers' = WithAnswers(Batch, choice)
          /\ pass' = WithFound(choice, cost)
          /\ UNCHANGED used
       \/ \E stored \in Firsts(Batch) \ {{}, Batch} :
            /\ Fault
            /\ answers' = WithAnswers(stored, choice)
            /\ pass' = Idle
  /\ UNCHANGED <<world, size, record, marked, paused>>

ScreenFails == Screens /\ Affordable(Cardinality(Batch)) /\ RequestFails

(***************************************************************************)
(* Investigation of what is left open.                                     *)
(***************************************************************************)
Lesser(m, n) == IF m < n THEN m ELSE n

NeedsInvestigation(c) ==
  IF c \in Pulls THEN pass.found[c] # "different" ELSE pass.found[c] = "uncertain"

StartInvestigating ==
  /\ pass.pc = "screen" /\ pass.batches = << >> /\ pass.rest = {}
  /\ pass' = [pass EXCEPT !.pc = "investigate",
                !.rest = {c \in Items : NeedsInvestigation(c)},
                !.limit = Lesser(Budget, pass.cost + InvestigationBudget)]
  /\ UNCHANGED <<world, size, answers, record, marked, paused, used>>

Investigates == pass.pc = "investigate" /\ pass.rest # {}

Subject == CHOOSE c \in pass.rest : {c} \in Firsts(pass.rest)

Resolved(outcome, cost, more) ==
  pass' = [pass EXCEPT !.found[Subject] = outcome, !.rest = @ \ {Subject}, !.cost = cost,
                       !.investigations = @ + more]

\* The diff of a pull request as it is now; it is looked at before and
\* after, so that one that moves in between fails the pass.
Diff(c) == world.items[c]

\* GitHub refuses large diffs, and more than a limit is not read.
MayLackDiff(c) == c \in Pulls

\* Judgements about a pull request were made with its diff.
Investigated(c) ==
  /\ Kept(answers.investigation[c], c)
  /\ c \in Pulls => answers.investigation[c].diff = Diff(c)

\* That of an issue is looked up before the limits, that of a pull request
\* when its diff is at hand.
LimitReached ==
  /\ pass.investigations >= MaxInvestigations \/ pass.cost >= pass.limit
  /\ Subject \in Pulls \/ ~Investigated(Subject)

\* It has been investigated before.
Recall ==
  /\ Investigates /\ Investigated(Subject) /\ ~LimitReached /\ size[Subject] # "huge"
  /\ Resolved(answers.investigation[Subject].choice, pass.cost,
              IF Subject \in Pulls THEN 1 ELSE 0)
  /\ UNCHANGED <<world, size, answers, record, marked, paused, used>>

\* A limit is reached, the diff is too large to be had, the request is too
\* large or rejected, or the budget too small: the item stays unresolved.
NotInvestigated ==
  /\ Investigates
  /\ \/ LimitReached /\ Resolved("uncertain", pass.cost, 0)
     \/ /\ ~LimitReached
        /\ \/ MayLackDiff(Subject) \/ size[Subject] = "huge"
           \/ ~Investigated(Subject) /\ (size[Subject] = "dense" \/ pass.cost + Estimate(1) > pass.limit)
        /\ Resolved("uncertain", pass.cost, 1)
  /\ UNCHANGED <<world, size, answers, record, marked, paused, used>>

Asks == /\ Investigates /\ ~LimitReached /\ ~Investigated(Subject)
        /\ size[Subject] # "huge" /\ pass.cost + Estimate(1) <= pass.limit

Investigate ==
  /\ Asks /\ size[Subject] = "small"
  /\ \E outcome \in Outcomes, cost \in Spent(1) :
       /\ answers' = [answers EXCEPT !.investigation[Subject] =
            [issue |-> pass.evidence.issue, item |-> pass.evidence.items[Subject],
             diff |-> Diff(Subject), choice |-> outcome]]
       /\ Resolved(outcome, cost, 1)
  /\ UNCHANGED <<world, size, record, marked, paused, used>>

InvestigationFails ==
  /\ Investigates /\ ~LimitReached /\ (Asks \/ Subject \in Pulls)
  /\ RequestFails

(***************************************************************************)
(* The decision and its marks.                                             *)
(***************************************************************************)
Decision == [class |-> pass.class, found |-> pass.found]

\* Mutant: the evidence is taken as handled with the decision.
DecideAndCommit ==
  /\ \/ pass.pc = "investigate" /\ pass.rest = {}
     \/ pass.pc = "decide"
  /\ record' = [fingerprint |-> pass.evidence, decision |-> Decision, retry |-> Unknown]
  /\ Proceed("check")
  /\ UNCHANGED <<world, size, answers, marked, paused, used>>

\* The decision is saved before anything is done about it.
Decide ==
  /\ \/ pass.pc = "investigate" /\ pass.rest = {}
     \/ pass.pc = "decide"
  /\ record' = [record EXCEPT !.decision = Decision, !.retry = Unknown]
  /\ Proceed("check")
  /\ UNCHANGED <<world, size, answers, marked, paused, used>>

\* An issue that was closed or changed is not marked.
CheckIssue ==
  /\ pass.pc = "check"
  /\ IF world.open /\ world.issue = pass.evidence.issue THEN Proceed("mark") ELSE pass' = Idle
  /\ UNCHANGED <<world, size, answers, record, marked, paused, used>>

\* Labels go and come and the comment is written in calls of their own.
StartMarking ==
  /\ pass.pc = "mark" /\ marked \notin {Partly, Marks(record.decision)}
  /\ marked' = Partly
  /\ UNCHANGED <<world, size, answers, record, paused, pass, used>>

EndMarking ==
  /\ pass.pc = "mark" /\ marked \in {Partly, Marks(record.decision)}
  /\ marked' = Marks(record.decision)
  /\ Proceed("commit")
  /\ UNCHANGED <<world, size, answers, record, paused, used>>

Commit ==
  /\ pass.pc = "commit"
  /\ record' = [record EXCEPT !.fingerprint = pass.evidence]
  /\ pass' = Idle
  /\ UNCHANGED <<world, size, answers, marked, paused, used>>

(***************************************************************************)
(* Failures, time and people.                                              *)
(***************************************************************************)
\* A call to GitHub fails, or the daemon dies and is started again, which
\* forgets whom it was to wait for.
Interrupted ==
  /\ pass.pc # "idle" /\ Fault
  /\ paused' \in {paused, paused \cup {"github"}, {}}
  /\ pass' = Idle
  /\ UNCHANGED <<world, size, answers, record, marked>>

PauseEnds ==
  /\ paused # {} /\ paused' = {}
  /\ UNCHANGED <<world, size, answers, record, marked, pass, used>>

DelayEnds ==
  /\ record.retry # Unknown /\ record.retry.waiting
  /\ record' = [record EXCEPT !.retry.waiting = FALSE]
  /\ UNCHANGED <<world, size, answers, marked, paused, pass, used>>

MayEdit == used.edits < MaxEdits /\ used' = [used EXCEPT !.edits = @ + 1]

EditIssue ==
  /\ MayEdit
  /\ \/ world' = [world EXCEPT !.issue = @ + 1]
     \/ world' = [world EXCEPT !.open = FALSE]
  /\ UNCHANGED <<size, answers, record, marked, paused, pass>>

EditItem(c) ==
  /\ MayEdit /\ world' = [world EXCEPT !.items[c] = @ + 1]
  /\ UNCHANGED <<size, answers, record, marked, paused, pass>>

-----------------------------------------------------------------------------
Pass ==
  \/ Inventory \/ ReadIssue \/ Classify
  \/ TakeBatch \/ Split \/ Unaffordable \/ RejectedAlone \/ Screened \/ StartInvestigating
  \/ Recall \/ NotInvestigated \/ Investigate
  \/ Decide \/ CheckIssue \/ StartMarking \/ EndMarking \/ Commit

Fails == ClassifyFails \/ ScreenFails \/ InvestigationFails \/ Interrupted

TriageNext ==
  \/ Pass \/ Fails \/ PauseEnds \/ DelayEnds
  \/ EditIssue \/ \E c \in Items : EditItem(c)

TriageSpec == TriageInit /\ [][TriageNext]_triageVars

\* The cycles of the workflow go on, and what it waits for passes.
FairTriageSpec ==
  /\ TriageSpec
  /\ WF_triageVars(Pass) /\ WF_triageVars(PauseEnds) /\ WF_triageVars(DelayEnds)

-----------------------------------------------------------------------------
(***************************************************************************)
(* Properties.                                                             *)
(***************************************************************************)
Deciding == pass.pc \in {"check", "mark", "commit"}

Judged(answer, c, choices) == Kept(answer, c) /\ answer.choice \in choices

\* A fix is authorized only if every other item was compared with the
\* issue, none fell out of a batch, was too large, too dear or too many to
\* be asked about, and none turned out to be the same work
\* (coverage.rs:133, triage.rs:273).
AutomationIsCovered ==
  Deciding /\ Eligible(record.decision) =>
    /\ answers.class = [issue |-> pass.evidence.issue, choice |-> "eligible"]
    /\ \A c \in Items :
         LET clear == {"different", "related"} \cup (IF c \in Newer \ Pulls THEN {"same"} ELSE {})
         IN \/ Judged(answers.screening[c], c, IF c \in Pulls THEN {"different"} ELSE clear)
            \/ Judged(answers.investigation[c], c, clear)

\* What the issue is said to match or to be related to was judged so from
\* this evidence, a pull request with its diff: what is unresolved is never
\* shown as a relationship ("cannot establish a public relationship",
\* triage.rs:287).
PublicClaimsAreBacked ==
  LET shown == Marks(record.decision) IN
  Deciding => \A c \in shown.matches \cup shown.related :
    \/ Judged(answers.investigation[c], c, {"same", "related"})
    \/ c \notin Pulls /\ Judged(answers.screening[c], c, {"same", "related"})

\* What a pass decides stands on judgements of the evidence it was given.
DecisionIsBacked == AutomationIsCovered /\ PublicClaimsAreBacked

\* Evidence that counts as handled has its decision on the issue: a crash or
\* failing call on the way never leaves the issue unmarked for good
\* (workflow.rs:599, :889).
CommittedIsMarked ==
  record.fingerprint = [issue |-> world.issue, items |-> world.items] =>
    marked = Marks(record.decision)

\* A judgement that was paid for is not asked for again: later passes find
\* it, whatever failed after it, be it the classification of the issue
\* (triage.rs:75), the screening of an item (coverage.rs:203) or its
\* investigation (coverage.rs:486).
JudgmentsAreFinal ==
  [][/\ LET before == answers.class
            after == answers'.class
        IN before # after /\ before # Unknown => before.issue # after.issue
     /\ \A kind \in {"screening", "investigation"}, c \in Items :
          LET before == answers[kind][c]
              after == answers'[kind][c]
          IN before # after /\ before # Unknown =>
               \/ before.issue # after.issue \/ before.item # after.item
               \/ kind = "investigation" /\ c \in Pulls /\ before.diff # after.diff]_triageVars

\* When people stop editing, the issue is marked with a decision on what
\* they wrote, even if no single pass can pay for all it takes; unless Jev
\* refuses it for good or the issue is closed.
IssueSettles ==
  LET now == [issue |-> world.issue, items |-> world.items] IN
  <>[](\/ ~world.open
       \/ record.fingerprint = now /\ marked = Marks(record.decision)
       \/ record.retry # Unknown /\ record.retry.evidence = now /\ record.retry.permanent)
=============================================================================
