---------------------------- MODULE ReviewAgent ----------------------------
(***************************************************************************)
(* One review of a commit, from its state check to its result              *)
(* (run_review, review.rs): the finder with its coordinator and the lanes  *)
(* of LaneRecovery, the verifier, the suppression of findings the pull     *)
(* request's discussion already reports, and the status of the whole.  Each*)
(* phase streams the replies of an agent, whose tool calls fill the        *)
(* reporting artifact (reporting.rs); each may run out of money, retries   *)
(* or time, or be cancelled.                                               *)
(***************************************************************************)
EXTENDS LaneRecovery

CONSTANTS MaxFindings,   \* candidates the coordinator submits at most
          MaxRetries,    \* max_retries of ReplyRetry
          Budgeted,      \* max_cost_usd is set and costs are known
          VerifyFindings,  \* verify_findings
          SummaryLane    \* a summary lane is configured

ASSUME AgentAssumption == /\ MaxFindings \in Nat /\ MaxRetries \in Nat
                          /\ Budgeted \in BOOLEAN /\ VerifyFindings \in BOOLEAN
                          /\ SummaryLane \in BOOLEAN

VARIABLES stage,      \* where run_review is
          artifact,   \* the reporting artifact
          inspected,  \* candidates whose files the verifier inspected
          cost,       \* what was spent, in the thresholds below
          retries,    \* ReplyRetry.retries of the phase
          nudged,     \* the finder was told to finish
          budgetHit,  \* budget_exceeded: the finder stopped at its limit
          ended,      \* how the finder's future ended
          leftover,   \* the report path holds a file of an earlier attempt
          drafts,     \* duplicate decisions of the resumed coordinator
          outcome     \* what the caller gets

agentVars == <<stage, artifact, inspected, cost, retries, nudged, budgetHit, ended,
               leftover, drafts, outcome>>
vars == <<laneVars, agentVars>>

Ids == 1..MaxFindings

(* Spending matters at three thresholds: 80% of the finder's budget, that  *)
(* budget (70% of the whole if there is to be a verifier), and the whole.  *)
Costs == 0..3
FinderLimit == IF VerifyFindings THEN 2 ELSE 3
Reached(limit) == Budgeted /\ cost >= limit

Verdicts   == {"none", "approve", "reject"}
Duplicates == {"none", "same", "stranger", "other"}
Artifact == [summary : BOOLEAN, findings : 0..MaxFindings, noFindings : BOOLEAN,
             verdicts : [Ids -> Verdicts], duplicates : [Ids -> Duplicates],
             budget : {"none", "finder", "verifier"}, verifierFailed : BOOLEAN,
             markdown : BOOLEAN, failure : BOOLEAN]
Statuses3 == {"unverified", "markdown-only", "confirmed", "already-reported", "none",
              "rejected"}

AgentTypeOK ==
    /\ LaneTypeOK
    /\ stage \in {"setup", "finder", "verifier", "suppress", "adjudicate", "done"}
    /\ artifact \in Artifact
    /\ inspected \subseteq Ids
    /\ cost \in Costs /\ retries \in 0..MaxRetries
    /\ nudged \in BOOLEAN /\ budgetHit \in BOOLEAN /\ leftover \in BOOLEAN
    /\ ended \in {"no", "ok", "error", "timeout"}
    /\ drafts \in [Ids -> Duplicates]
    /\ outcome \in Statuses3 \cup {"pending", "skipped", "failed"}

NoDecisions == [f \in Ids |-> "none"]

AgentInit ==
    /\ LaneInit
    /\ stage = "setup"
    /\ artifact = [summary |-> FALSE, findings |-> 0, noFindings |-> FALSE,
                   verdicts |-> NoDecisions, duplicates |-> NoDecisions, budget |-> "none",
                   verifierFailed |-> FALSE, markdown |-> FALSE, failure |-> FALSE]
    /\ inspected = {} /\ cost = 0 /\ retries = 0
    /\ nudged = FALSE /\ budgetHit = FALSE /\ ended = "no"
    /\ leftover \in BOOLEAN
    /\ drafts = NoDecisions
    /\ outcome = "pending"

-----------------------------------------------------------------------------
(* The artifact. *)

Found == 1..artifact.findings

Incomplete == artifact.failure \/ artifact.verifierFailed \/ artifact.budget # "none"
FinderComplete == artifact.noFindings \/ artifact.findings > 0
FinderCompleteWithSummary == FinderComplete /\ (SummaryLane => artifact.summary)
VerifierComplete ==
    /\ artifact.findings > 0
    /\ Cardinality({f \in Found : artifact.verdicts[f] # "none"}) >= artifact.findings

(* Mutant: a verdict is taken at its word. *)
AcceptedUninspected == {f \in Found : artifact.verdicts[f] = "approve"}

(* "approve" stands for a verdict that confirms the finding, traces it to  *)
(* the pull request, wants it disclosed and brings evidence and a body.    *)
Accepted == {f \in Found : artifact.verdicts[f] = "approve" /\ f \in inspected}

AlreadyReported == {f \in Accepted : artifact.duplicates[f] \in {"same", "stranger"}}
Publishable == IF Incomplete THEN {} ELSE Accepted \ AlreadyReported

Status ==
    IF Incomplete THEN "unverified"
    ELSE IF artifact.markdown THEN "markdown-only"
    ELSE IF Publishable # {} THEN "confirmed"
    ELSE IF AlreadyReported # {} THEN "already-reported"
    ELSE IF artifact.noFindings THEN "none" ELSE "rejected"

-----------------------------------------------------------------------------
(* Before the finder. *)

SkipReview ==
    /\ stage = "setup"
    /\ stage' = "done" /\ outcome' = "skipped"
    /\ UNCHANGED <<laneVars, artifact, inspected, cost, retries, nudged, budgetHit, ended,
                   leftover, drafts>>

SetupFails ==
    /\ stage = "setup"
    /\ stage' = "done" /\ outcome' = "failed"
    /\ UNCHANGED <<laneVars, artifact, inspected, cost, retries, nudged, budgetHit, ended,
                   leftover, drafts>>

(* What the discovery of skills has cost, and the lane selector, which is  *)
(* not asked if the finder's budget is gone by then.                       *)
SkillSpends == IF Budgeted THEN Costs ELSE {0}

LaneSelectionSpends(spent) ==
    IF Budgeted /\ spent < FinderLimit THEN spent..3 ELSE {spent}

(* The finder may have nothing left to spend; then it ends before it       *)
(* starts.                                                                 *)
StartFinder ==
    /\ stage = "setup" /\ stage' = "finder"
    /\ \E spent \in SkillSpends : cost' \in LaneSelectionSpends(spent)
    /\ IF Budgeted /\ cost' >= FinderLimit
       THEN /\ budgetHit' = TRUE /\ ended' = "ok"
            /\ FinderStops
       ELSE UNCHANGED <<laneVars, budgetHit, ended>>
    /\ UNCHANGED <<artifact, inspected, retries, nudged, leftover, drafts, outcome>>

-----------------------------------------------------------------------------
(* The finder. *)

Finding == stage = "finder" /\ finder = "running"

SubmitSummary ==
    /\ Finding /\ artifact' = [artifact EXCEPT !.summary = TRUE]
    /\ UNCHANGED <<laneVars, stage, inspected, cost, retries, nudged, budgetHit, ended,
                   leftover, drafts, outcome>>

(* Mutant: a candidate after the no-findings result is taken. *)
SubmitFindingLate ==
    /\ Finding /\ artifact.findings < MaxFindings
    /\ artifact' = [artifact EXCEPT !.findings = @ + 1]
    /\ UNCHANGED <<laneVars, stage, inspected, cost, retries, nudged, budgetHit, ended,
                   leftover, drafts, outcome>>

SubmitFinding ==
    /\ Finding /\ ~artifact.noFindings /\ artifact.findings < MaxFindings
    /\ artifact' = [artifact EXCEPT !.findings = @ + 1]
    /\ UNCHANGED <<laneVars, stage, inspected, cost, retries, nudged, budgetHit, ended,
                   leftover, drafts, outcome>>

SubmitNoFindings ==
    /\ Finding /\ artifact.findings = 0
    /\ artifact' = [artifact EXCEPT !.noFindings = TRUE]
    /\ UNCHANGED <<laneVars, stage, inspected, cost, retries, nudged, budgetHit, ended,
                   leftover, drafts, outcome>>

(* Agents and lanes are charged while they work; the host sees it at the   *)
(* next message or poll.                                                   *)
Charge ==
    /\ Budgeted /\ cost < 3
    /\ Finding \/ stage \in {"verifier", "adjudicate"}
    /\ cost' \in (cost + 1)..3
    /\ UNCHANGED <<laneVars, stage, artifact, inspected, retries, nudged, budgetHit, ended,
                   leftover, drafts, outcome>>

(* ReplyRetry: restart counts one retry, and one more for each start that  *)
(* fails, until they are used up; start alone counts only its failures.    *)
Restarted == retries < MaxRetries /\ retries' \in (retries + 1)..MaxRetries
Started   == retries' \in retries..MaxRetries

EndFinder(how) ==
    /\ ended' = how
    /\ FinderStops

(* The budget poll, or a message that comes with a cost at the limit. *)
FinderBudgetReached ==
    /\ Finding /\ Reached(FinderLimit)
    /\ budgetHit' = TRUE
    /\ EndFinder("ok")
    /\ UNCHANGED <<stage, artifact, inspected, cost, retries, nudged, leftover, drafts, outcome>>

(* At 80% the coordinator is told once, in a new stream that ends the old; *)
(* if it cannot be started the finder ends, in error if that is fatal.     *)
Nudge ==
    /\ Finding /\ Reached(1) /\ ~Reached(FinderLimit) /\ ~nudged
    /\ nudged' = TRUE
    /\ \/ Started /\ StreamReplaced /\ UNCHANGED ended
       \/ retries' = MaxRetries /\ EndFinder("ok")
       \/ UNCHANGED retries /\ EndFinder("error")
    /\ UNCHANGED <<stage, artifact, inspected, cost, budgetHit, leftover, drafts, outcome>>

(* A stream ends when its calls have returned.  It is followed by another  *)
(* unless the result is complete, the coordinator was told to finish and   *)
(* has retried, or the retries are used up.                                *)
FinderStreamEnds ==
    /\ Finding /\ \A c \in Calls : call[c].pc = "idle"
    /\ IF FinderCompleteWithSummary \/ (nudged /\ retries > 0) \/ retries = MaxRetries
       THEN EndFinder("ok") /\ UNCHANGED retries
       ELSE \/ Restarted /\ UNCHANGED <<laneVars, ended>>
            \/ UNCHANGED retries /\ EndFinder("error")
    /\ UNCHANGED <<stage, artifact, inspected, cost, nudged, budgetHit, leftover, drafts, outcome>>

FinderStreamBreaks ==
    /\ Finding
    /\ \/ Restarted /\ StreamReplaced /\ UNCHANGED ended
       \/ UNCHANGED retries /\ EndFinder("error")
    /\ UNCHANGED <<stage, artifact, inspected, cost, nudged, budgetHit, leftover, drafts, outcome>>

(* timeout_mins, or the cancellation of the review. *)
FinderInterrupted ==
    /\ Finding
    /\ \E how \in {"timeout", "error"} : EndFinder(how)
    /\ UNCHANGED <<stage, artifact, inspected, cost, retries, nudged, budgetHit, leftover,
                   drafts, outcome>>

(* The lanes work; a lane that is given up ends the finder in error. *)
LaneStep ==
    /\ stage = "finder"
    /\ \/ /\ \/ \E c \in Calls : CallStep(c)
             \/ \E t \in Tasks : TaskEnds(t)
             \/ CleanupStep
          /\ UNCHANGED ended
       \/ /\ \E S \in SUBSET Lanes : RecoveryPoll(S)
          /\ ended' = "error"
    /\ UNCHANGED <<stage, artifact, inspected, cost, retries, nudged, budgetHit, leftover,
                   drafts, outcome>>

-----------------------------------------------------------------------------
(* After the finder. *)

StoppedEarly == ended # "ok" \/ ~allDone

(* What there is of the finder's work is kept, and the review fails. *)
SaveIncomplete ==
    /\ stage = "finder" /\ finder = "over" /\ StoppedEarly
    /\ artifact' = [artifact EXCEPT !.failure = TRUE]
    /\ stage' = "done" /\ outcome' = "failed"
    /\ UNCHANGED <<laneVars, inspected, cost, retries, nudged, budgetHit, ended, leftover, drafts>>

NoResult ==
    /\ stage = "finder" /\ finder = "over" /\ ~StoppedEarly
    /\ ~FinderComplete /\ ~leftover /\ ~budgetHit
    /\ stage' = "done" /\ outcome' = "failed"
    /\ UNCHANGED <<laneVars, artifact, inspected, cost, retries, nudged, budgetHit, ended,
                   leftover, drafts>>

(* A structured result, or a file at the report's path in its place, or a  *)
(* finder stopped by its budget with all lanes done.  The verifier starts  *)
(* if it may spend anything.                                               *)
BuildArtifact ==
    LET verify == VerifyFindings /\ artifact.findings > 0
        broke  == verify /\ Reached(3)
    IN
    /\ stage = "finder" /\ finder = "over" /\ ~StoppedEarly
    /\ FinderComplete \/ leftover \/ budgetHit
    /\ stage' = IF verify /\ ~broke THEN "verifier" ELSE "suppress"
    /\ artifact' = [artifact EXCEPT
                      !.markdown = ~FinderComplete /\ leftover,
                      !.budget = IF broke THEN "verifier" ELSE IF budgetHit THEN "finder" ELSE @,
                      !.verifierFailed = artifact.findings > 0 /\ (~VerifyFindings \/ broke)]
    /\ retries' = 0
    /\ UNCHANGED <<laneVars, inspected, cost, nudged, budgetHit, ended, leftover, drafts, outcome>>

-----------------------------------------------------------------------------
(* The verifier. *)

Inspect(f) ==
    /\ stage = "verifier"
    /\ inspected' = inspected \cup {f}
    /\ UNCHANGED <<laneVars, stage, artifact, cost, retries, nudged, budgetHit, ended, leftover,
                   drafts, outcome>>

(* A later verdict replaces an earlier one of the same finding. *)
SubmitVerdict(f, v) ==
    /\ stage = "verifier"
    /\ artifact' = [artifact EXCEPT !.verdicts[f] = v]
    /\ UNCHANGED <<laneVars, stage, inspected, cost, retries, nudged, budgetHit, ended, leftover,
                   drafts, outcome>>

EndVerifier(exceeded) ==
    /\ stage' = "suppress"
    /\ artifact' = IF VerifierComplete THEN artifact
                   ELSE [artifact EXCEPT !.verifierFailed = TRUE,
                                         !.budget = IF exceeded THEN "verifier" ELSE @]

(* A message comes with a cost at the limit. *)
VerifierBudgetReached ==
    /\ stage = "verifier" /\ Reached(3)
    /\ EndVerifier(TRUE)
    /\ UNCHANGED <<laneVars, inspected, cost, retries, nudged, budgetHit, ended, leftover, drafts,
                   outcome>>

VerifierStreamEnds ==
    /\ stage = "verifier"
    /\ \/ /\ VerifierComplete \/ retries = MaxRetries
          /\ EndVerifier(FALSE) /\ UNCHANGED retries
       \/ ~VerifierComplete /\ Restarted /\ UNCHANGED <<stage, artifact>>
    /\ UNCHANGED <<laneVars, inspected, cost, nudged, budgetHit, ended, leftover, drafts, outcome>>

VerifierStreamBreaks ==
    /\ stage = "verifier" /\ Restarted
    /\ UNCHANGED <<laneVars, stage, artifact, inspected, cost, nudged, budgetHit, ended, leftover,
                   drafts, outcome>>

(* The verifier times out, is cancelled, cannot be set up, or breaks for   *)
(* the last time.                                                          *)
VerifierFails ==
    /\ stage = "verifier"
    /\ stage' = "done" /\ outcome' = "failed"
    /\ UNCHANGED <<laneVars, artifact, inspected, cost, retries, nudged, budgetHit, ended,
                   leftover, drafts>>

-----------------------------------------------------------------------------
(* Duplicates of what the discussion already says. *)

(* The review is cancelled before its findings are final. *)
Cancelled ==
    /\ stage \in {"suppress", "adjudicate"}
    /\ stage' = "done" /\ outcome' = "failed"
    /\ UNCHANGED <<laneVars, artifact, inspected, cost, retries, nudged, budgetHit, ended,
                   leftover, drafts>>

(* Suppression is off, not possible, needless or too dear, or there is no  *)
(* discussion.  The review is finished.                                    *)
Report(duplicates) ==
    /\ artifact' = [artifact EXCEPT !.duplicates = duplicates]
    /\ stage' = "done" /\ UNCHANGED inspected
    /\ outcome' = Status'

NoSuppression ==
    /\ stage = "suppress"
    /\ Report(artifact.duplicates)
    /\ UNCHANGED <<laneVars, cost, retries, nudged, budgetHit, ended, leftover, drafts>>

(* Jev decides some of the accepted findings, from comments it was given;  *)
(* if some are left, and money, the coordinator is resumed for them.       *)
JevDecides ==
    /\ stage = "suppress"
    /\ ~artifact.markdown /\ ~Incomplete /\ ~Reached(3) /\ Accepted # {}
    /\ \E S \in SUBSET Accepted : \E decision \in [S -> {"same", "other"}] :
         LET decided == [f \in Ids |-> IF f \in S THEN decision[f] ELSE "none"] IN
         \/ /\ \/ S = Accepted /\ UNCHANGED cost
               \/ Budgeted /\ cost' = 3
            /\ Report(decided)
         \/ /\ S # Accepted
            /\ artifact' = [artifact EXCEPT !.duplicates = decided]
            /\ stage' = "adjudicate" /\ UNCHANGED <<inspected, cost, outcome>>
    /\ retries' = 0
    /\ UNCHANGED <<laneVars, nudged, budgetHit, ended, leftover, drafts>>

Pending == {f \in Accepted : artifact.duplicates[f] = "none"}

(* The coordinator may decide any finding, on comments that do not exist   *)
(* ("stranger") too.                                                       *)
SubmitDuplicateDecision(f, d) ==
    /\ stage = "adjudicate"
    /\ drafts' = [drafts EXCEPT ![f] = d]
    /\ UNCHANGED <<laneVars, stage, artifact, inspected, cost, retries, nudged, budgetHit, ended,
                   leftover, outcome>>

(* One decision about another finding makes all of them void; a comment    *)
(* that does not exist reports nothing.                                    *)
Validated ==
    IF \E f \in Ids \ Pending : drafts[f] # "none" THEN artifact.duplicates
    ELSE [f \in Ids |-> IF f \notin Pending THEN artifact.duplicates[f]
                        ELSE IF drafts[f] = "stranger" THEN "other" ELSE drafts[f]]

AdjudicationRestarts ==
    /\ stage = "adjudicate" /\ Restarted
    /\ UNCHANGED <<laneVars, stage, artifact, inspected, cost, nudged, budgetHit, ended, leftover,
                   drafts, outcome>>

(* It has decided all, is out of retries or money, or has failed, which    *)
(* costs only its own decisions.                                           *)
AdjudicationEnds ==
    /\ stage = "adjudicate"
    /\ \/ /\ \/ \A f \in Pending : drafts[f] # "none"
             \/ retries = MaxRetries
             \/ Reached(3)
          /\ Report(Validated)
       \/ Report(artifact.duplicates)
    /\ UNCHANGED <<laneVars, cost, retries, nudged, budgetHit, ended, leftover, drafts>>

-----------------------------------------------------------------------------
FinderStep ==
    \/ SubmitSummary \/ SubmitFinding \/ SubmitNoFindings
    \/ FinderBudgetReached \/ Nudge \/ FinderStreamEnds \/ FinderStreamBreaks
    \/ FinderInterrupted \/ LaneStep

VerifierStep ==
    \/ \E f \in Found : Inspect(f)
    \/ \E f \in Found, v \in Verdicts \ {"none"} : SubmitVerdict(f, v)
    \/ VerifierBudgetReached \/ VerifierStreamEnds \/ VerifierStreamBreaks \/ VerifierFails

SuppressionStep ==
    \/ Cancelled \/ NoSuppression \/ JevDecides
    \/ \E f \in Found, d \in Duplicates \ {"none"} : SubmitDuplicateDecision(f, d)
    \/ AdjudicationRestarts \/ AdjudicationEnds

Conclude == SaveIncomplete \/ NoResult \/ BuildArtifact

AgentNext ==
    \/ SkipReview \/ SetupFails \/ StartFinder
    \/ Charge \/ FinderStep \/ Conclude
    \/ VerifierStep \/ SuppressionStep

AgentSpec == AgentInit /\ [][AgentNext]_vars

(* The host goes on by itself, and each phase has a timeout. *)
AgentFairSpec ==
    /\ AgentSpec
    /\ WF_vars(StartFinder) /\ WF_vars(FinderInterrupted)
    /\ WF_vars(stage = "finder" /\ CleanupStep /\ UNCHANGED agentVars)
    /\ WF_vars(Conclude) /\ WF_vars(VerifierFails)
    /\ WF_vars(NoSuppression) /\ WF_vars(AdjudicationEnds)

-----------------------------------------------------------------------------
(* A review is reported clean only when every lane has completed, nothing  *)
(* was ever submitted as a candidate, and no limit cut the finder short:   *)
(* missing or failed lanes are never a no-findings result                  *)
(* (review.rs:2111, :2320).                                                *)
CleanIsEarned ==
    outcome = "none" => /\ \A l \in Lanes : lanes[l].status = "completed"
                        /\ artifact.noFindings /\ artifact.findings = 0
                        /\ ~budgetHit /\ ended = "ok"

(* What a finished review publishes was approved by the verifier after it  *)
(* inspected the cited files; and of a review that is not unverified every *)
(* candidate is published, turned down by the verifier, or reported by a   *)
(* comment that exists.  None is lost between the phases                   *)
(* (reporting.rs:112, :156, review.rs:3127).                               *)
CandidatesAreAccountedFor ==
    outcome \in Statuses3 \ {"unverified"} =>
        \A f \in Found :
            IF f \in Publishable
            THEN artifact.verdicts[f] = "approve" /\ f \in inspected
            ELSE \/ artifact.verdicts[f] = "reject"
                 \/ f \notin inspected
                 \/ artifact.duplicates[f] = "same"

(* However the agents behave, a review that is started ends. *)
ReviewEnds == (stage # "setup") ~> (stage = "done")

=============================================================================
