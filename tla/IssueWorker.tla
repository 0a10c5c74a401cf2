----------------------------- MODULE IssueWorker -----------------------------
(***************************************************************************)
(* One run of the issue worker (issues/worker.rs): the host prepares a     *)
(* checkout, lets a coding agent work on a copy of it in a sandbox, applies*)
(* the patch it gets, and has it checked and verified in sandboxes with    *)
(* copies of their own before it hands it on for publication.  Agents      *)
(* report through a tool whose report is final; a worker whose connection  *)
(* breaks or who stops without a report is resumed within two budgets.     *)
(*                                                                         *)
(* A tree is the set of files in which it differs from the base.  What a   *)
(* command says of a tree is left open: tests may be flaky.                *)
(***************************************************************************)
EXTENDS Integers, FiniteSets

CONSTANTS Files,         \* files a coder may touch
          Allowed,       \* files in project areas that allow automatic fixes
          Kinds,         \* FixKind of the decision
          Scoped,        \* every project area has path scopes
          Previous,      \* checks recorded by earlier pushes (revisions only)
          MaxRetries,    \* max_retries of ReplyRetry
          MaxRecoveries, \* report recoveries (2)
          None

AllKinds == {"bug", "maintenance", "tests", "investigation"}

ASSUME WorkerAssumption ==
    /\ Files \subseteq {"test", "source", "toolchain", "lock", "hidden"}
    /\ Allowed \subseteq Files /\ Kinds \subseteq AllKinds /\ Scoped \in BOOLEAN
    /\ IsFiniteSet(Previous) /\ "reproduction" \notin Previous
    /\ MaxRetries \in Nat /\ MaxRecoveries \in Nat

VARIABLES task,     \* what is asked: kind, trusted request, revision of a PR
          host,     \* where fix_at is
          checkout, \* the tree of the host's checkout
          claim,    \* the report of the coder
          box,      \* the sandbox of the phase, and the worker in it
          evidence, \* what checks said of which trees
          approved  \* the tree an independent verifier approved

hostVars == <<task, checkout, claim, evidence, approved>>
vars     == <<host, box, hostVars>>

Tree == SUBSET Files

Checks == {"reproduction"} \cup Previous

(* A report of the coder, or of the verifier (tests is then empty).        *)
Report == [status : {"candidate", "verified", "blocked"}, tests : Tree]

ASSUME NoneIsNoReport == None \notin Report

Phases == {"code", "baseline", "after", "previous", "verify"}
Agents == {"code", "verify"}

(* given: the tree that was copied, ws: what has become of it.  report and *)
(* disk: the accepted report, in memory and in /output.  The tools   *)
(* of the developer are there until the first report recovery.             *)
Box == [pc : {"none", "start", "reply", "saving", "check", "exited", "failed"},
        given : Tree, ws : Tree, command : Checks, success : BOOLEAN,
        report : Report \cup {None}, disk : Report \cup {None}, patch : Tree,
        retries : 0..MaxRetries, recoveries : 0..MaxRecoveries, developer : BOOLEAN]

NoBox == [pc |-> "none", given |-> {}, ws |-> {}, command |-> "reproduction", success |-> FALSE,
          report |-> None, disk |-> None, patch |-> {},
          retries |-> 0, recoveries |-> 0, developer |-> TRUE]

Task == [kind : Kinds, trusted : BOOLEAN, revision : BOOLEAN]

TypeOK ==
    /\ task \in Task
    /\ host \in [pc : {"prepare", "accept", "fix", "blocked", "failed"} \cup Phases,
                 left : SUBSET Previous]
    /\ checkout \in Tree /\ claim \in Report \cup {None}
    /\ box \in Box
    /\ evidence \in SUBSET [command : Checks, tree : Tree, success : BOOLEAN]
    /\ approved \in Tree \cup {None}

Init ==
    /\ task \in {t \in Task : t.revision => ~t.trusted}
    /\ host = [pc |-> "prepare", left |-> {}]
    /\ checkout = {} /\ claim = None
    /\ box = NoBox
    /\ evidence = {} /\ approved = None

-----------------------------------------------------------------------------
(* The worker in its sandbox (run_child). *)

Goto(pc) == box' = [box EXCEPT !.pc = pc]

Working == box.pc = "reply" /\ host.pc \in Agents

(* ReplyRetry.start: a stream that does not start is tried again within    *)
(* the retries that are left.                                              *)
Start ==
    /\ box.pc = "start"
    /\ \/ \E n \in box.retries..MaxRetries :
            box' = [box EXCEPT !.pc = "reply", !.retries = n]
       \/ Goto("failed")
    /\ UNCHANGED <<host, hostVars>>

(* The agent edits its copy: with the tools of the developer, and also in  *)
(* the reply in which it submits.                                          *)
Edit(f) ==
    /\ Working /\ box.developer
    /\ box' = [box EXCEPT !.ws = IF f \in @ THEN @ \ {f} ELSE @ \cup {f}]
    /\ UNCHANGED <<host, hostVars>>

(* reporting::validate *)
ValidReport(r) ==
    IF host.pc = "verify" THEN r.status \in {"verified", "blocked"} /\ r.tests = {}
    ELSE \/ r.status = "blocked"
         \/ /\ r.status = "candidate" /\ task.kind # "investigation"
            /\ task.kind = "bug" => r.tests # {}
            /\ task.kind = "maintenance" => r.tests = {}

(* The reporting tool: the first valid report is written before it counts, *)
(* and a different one is refused from then on.                            *)
Submit(r) ==
    /\ Working /\ ValidReport(r) /\ box.report = None
    /\ box' = [box EXCEPT !.disk = r, !.pc = "saving"]
    /\ UNCHANGED <<host, hostVars>>

Accept ==
    /\ box.pc = "saving"
    /\ box' = [box EXCEPT !.report = box.disk, !.pc = "reply"]
    /\ UNCHANGED <<host, hostVars>>

(* The loop ends at a report, whatever became of the stream; the work of a *)
(* candidate is written out as a patch against the base.                   *)
Leave ==
    /\ Working /\ box.report # None
    /\ \/ box' = [box EXCEPT !.pc = "exited",
                    !.patch = IF box.report.status = "candidate" THEN box.ws ELSE {}]
       \/ Goto("failed")
    /\ UNCHANGED <<host, hostVars>>

(* A broken stream, or a message that wraps a provider error: the session  *)
(* is resumed after a retry, unless the error is fatal.                    *)
StreamBreaks ==
    /\ Working /\ box.report = None
    /\ IF box.retries < MaxRetries
       THEN \/ box' = [box EXCEPT !.retries = @ + 1, !.pc = "start"]
            \/ Goto("failed")
       ELSE Goto("failed")
    /\ UNCHANGED <<host, hostVars>>

(* Mutant: asking for the report again does not count. *)
StopsUncounted ==
    /\ Working /\ box.report = None
    /\ box' = [box EXCEPT !.developer = FALSE, !.pc = "start"]
    /\ UNCHANGED <<host, hostVars>>

(* Mutant: the tools of the developer stay. *)
StopsWithTools ==
    /\ Working /\ box.report = None
    /\ IF box.recoveries < MaxRecoveries
       THEN box' = [box EXCEPT !.recoveries = @ + 1, !.pc = "start"]
       ELSE Goto("failed")
    /\ UNCHANGED <<host, hostVars>>

(* The agent stops, or is at its turn limit, without a report: it is asked *)
(* for one, with no tools left but that one.                               *)
StopsWithoutReport ==
    /\ Working /\ box.report = None
    /\ IF box.recoveries < MaxRecoveries
       THEN box' = [box EXCEPT !.recoveries = @ + 1, !.developer = FALSE, !.pc = "start"]
       ELSE Goto("failed")
    /\ UNCHANGED <<host, hostVars>>

(* A check phase: one command, which may write to its copy.  Without an    *)
(* exit status in time the phase fails.                                    *)
RunCheck ==
    /\ box.pc = "check"
    /\ \/ \E ok \in BOOLEAN, f \in SUBSET Files :
            box' = [box EXCEPT !.pc = "exited", !.success = ok, !.ws = f]
       \/ Goto("failed")
    /\ UNCHANGED <<host, hostVars>>

(* The host kills a sandbox at its deadline or when it is cancelled.       *)
Kill ==
    /\ box.pc \in {"start", "reply", "saving", "check"}
    /\ Goto("failed")
    /\ UNCHANGED <<host, hostVars>>

-----------------------------------------------------------------------------
(* The host (fix_at, sandbox). *)

Copied(tree, command, pc) ==
    [NoBox EXCEPT !.given = tree, !.ws = tree, !.command = command, !.pc = pc]

(* Each phase gets a sandbox of its own with a copy of a tree.             *)
Enter(phase, tree, command) ==
    /\ host' = [host EXCEPT !.pc = phase]
    /\ box' = Copied(tree, command, IF phase \in Agents THEN "start" ELSE "check")

Stop(pc) == host' = [host EXCEPT !.pc = pc] /\ box' = NoBox

(* Clone, and for a revision fetch the recorded head; only a trusted       *)
(* request may start without path scopes or as an investigation.           *)
Prepare ==
    /\ host.pc = "prepare"
    /\ \/ /\ task.trusted \/ (task.kind # "investigation" /\ Scoped)
          /\ box' = Copied({}, "reproduction", "start")
          /\ host' = [pc |-> "code", left |-> IF task.revision THEN Previous ELSE {}]
       \/ Stop("failed")
    /\ UNCHANGED hostVars

(* A phase fails with its worker, and for causes of the sandbox itself:    *)
(* setup, network, broker.                                                 *)
PhaseFails ==
    /\ host.pc \in Phases
    /\ \/ box.pc = "failed"
       \/ box.pc \in {"start", "check", "exited"}
    /\ Stop("failed")
    /\ UNCHANGED hostVars

Ended(phase) == host.pc = phase /\ box.pc = "exited"

CodeEnds ==
    /\ Ended("code")
    /\ claim' = box.disk
    /\ \/ /\ box.disk.status = "blocked"
          /\ Stop("blocked")
          /\ UNCHANGED checkout
       \/ /\ box.disk.status = "candidate" /\ box.patch # {}
          /\ checkout' = box.patch
          /\ Stop("accept")
       \/ /\ box.disk.status = "candidate"
          /\ Stop("failed")
          /\ UNCHANGED checkout
    /\ UNCHANGED <<task, evidence, approved>>

Restricted ==
    (IF task.kind = "tests" THEN {} ELSE {"hidden"})
      \cup (IF task.kind = "maintenance" THEN {} ELSE {"lock"})

(* validate_patch_paths: the patch is judged by the paths it really has.   *)
ValidPaths ==
    /\ checkout # {} /\ checkout \cap Restricted = {}
    /\ CASE task.kind = "bug" ->
              /\ claim.tests # {} /\ claim.tests \subseteq checkout
              /\ checkout \ claim.tests # {}
         [] task.kind = "maintenance" ->
              checkout \subseteq {"toolchain", "lock"} /\ "toolchain" \in checkout
         [] OTHER -> claim.tests \subseteq checkout

(* enforce_patch_areas *)
AllowedAreas == Scoped /\ checkout \subseteq Allowed

(* The tests alone are tried on the base first, if there is a bug to show. *)
AcceptPatch ==
    /\ host.pc = "accept" /\ ValidPaths /\ AllowedAreas
    /\ IF task.kind = "bug" THEN Enter("baseline", claim.tests, "reproduction")
                            ELSE Enter("after", checkout, "reproduction")
    /\ UNCHANGED hostVars

RefusePatch ==
    /\ host.pc = "accept" /\ ~(ValidPaths /\ AllowedAreas)
    /\ Stop("failed")
    /\ UNCHANGED hostVars

Record ==
    evidence' = evidence \cup
      {[command |-> box.command, tree |-> box.given, success |-> box.success]}

BaselineEnds ==
    /\ Ended("baseline")
    /\ Record
    /\ IF box.success THEN Stop("failed") ELSE Enter("after", checkout, "reproduction")
    /\ UNCHANGED <<task, checkout, claim, approved>>

(* The recorded checks are run on the patched tree, then it is verified.   *)
NextCheck(left) ==
    IF left = {} THEN Enter("verify", checkout, "reproduction")
    ELSE \E c \in left : /\ host' = [pc |-> "previous", left |-> left \ {c}]
                         /\ box' = Copied(checkout, c, "check")

(* Mutant: the verifier gets the workspace the check has left.             *)
CheckEndsInPlace ==
    /\ host.pc \in {"after", "previous"} /\ box.pc = "exited"
    /\ Record
    /\ checkout' = box.ws
    /\ IF box.success THEN NextCheck(host.left) ELSE Stop("failed")
    /\ UNCHANGED <<task, claim, approved>>

CheckEnds ==
    /\ host.pc \in {"after", "previous"} /\ box.pc = "exited"
    /\ Record
    /\ IF box.success THEN NextCheck(host.left) ELSE Stop("failed")
    /\ UNCHANGED <<task, checkout, claim, approved>>

VerifyEnds ==
    /\ Ended("verify")
    /\ IF box.disk.status = "verified" THEN approved' = box.given /\ Stop("fix")
                                       ELSE Stop("failed") /\ UNCHANGED approved
    /\ UNCHANGED <<task, checkout, claim, evidence>>

-----------------------------------------------------------------------------
Worker ==
    \/ Start \/ Accept \/ Leave \/ StreamBreaks \/ StopsWithoutReport \/ RunCheck
    \/ \E r \in Report : Submit(r)

Host ==
    \/ Prepare \/ PhaseFails \/ CodeEnds \/ AcceptPatch \/ RefusePatch
    \/ BaselineEnds \/ CheckEnds \/ VerifyEnds

Next == Worker \/ Host \/ Kill \/ \E f \in Files : Edit(f)

(* Replies end: an agent makes a bounded number of turns in each.          *)
Spec     == Init /\ [][Next]_vars
FairSpec == Spec /\ WF_vars(Worker) /\ WF_vars(Host)

-----------------------------------------------------------------------------
(* Whatever fix hands on for publication has been proved to the host: for  *)
(* a bug the tests alone failed and are not the whole patch; the patched   *)
(* tree, as it is handed on, passed the same command and every check of    *)
(* an earlier push, was approved by a verifier, and stays in areas and     *)
(* paths that allow it (worker.rs:262-357).                                *)
Says(c, tree, ok) == [command |-> c, tree |-> tree, success |-> ok] \in evidence

FixIsProved ==
    host.pc = "fix" =>
        /\ task.kind # "investigation" /\ approved = checkout
        /\ Says("reproduction", checkout, TRUE)
        /\ task.revision => \A c \in Previous : Says(c, checkout, TRUE)
        /\ checkout \subseteq Allowed \ Restricted
        /\ task.kind = "bug" =>
             \E t \in SUBSET checkout : t # checkout /\ Says("reproduction", t, FALSE)

(* A report that was acknowledged is the one the host reads, or the phase  *)
(* fails: neither a later report nor a broken stream changes it (comments  *)
(* at worker/reporting.rs:40, worker.rs:897).                              *)
ReportIsKept ==
    [][(box.report # None /\ box'.pc \notin {"none", "start", "check"}) =>
          box'.report = box.report /\ box'.disk = box.report]_vars

(* Once a worker was asked for its report, what it reports on stays as it  *)
(* was ("Only reporting tools remain available", worker.rs:968).           *)
ReportedWorkStands ==
    [][(box.pc = "reply" /\ box.recoveries > 0 /\ box'.pc # "none") => box'.ws = box.ws]_vars

(* Every run ends, without the deadlines of the sandboxes: neither broken  *)
(* streams nor silent agents keep a worker going for ever.                 *)
FixEnds == <>(host.pc \in {"fix", "blocked", "failed"})
=============================================================================
