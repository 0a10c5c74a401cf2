---------------------------- MODULE AutoFixProofs ----------------------------
(***************************************************************************)
(* Proofs about the two ends of automatic fixing.                          *)
(*                                                                         *)
(* IssueWorker: what it hands on for publication has been proved to the    *)
(* host, the report that was acknowledged is the one that is read, and     *)
(* work stands once its report was asked for; for any budgets and any      *)
(* recorded checks.                                                        *)
(*                                                                         *)
(* IssueTriage, in the second part: what it decides stands on judgements   *)
(* of the evidence, an issue that counts as handled is marked, and no      *)
(* judgement is paid for twice; for any inventory, order, batch size and   *)
(* budget, and any number of edits and failures.                           *)
(***************************************************************************)
EXTENDS IssueWorker, IssueTriage, FiniteSetTheorems, WellFoundedInduction, TLAPS

HostRecords == [pc : {"prepare", "accept", "fix", "blocked", "failed"} \cup Phases,
                left : SUBSET Previous]
Sayings == [command : Checks, tree : Tree, success : BOOLEAN]

(* The inductive invariant.  A report is on disk before it counts, and it  *)
(* is valid; developer tools and report recoveries exclude each other; and *)
(* each phase of the host has behind it what its predecessors showed of    *)
(* the tree that is being checked.                                         *)

Saved ==
    /\ host.pc \notin Phases => box.pc = "none"
    /\ host.pc \in Agents /\ box.disk # None => ValidReport(box.disk)
    /\ host.pc \in Agents /\ box.pc = "exited" => box.report # None
    /\ box.pc = "check" => host.pc \notin Agents
    /\ box.pc = "saving" => box.report = None /\ box.disk # None
    /\ box.report # None => box.disk = box.report

Tools == box.recoveries > 0 => ~box.developer

(* Before the patch is accepted, and in each phase after it.               *)
Accepted == ValidPaths /\ AllowedAreas

Shown == task.kind = "bug" => Says("reproduction", claim.tests, FALSE)

Checked(done) ==
    /\ Says("reproduction", checkout, TRUE)
    /\ task.revision => \A c \in Previous \ done : Says(c, checkout, TRUE)

Course ==
    /\ host.pc \in {"accept", "baseline", "after", "previous", "verify", "fix"} =>
         claim # None /\ task.kind # "investigation"
    /\ host.pc \in {"baseline", "after", "previous", "verify", "fix"} => Accepted
    /\ host.pc \in {"code", "accept", "baseline", "after"} /\ task.revision =>
         host.left = Previous
    /\ host.pc \in {"baseline", "after"} => box.command = "reproduction"
    /\ host.pc = "baseline" => box.given = claim.tests /\ task.kind = "bug"
    /\ host.pc \in {"after", "previous", "verify"} => box.given = checkout
    /\ host.pc \in {"after", "previous", "verify", "fix"} => Shown
    /\ host.pc = "previous" => Checked(host.left \cup {box.command})
    /\ host.pc \in {"verify", "fix"} => Checked({})
    /\ host.pc = "fix" => approved = checkout

IInv == TypeOK /\ Saved /\ Tools /\ Course

-----------------------------------------------------------------------------
(* What a phase starts with. *)
LEMMA CopiedFields ==
    ASSUME NEW tree, NEW command, NEW pc
    PROVE  LET b == Copied(tree, command, pc) IN
           /\ b.pc = pc /\ b.given = tree /\ b.command = command
           /\ b.report = None /\ b.disk = None /\ b.recoveries = 0
BY DEF Copied, NoBox

LEMMA NoBoxFields ==
    NoBox.pc = "none" /\ NoBox.report = None /\ NoBox.disk = None /\ NoBox.recoveries = 0
BY DEF NoBox

LEMMA NoBoxInBox == NoBox \in Box
BY WorkerAssumption DEF NoBox, Box, Tree, Checks

LEMMA CopiedInBox ==
    ASSUME NEW tree \in Tree, NEW command \in Checks, NEW pc \in {"start", "check"}
    PROVE  Copied(tree, command, pc) \in Box
BY NoBoxInBox DEF Copied, Box

LEMMA TestsAreTree == TypeOK /\ claim # None => claim.tests \in Tree
BY DEF TypeOK, Report

LEMMA NoReport == \A r \in Report : r # None
BY NoneIsNoReport

(* How the worker changes its sandbox. *)
BoxPcs == {"none", "start", "reply", "saving", "check", "exited", "failed"}

LEMMA BoxFields ==
    ASSUME NEW b \in Box
    PROVE  /\ b.pc \in BoxPcs /\ b.given \in Tree /\ b.ws \in Tree /\ b.command \in Checks
           /\ b.success \in BOOLEAN /\ b.report \in Report \cup {None}
           /\ b.disk \in Report \cup {None} /\ b.patch \in Tree /\ b.retries \in 0..MaxRetries
           /\ b.recoveries \in 0..MaxRecoveries /\ b.developer \in BOOLEAN
BY DEF Box, BoxPcs

LEMMA BoxMoves ==
    ASSUME NEW b \in Box, NEW pc \in BoxPcs
    PROVE  [b EXCEPT !.pc = pc] \in Box
BY DEF Box, BoxPcs

LEMMA BoxTries ==
    ASSUME NEW b \in Box, NEW pc \in BoxPcs, NEW n \in 0..MaxRetries
    PROVE  /\ [b EXCEPT !.pc = pc, !.retries = n] \in Box
           /\ [b EXCEPT !.retries = n, !.pc = pc] \in Box
BY DEF Box, BoxPcs

LEMMA BoxSaves ==
    ASSUME NEW b \in Box, NEW pc \in BoxPcs, NEW r \in Report \cup {None}
    PROVE  /\ [b EXCEPT !.disk = r, !.pc = pc] \in Box
           /\ [b EXCEPT !.report = r, !.pc = pc] \in Box
BY DEF Box, BoxPcs

LEMMA BoxWorks ==
    ASSUME NEW b \in Box, NEW pc \in BoxPcs, NEW t \in Tree, NEW ok \in BOOLEAN
    PROVE  /\ [b EXCEPT !.pc = pc, !.success = ok, !.ws = t] \in Box
           /\ [b EXCEPT !.pc = pc, !.patch = t] \in Box
           /\ [b EXCEPT !.ws = t] \in Box
BY DEF Box, BoxPcs

LEMMA BoxRecovers ==
    ASSUME NEW b \in Box, NEW pc \in BoxPcs, NEW n \in 0..MaxRecoveries
    PROVE  [b EXCEPT !.recoveries = n, !.developer = FALSE, !.pc = pc] \in Box
BY DEF Box, BoxPcs

(* Types.                                                                  *)
LEMMA TypeStep ==
    ASSUME TypeOK, Course, [Next]_vars
    PROVE  TypeOK'
<1>1. CASE Start
  <2>0. \A n \in box.retries..MaxRetries : n \in 0..MaxRetries
    BY BoxFields DEF TypeOK
  <2>5. box \in Box /\ \A pc \in {"start", "reply", "exited", "failed"} : pc \in BoxPcs
    BY DEF TypeOK, BoxPcs
  <2>6. \A n \in box.retries..MaxRetries : [box EXCEPT !.pc = "reply", !.retries = n] \in Box
    BY <2>0, <2>5, BoxTries
  <2>7. [box EXCEPT !.pc = "failed"] \in Box
    BY <2>5, BoxMoves
  <2>1. box' \in Box
    BY <1>1, <2>6, <2>7 DEF Start, Goto
  <2>2. UNCHANGED <<host, task, checkout, claim, evidence, approved>>
    BY <1>1 DEF Start, hostVars
  <2> QED
    BY <2>1, <2>2 DEF TypeOK
<1>2. CASE Accept
  <2>1. box' \in Box
    BY <1>2, BoxFields, BoxSaves DEF Accept, TypeOK, BoxPcs
  <2>2. UNCHANGED <<host, task, checkout, claim, evidence, approved>>
    BY <1>2 DEF Accept, hostVars
  <2> QED
    BY <2>1, <2>2 DEF TypeOK
<1>3. CASE Leave
  <2>0. box.ws \in Tree /\ {} \in Tree /\ TRUE \in BOOLEAN
    BY BoxFields DEF TypeOK, Tree
  <2>5. box \in Box /\ \A pc \in {"start", "reply", "exited", "failed"} : pc \in BoxPcs
    BY DEF TypeOK, BoxPcs
  <2>6. [box EXCEPT !.pc = "exited", !.patch = IF box.report.status = "candidate" THEN box.ws ELSE {}]
          \in Box
    BY <2>0, <2>5, BoxWorks
  <2>7. [box EXCEPT !.pc = "failed"] \in Box
    BY <2>5, BoxMoves
  <2>1. box' \in Box
    BY <1>3, <2>6, <2>7 DEF Leave, Goto
  <2>2. UNCHANGED <<host, task, checkout, claim, evidence, approved>>
    BY <1>3 DEF Leave, hostVars
  <2> QED
    BY <2>1, <2>2 DEF TypeOK
<1>4. CASE StreamBreaks
  <2>0. box.retries < MaxRetries => box.retries + 1 \in 0..MaxRetries
    BY BoxFields, WorkerAssumption DEF TypeOK
  <2>5. box \in Box /\ \A pc \in {"start", "reply", "exited", "failed"} : pc \in BoxPcs
    BY DEF TypeOK, BoxPcs
  <2>6. box.retries < MaxRetries =>
          [box EXCEPT !.retries = box.retries + 1, !.pc = "start"] \in Box
    BY <2>0, <2>5, BoxTries
  <2>7. [box EXCEPT !.pc = "failed"] \in Box
    BY <2>5, BoxMoves
  <2>1. box' \in Box
    BY <1>4, <2>6, <2>7 DEF StreamBreaks, Goto
  <2>2. UNCHANGED <<host, task, checkout, claim, evidence, approved>>
    BY <1>4 DEF StreamBreaks, hostVars
  <2> QED
    BY <2>1, <2>2 DEF TypeOK
<1>5. CASE StopsWithoutReport
  <2>0. box.recoveries < MaxRecoveries => box.recoveries + 1 \in 0..MaxRecoveries
    BY BoxFields, WorkerAssumption DEF TypeOK
  <2>5. box \in Box /\ \A pc \in {"start", "reply", "exited", "failed"} : pc \in BoxPcs
    BY DEF TypeOK, BoxPcs
  <2>6. box.recoveries < MaxRecoveries =>
          [box EXCEPT !.recoveries = box.recoveries + 1, !.developer = FALSE, !.pc = "start"] \in Box
    BY <2>0, <2>5, BoxRecovers
  <2>7. [box EXCEPT !.pc = "failed"] \in Box
    BY <2>5, BoxMoves
  <2>1. box' \in Box
    BY <1>5, <2>6, <2>7 DEF StopsWithoutReport, Goto
  <2>2. UNCHANGED <<host, task, checkout, claim, evidence, approved>>
    BY <1>5 DEF StopsWithoutReport, hostVars
  <2> QED
    BY <2>1, <2>2 DEF TypeOK
<1>6. CASE RunCheck
  <2>5. box \in Box /\ \A pc \in {"start", "reply", "exited", "failed"} : pc \in BoxPcs
    BY DEF TypeOK, BoxPcs
  <2>6. \A ok \in BOOLEAN, f \in SUBSET Files :
          [box EXCEPT !.pc = "exited", !.success = ok, !.ws = f] \in Box
    BY <2>5, BoxWorks DEF Tree
  <2>7. [box EXCEPT !.pc = "failed"] \in Box
    BY <2>5, BoxMoves
  <2>1. box' \in Box
    BY <1>6, <2>6, <2>7 DEF RunCheck, Goto
  <2>2. UNCHANGED <<host, task, checkout, claim, evidence, approved>>
    BY <1>6 DEF RunCheck, hostVars
  <2> QED
    BY <2>1, <2>2 DEF TypeOK
<1>7. ASSUME NEW r \in Report, Submit(r) PROVE TypeOK'
  <2>1. box' \in Box
    BY <1>7, BoxFields, BoxSaves DEF Submit, TypeOK, BoxPcs
  <2>2. UNCHANGED <<host, task, checkout, claim, evidence, approved>>
    BY <1>7 DEF Submit, hostVars
  <2> QED
    BY <2>1, <2>2 DEF TypeOK
<1>8. CASE Kill
  <2>1. box' \in Box
    BY <1>8, BoxFields, BoxMoves DEF Kill, Goto, TypeOK, BoxPcs
  <2>2. UNCHANGED <<host, task, checkout, claim, evidence, approved>>
    BY <1>8 DEF Kill, hostVars
  <2> QED
    BY <2>1, <2>2 DEF TypeOK
<1>9. ASSUME NEW f \in Files, Edit(f) PROVE TypeOK'
  <2>0. (IF f \in box.ws THEN box.ws \ {f} ELSE box.ws \cup {f}) \in Tree
    BY BoxFields DEF TypeOK, Tree
  <2>1. box' \in Box
    BY <1>9, <2>0, BoxFields, BoxWorks DEF Edit, TypeOK, BoxPcs
  <2>2. UNCHANGED <<host, task, checkout, claim, evidence, approved>>
    BY <1>9 DEF Edit, hostVars
  <2> QED
    BY <2>1, <2>2 DEF TypeOK
<1>10. CASE Prepare
  <2>1. host' \in HostRecords
    BY <1>10 DEF Prepare, Stop, TypeOK, HostRecords, Phases
  <2>2. {} \in Tree /\ "reproduction" \in Checks
    BY DEF Tree, Checks
  <2>3. box' \in Box
    BY <1>10, <2>2, NoBoxInBox, CopiedInBox DEF Prepare, Stop
  <2>4. UNCHANGED <<task, checkout, claim, evidence, approved>>
    BY <1>10 DEF Prepare, hostVars
  <2> QED
    BY <2>1, <2>3, <2>4 DEF TypeOK, HostRecords
<1>11. CASE PhaseFails
  <2>1. host' \in HostRecords
    BY <1>11 DEF PhaseFails, Stop, TypeOK, HostRecords, Phases
  <2>3. box' \in Box
    BY <1>11, NoBoxInBox DEF PhaseFails, Stop
  <2>4. UNCHANGED <<task, checkout, claim, evidence, approved>>
    BY <1>11 DEF PhaseFails, hostVars
  <2> QED
    BY <2>1, <2>3, <2>4 DEF TypeOK, HostRecords
<1>12. CASE CodeEnds
  <2>1. host' \in HostRecords
    BY <1>12 DEF CodeEnds, Stop, Ended, TypeOK, HostRecords, Phases
  <2>3. box' \in Box
    BY <1>12, NoBoxInBox DEF CodeEnds, Stop, Ended
  <2>4. UNCHANGED <<task, evidence, approved>>
    BY <1>12 DEF CodeEnds, hostVars
  <2>5. claim' \in Report \cup {None} /\ checkout' \in Tree
    BY <1>12 DEF CodeEnds, TypeOK, Box
  <2> QED
    BY <2>1, <2>3, <2>4, <2>5 DEF TypeOK, HostRecords
<1>13. CASE AcceptPatch
  <2>1. host' \in HostRecords
    BY <1>13 DEF AcceptPatch, Enter, TypeOK, HostRecords, Phases
  <2>2. claim.tests \in Tree /\ checkout \in Tree
    BY <1>13, TestsAreTree DEF AcceptPatch, Enter, Course, TypeOK
  <2>3. box' \in Box
    BY <1>13, <2>2, NoBoxInBox, CopiedInBox DEF AcceptPatch, Enter, Checks, Agents
  <2>4. UNCHANGED <<task, checkout, claim, evidence, approved>>
    BY <1>13 DEF AcceptPatch, hostVars
  <2> QED
    BY <2>1, <2>3, <2>4 DEF TypeOK, HostRecords
<1>14. CASE RefusePatch
  <2>1. host' \in HostRecords
    BY <1>14 DEF RefusePatch, Stop, TypeOK, HostRecords, Phases
  <2>3. box' \in Box
    BY <1>14, NoBoxInBox DEF RefusePatch, Stop
  <2>4. UNCHANGED <<task, checkout, claim, evidence, approved>>
    BY <1>14 DEF RefusePatch, hostVars
  <2> QED
    BY <2>1, <2>3, <2>4 DEF TypeOK, HostRecords
<1>15. CASE BaselineEnds
  <2>1. host' \in HostRecords
    BY <1>15 DEF BaselineEnds, Stop, Enter, Ended, TypeOK, HostRecords, Phases
  <2>2. claim.tests \in Tree /\ checkout \in Tree
    BY <1>15, TestsAreTree DEF BaselineEnds, Stop, Enter, Ended, Course, TypeOK
  <2>3. box' \in Box
    BY <1>15, <2>2, NoBoxInBox, CopiedInBox DEF BaselineEnds, Stop, Enter, Ended, Checks, Agents
  <2>4. UNCHANGED <<task, checkout, claim, approved>>
    BY <1>15 DEF BaselineEnds, hostVars
  <2>5. evidence' \in SUBSET Sayings
    BY <1>15 DEF BaselineEnds, Record, TypeOK, Sayings, Box
  <2> QED
    BY <2>1, <2>3, <2>4, <2>5 DEF TypeOK, HostRecords, Sayings
<1>16. CASE CheckEnds
  <2>1. host' \in HostRecords
    BY <1>16 DEF CheckEnds, NextCheck, Stop, Enter, TypeOK, HostRecords, Phases
  <2>2. host.left \subseteq Checks /\ "reproduction" \in Checks /\ checkout \in Tree
    BY DEF TypeOK, Checks
  <2>3. box' \in Box
    BY <1>16, <2>2, NoBoxInBox, CopiedInBox DEF CheckEnds, NextCheck, Stop, Enter, Agents
  <2>4. UNCHANGED <<task, checkout, claim, approved>>
    BY <1>16 DEF CheckEnds, hostVars
  <2>5. evidence' \in SUBSET Sayings
    BY <1>16 DEF CheckEnds, Record, TypeOK, Sayings, Box
  <2> QED
    BY <2>1, <2>3, <2>4, <2>5 DEF TypeOK, HostRecords, Sayings
<1>17. CASE VerifyEnds
  <2>1. host' \in HostRecords
    BY <1>17 DEF VerifyEnds, Stop, Ended, TypeOK, HostRecords, Phases
  <2>3. box' \in Box
    BY <1>17, NoBoxInBox DEF VerifyEnds, Stop, Ended
  <2>4. UNCHANGED <<task, checkout, claim, evidence>>
    BY <1>17 DEF VerifyEnds, hostVars
  <2>5. approved' \in Tree \cup {None}
    BY <1>17 DEF VerifyEnds, TypeOK, Box
  <2> QED
    BY <2>1, <2>3, <2>4, <2>5 DEF TypeOK, HostRecords
<1>18. CASE UNCHANGED vars
  BY <1>18 DEF TypeOK, vars, hostVars
<1>19. QED
  BY <1>1, <1>2, <1>3, <1>4, <1>5, <1>6, <1>7, <1>8, <1>9, <1>10, <1>11, <1>12, <1>13, <1>14, <1>15, <1>16, <1>17, <1>18 DEF Next, Worker, Host

(* A new sandbox has no report. *)
LEMMA NewBox ==
    ASSUME box'.report = None, box'.disk = None, box'.pc \in {"none", "start", "check"},
           host'.pc \notin Phases => box'.pc = "none",
           box'.pc = "check" => host'.pc \notin Agents
    PROVE  Saved'
BY DEF Saved

(* The report on disk.                                                     *)
LEMMA SavedStep ==
    ASSUME TypeOK, Saved, [Next]_vars
    PROVE  Saved'
<1>1. CASE Start
  <2>1. box \in Box /\ (\A q \in Report : q # None)
    BY NoReport DEF TypeOK
  <2> QED
    BY <1>1, <2>1 DEF Start, Goto, hostVars, Saved, ValidReport, Box, Phases, Agents
<1>2. CASE Accept
  <2>1. box \in Box /\ (\A q \in Report : q # None)
    BY NoReport DEF TypeOK
  <2> QED
    BY <1>2, <2>1 DEF Accept, hostVars, Saved, ValidReport, Box, Phases, Agents
<1>3. CASE Leave
  <2>1. box \in Box /\ (\A q \in Report : q # None)
    BY NoReport DEF TypeOK
  <2> QED
    BY <1>3, <2>1 DEF Leave, Goto, Working, hostVars, Saved, ValidReport, Box, Phases, Agents
<1>4. CASE StreamBreaks
  <2>1. box \in Box /\ (\A q \in Report : q # None)
    BY NoReport DEF TypeOK
  <2> QED
    BY <1>4, <2>1 DEF StreamBreaks, Goto, Working, hostVars, Saved, ValidReport, Box, Phases, Agents
<1>5. CASE StopsWithoutReport
  <2>1. box \in Box /\ (\A q \in Report : q # None)
    BY NoReport DEF TypeOK
  <2> QED
    BY <1>5, <2>1 DEF StopsWithoutReport, Goto, Working, hostVars, Saved, ValidReport, Box, Phases, Agents
<1>6. CASE RunCheck
  <2>1. box \in Box /\ (\A q \in Report : q # None)
    BY NoReport DEF TypeOK
  <2> QED
    BY <1>6, <2>1 DEF RunCheck, Goto, hostVars, Saved, ValidReport, Box, Phases, Agents
<1>7. ASSUME NEW r \in Report, Submit(r) PROVE Saved'
  <2>1. box \in Box /\ (\A q \in Report : q # None)
    BY NoReport DEF TypeOK
  <2> QED
    BY <1>7, <2>1 DEF Submit, Working, hostVars, Saved, ValidReport, Box, Phases, Agents
<1>8. CASE Kill
  <2>1. box \in Box /\ (\A q \in Report : q # None)
    BY NoReport DEF TypeOK
  <2> QED
    BY <1>8, <2>1 DEF Kill, Goto, hostVars, Saved, ValidReport, Box, Phases, Agents
<1>9. ASSUME NEW f \in Files, Edit(f) PROVE Saved'
  <2>1. box \in Box /\ (\A q \in Report : q # None)
    BY NoReport DEF TypeOK
  <2> QED
    BY <1>9, <2>1 DEF Edit, Working, hostVars, Saved, ValidReport, Box, Phases, Agents
<1>10. CASE Prepare
  <2>1. /\ box'.report = None /\ box'.disk = None
        /\ box'.pc \in {"none", "start", "check"}
        /\ host'.pc \notin Phases => box'.pc = "none"
        /\ box'.pc = "check" => host'.pc \notin Agents
    BY <1>10, CopiedFields, NoBoxFields DEF Prepare, Stop, Phases, Agents, TypeOK
  <2> QED
    BY <2>1, NewBox
<1>11. CASE PhaseFails
  <2>1. /\ box'.report = None /\ box'.disk = None
        /\ box'.pc \in {"none", "start", "check"}
        /\ host'.pc \notin Phases => box'.pc = "none"
        /\ box'.pc = "check" => host'.pc \notin Agents
    BY <1>11, CopiedFields, NoBoxFields DEF PhaseFails, Stop, Phases, Agents, TypeOK
  <2> QED
    BY <2>1, NewBox
<1>12. CASE CodeEnds
  <2>1. /\ box'.report = None /\ box'.disk = None
        /\ box'.pc \in {"none", "start", "check"}
        /\ host'.pc \notin Phases => box'.pc = "none"
        /\ box'.pc = "check" => host'.pc \notin Agents
    BY <1>12, CopiedFields, NoBoxFields DEF CodeEnds, Stop, Ended, Phases, Agents, TypeOK
  <2> QED
    BY <2>1, NewBox
<1>13. CASE AcceptPatch
  <2>1. /\ box'.report = None /\ box'.disk = None
        /\ box'.pc \in {"none", "start", "check"}
        /\ host'.pc \notin Phases => box'.pc = "none"
        /\ box'.pc = "check" => host'.pc \notin Agents
    BY <1>13, CopiedFields, NoBoxFields DEF AcceptPatch, Enter, Phases, Agents, TypeOK
  <2> QED
    BY <2>1, NewBox
<1>14. CASE RefusePatch
  <2>1. /\ box'.report = None /\ box'.disk = None
        /\ box'.pc \in {"none", "start", "check"}
        /\ host'.pc \notin Phases => box'.pc = "none"
        /\ box'.pc = "check" => host'.pc \notin Agents
    BY <1>14, CopiedFields, NoBoxFields DEF RefusePatch, Stop, Phases, Agents, TypeOK
  <2> QED
    BY <2>1, NewBox
<1>15. CASE BaselineEnds
  <2>1. /\ box'.report = None /\ box'.disk = None
        /\ box'.pc \in {"none", "start", "check"}
        /\ host'.pc \notin Phases => box'.pc = "none"
        /\ box'.pc = "check" => host'.pc \notin Agents
    BY <1>15, CopiedFields, NoBoxFields DEF BaselineEnds, Stop, Enter, Ended, Phases, Agents, TypeOK
  <2> QED
    BY <2>1, NewBox
<1>16. CASE CheckEnds
  <2>1. /\ box'.report = None /\ box'.disk = None
        /\ box'.pc \in {"none", "start", "check"}
        /\ host'.pc \notin Phases => box'.pc = "none"
        /\ box'.pc = "check" => host'.pc \notin Agents
    BY <1>16, CopiedFields, NoBoxFields DEF CheckEnds, NextCheck, Stop, Enter, Phases, Agents, TypeOK
  <2> QED
    BY <2>1, NewBox
<1>17. CASE VerifyEnds
  <2>1. /\ box'.report = None /\ box'.disk = None
        /\ box'.pc \in {"none", "start", "check"}
        /\ host'.pc \notin Phases => box'.pc = "none"
        /\ box'.pc = "check" => host'.pc \notin Agents
    BY <1>17, CopiedFields, NoBoxFields DEF VerifyEnds, Stop, Ended, Phases, Agents, TypeOK
  <2> QED
    BY <2>1, NewBox
<1>18. CASE UNCHANGED vars
  BY <1>18 DEF Saved, ValidReport, vars, hostVars
<1>19. QED
  BY <1>1, <1>2, <1>3, <1>4, <1>5, <1>6, <1>7, <1>8, <1>9, <1>10, <1>11, <1>12, <1>13, <1>14, <1>15, <1>16, <1>17, <1>18 DEF Next, Worker, Host

(* The tools of the developer.                                             *)
LEMMA ToolsStep ==
    ASSUME TypeOK, Tools, [Next]_vars
    PROVE  Tools'
<1>1. CASE Start
  BY <1>1 DEF Start, Goto, Tools, TypeOK, Box
<1>2. CASE Accept
  BY <1>2 DEF Accept, Tools, TypeOK, Box
<1>3. CASE Leave
  BY <1>3 DEF Leave, Goto, Working, Tools, TypeOK, Box
<1>4. CASE StreamBreaks
  BY <1>4 DEF StreamBreaks, Goto, Working, Tools, TypeOK, Box
<1>5. CASE StopsWithoutReport
  BY <1>5 DEF StopsWithoutReport, Goto, Working, Tools, TypeOK, Box
<1>6. CASE RunCheck
  BY <1>6 DEF RunCheck, Goto, Tools, TypeOK, Box
<1>7. ASSUME NEW r \in Report, Submit(r) PROVE Tools'
  BY <1>7 DEF Submit, Working, Tools, TypeOK, Box
<1>8. CASE Kill
  BY <1>8 DEF Kill, Goto, Tools, TypeOK, Box
<1>9. ASSUME NEW f \in Files, Edit(f) PROVE Tools'
  BY <1>9 DEF Edit, Working, Tools, TypeOK, Box
<1>10. CASE Prepare
  <2>1. box'.recoveries = 0
    BY <1>10, CopiedFields, NoBoxFields DEF Prepare, Stop
  <2> QED
    BY <2>1 DEF Tools
<1>11. CASE PhaseFails
  <2>1. box'.recoveries = 0
    BY <1>11, CopiedFields, NoBoxFields DEF PhaseFails, Stop
  <2> QED
    BY <2>1 DEF Tools
<1>12. CASE CodeEnds
  <2>1. box'.recoveries = 0
    BY <1>12, CopiedFields, NoBoxFields DEF CodeEnds, Stop, Ended
  <2> QED
    BY <2>1 DEF Tools
<1>13. CASE AcceptPatch
  <2>1. box'.recoveries = 0
    BY <1>13, CopiedFields, NoBoxFields DEF AcceptPatch, Enter
  <2> QED
    BY <2>1 DEF Tools
<1>14. CASE RefusePatch
  <2>1. box'.recoveries = 0
    BY <1>14, CopiedFields, NoBoxFields DEF RefusePatch, Stop
  <2> QED
    BY <2>1 DEF Tools
<1>15. CASE BaselineEnds
  <2>1. box'.recoveries = 0
    BY <1>15, CopiedFields, NoBoxFields DEF BaselineEnds, Stop, Enter, Ended
  <2> QED
    BY <2>1 DEF Tools
<1>16. CASE CheckEnds
  <2>1. box'.recoveries = 0
    BY <1>16, CopiedFields, NoBoxFields DEF CheckEnds, NextCheck, Stop, Enter
  <2> QED
    BY <2>1 DEF Tools
<1>17. CASE VerifyEnds
  <2>1. box'.recoveries = 0
    BY <1>17, CopiedFields, NoBoxFields DEF VerifyEnds, Stop, Ended
  <2> QED
    BY <2>1 DEF Tools
<1>18. CASE UNCHANGED vars
  BY <1>18 DEF Tools, vars
<1>19. QED
  BY <1>1, <1>2, <1>3, <1>4, <1>5, <1>6, <1>7, <1>8, <1>9, <1>10, <1>11, <1>12, <1>13, <1>14, <1>15, <1>16, <1>17, <1>18 DEF Next, Worker, Host

(* A step in the sandbox leaves what it was given, and a run that is over  *)
(* needs nothing.                                                          *)
LEMMA Stays ==
    ASSUME Course, UNCHANGED <<host, task, checkout, claim, evidence, approved>>,
           box'.given = box.given, box'.command = box.command
    PROVE  Course'
BY DEF Course, Accepted, ValidPaths, Restricted, AllowedAreas, Shown, Checked, Says

LEMMA Stopped ==
    ASSUME host'.pc \in {"blocked", "failed"}
    PROVE  Course'
BY DEF Course

(* The course of the run.                                                  *)
LEMMA CourseStep ==
    ASSUME TypeOK, Saved, Course, [Next]_vars
    PROVE  Course'
<1>1. CASE Start
  <2>1. UNCHANGED <<host, task, checkout, claim, evidence, approved>>
    BY <1>1 DEF Start, hostVars
  <2>2. box'.given = box.given /\ box'.command = box.command
    BY <1>1 DEF Start, Goto, TypeOK, Box
  <2> QED
    BY <2>1, <2>2, Stays
<1>2. CASE Accept
  <2>1. UNCHANGED <<host, task, checkout, claim, evidence, approved>>
    BY <1>2 DEF Accept, hostVars
  <2>2. box'.given = box.given /\ box'.command = box.command
    BY <1>2 DEF Accept, TypeOK, Box
  <2> QED
    BY <2>1, <2>2, Stays
<1>3. CASE Leave
  <2>1. UNCHANGED <<host, task, checkout, claim, evidence, approved>>
    BY <1>3 DEF Leave, hostVars
  <2>2. box'.given = box.given /\ box'.command = box.command
    BY <1>3 DEF Leave, Goto, Working, TypeOK, Box
  <2> QED
    BY <2>1, <2>2, Stays
<1>4. CASE StreamBreaks
  <2>1. UNCHANGED <<host, task, checkout, claim, evidence, approved>>
    BY <1>4 DEF StreamBreaks, hostVars
  <2>2. box'.given = box.given /\ box'.command = box.command
    BY <1>4 DEF StreamBreaks, Goto, Working, TypeOK, Box
  <2> QED
    BY <2>1, <2>2, Stays
<1>5. CASE StopsWithoutReport
  <2>1. UNCHANGED <<host, task, checkout, claim, evidence, approved>>
    BY <1>5 DEF StopsWithoutReport, hostVars
  <2>2. box'.given = box.given /\ box'.command = box.command
    BY <1>5 DEF StopsWithoutReport, Goto, Working, TypeOK, Box
  <2> QED
    BY <2>1, <2>2, Stays
<1>6. CASE RunCheck
  <2>1. UNCHANGED <<host, task, checkout, claim, evidence, approved>>
    BY <1>6 DEF RunCheck, hostVars
  <2>2. box'.given = box.given /\ box'.command = box.command
    BY <1>6 DEF RunCheck, Goto, TypeOK, Box
  <2> QED
    BY <2>1, <2>2, Stays
<1>7. ASSUME NEW r \in Report, Submit(r) PROVE Course'
  <2>1. UNCHANGED <<host, task, checkout, claim, evidence, approved>>
    BY <1>7 DEF Submit, hostVars
  <2>2. box'.given = box.given /\ box'.command = box.command
    BY <1>7 DEF Submit, Working, TypeOK, Box
  <2> QED
    BY <2>1, <2>2, Stays
<1>8. CASE Kill
  <2>1. UNCHANGED <<host, task, checkout, claim, evidence, approved>>
    BY <1>8 DEF Kill, hostVars
  <2>2. box'.given = box.given /\ box'.command = box.command
    BY <1>8 DEF Kill, Goto, TypeOK, Box
  <2> QED
    BY <2>1, <2>2, Stays
<1>9. ASSUME NEW f \in Files, Edit(f) PROVE Course'
  <2>1. UNCHANGED <<host, task, checkout, claim, evidence, approved>>
    BY <1>9 DEF Edit, hostVars
  <2>2. box'.given = box.given /\ box'.command = box.command
    BY <1>9 DEF Edit, Working, TypeOK, Box
  <2> QED
    BY <2>1, <2>2, Stays
<1>10. CASE Prepare
  <2>1. CASE host'.pc = "failed"
    BY <2>1, Stopped
  <2>2. CASE host'.pc # "failed"
    <3>1. /\ host'.pc = "code" /\ task' = task
          /\ task.revision => host'.left = Previous
      BY <1>10, <2>2 DEF Prepare, Stop, hostVars, TypeOK
    <3> QED
      BY <3>1 DEF Course
  <2> QED
    BY <2>1, <2>2
<1>11. CASE PhaseFails
  <2>1. host'.pc = "failed"
    BY <1>11 DEF PhaseFails, Stop, TypeOK
  <2> QED
    BY <2>1, Stopped
<1>12. CASE CodeEnds
  <2>1. CASE host'.pc \in {"blocked", "failed"}
    BY <2>1, Stopped
  <2>2. CASE host'.pc \notin {"blocked", "failed"}
    <3>1. /\ host'.pc = "accept" /\ host'.left = host.left /\ task' = task
          /\ box.disk.status = "candidate" /\ claim' = box.disk
          /\ host.pc = "code" /\ box.pc = "exited"
      BY <1>12, <2>2 DEF CodeEnds, Ended, Stop, TypeOK
    <3>2. box.disk # None /\ ValidReport(box.disk)
      BY <3>1, NoReport DEF Saved, Agents, TypeOK, Box
    <3>3. task.kind # "investigation"
      BY <3>1, <3>2 DEF ValidReport
    <3> QED
      BY <3>1, <3>2, <3>3 DEF Course
  <2> QED
    BY <2>1, <2>2
<1>13. CASE AcceptPatch
  <2>1. /\ UNCHANGED <<task, checkout, claim, evidence, approved>>
        /\ host.pc = "accept" /\ Accepted
    BY <1>13 DEF AcceptPatch, hostVars, Accepted
  <2>2. Accepted' /\ host'.left = host.left
    BY <1>13, <2>1 DEF AcceptPatch, Enter, TypeOK, Accepted, ValidPaths, Restricted, AllowedAreas
  <2>3. \/ /\ host'.pc = "baseline" /\ task.kind = "bug"
           /\ box' = Copied(claim.tests, "reproduction", "check")
        \/ /\ host'.pc = "after" /\ task.kind # "bug"
           /\ box' = Copied(checkout, "reproduction", "check")
    BY <1>13 DEF AcceptPatch, Enter, TypeOK, Agents
  <2>4. \/ /\ host'.pc = "baseline" /\ task.kind = "bug"
           /\ box'.given = claim.tests /\ box'.command = "reproduction"
        \/ /\ host'.pc = "after" /\ task.kind # "bug"
           /\ box'.given = checkout /\ box'.command = "reproduction"
    BY <2>3, CopiedFields
  <2> QED
    BY <2>1, <2>2, <2>4 DEF Course, Shown
<1>14. CASE RefusePatch
  <2>1. host'.pc = "failed"
    BY <1>14 DEF RefusePatch, Stop, TypeOK
  <2> QED
    BY <2>1, Stopped
<1>15. CASE BaselineEnds
  <2>1. CASE host'.pc = "failed"
    BY <2>1, Stopped
  <2>2. CASE host'.pc # "failed"
    <3>1. /\ host.pc = "baseline" /\ host'.pc = "after" /\ host'.left = host.left
          /\ box' = Copied(checkout, "reproduction", "check") /\ ~box.success
          /\ UNCHANGED <<task, checkout, claim, approved>>
      BY <1>15, <2>2 DEF BaselineEnds, Ended, Stop, Enter, Agents, TypeOK
    <3>2. box'.given = checkout /\ box'.command = "reproduction"
      BY <3>1, CopiedFields
    <3>3. box.given = claim.tests /\ box.command = "reproduction" /\ box.success = FALSE
      BY <3>1 DEF Course, TypeOK, Box
    <3>4. Says("reproduction", claim.tests, FALSE)'
      BY <1>15, <3>1, <3>3 DEF BaselineEnds, Record, Says
    <3>5. Accepted'
      BY <3>1 DEF Course, Accepted, ValidPaths, Restricted, AllowedAreas
    <3> QED
      BY <3>1, <3>2, <3>4, <3>5 DEF Course, Shown
  <2> QED
    BY <2>1, <2>2
<1>16. CASE CheckEnds
  <2>1. CASE host'.pc = "failed"
    BY <2>1, Stopped
  <2>2. CASE host'.pc # "failed"
    <3>1. /\ host.pc \in {"after", "previous"} /\ box.success /\ NextCheck(host.left)
          /\ UNCHANGED <<task, checkout, claim, approved>> /\ evidence \subseteq evidence'
          /\ [command |-> box.command, tree |-> box.given, success |-> box.success] \in evidence'
      BY <1>16, <2>2 DEF CheckEnds, Record, Stop, TypeOK
    <3>2. box.given = checkout /\ box.success = TRUE
      BY <3>1 DEF Course, TypeOK, Box
    <3>3. [command |-> box.command, tree |-> checkout, success |-> TRUE] \in evidence'
      BY <3>1, <3>2
    <3>4. /\ Says("reproduction", checkout, TRUE)'
          /\ task.revision => \A c \in Previous \ host.left : Says(c, checkout, TRUE)'
      <4>1. Says("reproduction", checkout, TRUE)'
        BY <3>1, <3>3 DEF Course, Checked, Says
      <4>2. ASSUME task.revision, NEW c \in Previous \ host.left
            PROVE  Says(c, checkout, TRUE)'
        BY <3>1, <3>3, <4>2 DEF Course, Checked, Says
      <4> QED
        BY <4>1, <4>2
    <3>5. Accepted' /\ Shown'
      BY <3>1 DEF Course, Accepted, ValidPaths, Restricted, AllowedAreas, Shown, Says
    <3>6. CASE host.left = {}
      <4>1. host'.pc = "verify" /\ box'.given = checkout
        BY <3>1, <3>6, CopiedFields DEF NextCheck, Enter, TypeOK
      <4>2. Checked({})'
        BY <3>1, <3>4, <3>6 DEF Checked
      <4> QED
        BY <3>1, <3>5, <4>1, <4>2 DEF Course
    <3>7. CASE host.left # {}
      <4>1. PICK c \in host.left : /\ host' = [pc |-> "previous", left |-> host.left \ {c}]
                                   /\ box' = Copied(checkout, c, "check")
        BY <3>1, <3>7 DEF NextCheck
      <4>2. box'.given = checkout /\ box'.command = c
        BY <4>1, CopiedFields
      <4>3. host'.pc = "previous" /\ host'.left \cup {box'.command} = host.left
        BY <4>1, <4>2
      <4>4. Checked(host.left \cup {box.command})'
        BY <3>1, <3>4, <4>3 DEF Checked
      <4> QED
        BY <3>1, <3>5, <4>2, <4>3, <4>4 DEF Course
    <3> QED
      BY <3>6, <3>7
  <2> QED
    BY <2>1, <2>2
<1>17. CASE VerifyEnds
  <2>1. CASE host'.pc = "failed"
    BY <2>1, Stopped
  <2>2. CASE host'.pc # "failed"
    <3>1. /\ host.pc = "verify" /\ host'.pc = "fix" /\ approved' = box.given
          /\ UNCHANGED <<task, checkout, claim, evidence>>
      BY <1>17, <2>2 DEF VerifyEnds, Ended, Stop, TypeOK
    <3>2. Accepted' /\ Shown' /\ Checked({})'
      BY <3>1 DEF Course, Accepted, ValidPaths, Restricted, AllowedAreas, Shown, Checked, Says
    <3> QED
      BY <3>1, <3>2 DEF Course
  <2> QED
    BY <2>1, <2>2
<1>18. CASE UNCHANGED vars
  BY <1>18, Stays DEF vars, hostVars
<1>19. QED
  BY <1>1, <1>2, <1>3, <1>4, <1>5, <1>6, <1>7, <1>8, <1>9, <1>10, <1>11, <1>12, <1>13, <1>14, <1>15, <1>16, <1>17, <1>18 DEF Next, Worker, Host

-----------------------------------------------------------------------------
THEOREM Invariance == Spec => []IInv
<1>1. Init => IInv
  <2> SUFFICES ASSUME Init PROVE IInv
    OBVIOUS
  <2>1. TypeOK
    BY NoBoxInBox DEF Init, TypeOK, Tree, Task
  <2>2. Saved /\ Tools
    BY NoBoxFields DEF Init, Saved, Tools, Agents
  <2>3. Course
    BY DEF Init, Course
  <2> QED
    BY <2>1, <2>2, <2>3 DEF IInv
<1>2. IInv /\ [Next]_vars => IInv'
  BY TypeStep, SavedStep, ToolsStep, CourseStep DEF IInv
<1>3. QED
  BY <1>1, <1>2, PTL DEF Spec

(* What is handed on for publication has been proved to the host.          *)
THEOREM OnlyProvedFixes == Spec => []FixIsProved
<1>1. IInv => FixIsProved
  <2> SUFFICES ASSUME IInv, host.pc = "fix"
               PROVE  /\ task.kind # "investigation" /\ approved = checkout
                      /\ Says("reproduction", checkout, TRUE)
                      /\ task.revision => \A c \in Previous : Says(c, checkout, TRUE)
                      /\ checkout \subseteq Allowed \ Restricted
                      /\ task.kind = "bug" =>
                           \E t \in SUBSET checkout :
                              t # checkout /\ Says("reproduction", t, FALSE)
    BY DEF FixIsProved
  <2>1. Accepted /\ Shown /\ Checked({})
    BY DEF IInv, Course
  <2>2. task.kind # "investigation" /\ approved = checkout
    BY DEF IInv, Course
  <2>3. /\ Says("reproduction", checkout, TRUE)
        /\ task.revision => \A c \in Previous : Says(c, checkout, TRUE)
    BY <2>1 DEF Checked
  <2>4. checkout \subseteq Allowed \ Restricted
    BY <2>1 DEF Accepted, ValidPaths, AllowedAreas
  <2>5. ASSUME task.kind = "bug"
        PROVE  \E t \in SUBSET checkout : t # checkout /\ Says("reproduction", t, FALSE)
    <3>1. claim.tests \subseteq checkout /\ claim.tests # checkout
      BY <2>1, <2>5 DEF Accepted, ValidPaths
    <3>2. Says("reproduction", claim.tests, FALSE)
      BY <2>1, <2>5 DEF Shown
    <3> QED
      BY <3>1, <3>2
  <2> QED
    BY <2>2, <2>3, <2>4, <2>5
<1>2. QED
  BY <1>1, Invariance, PTL

(* How a step goes on from a sandbox whose agent is at work: within it, or *)
(* with a sandbox that has no agent at work.                               *)
LEMMA FromReply ==
    ASSUME IInv, [Next]_vars, box.pc = "reply"
    PROVE  \/ Accept \/ Leave \/ StreamBreaks \/ StopsWithoutReport \/ Kill
           \/ (\E r \in Report : Submit(r)) \/ (\E f \in Files : Edit(f))
           \/ UNCHANGED vars
<1>1. ~Start /\ ~RunCheck
  BY DEF Start, RunCheck
<1>2. host.pc \in Phases
  BY DEF IInv, Saved
<1>3. ~Prepare /\ ~AcceptPatch /\ ~RefusePatch
  BY <1>2 DEF Prepare, AcceptPatch, RefusePatch, Phases
<1>4. ~PhaseFails /\ ~CodeEnds /\ ~BaselineEnds /\ ~CheckEnds /\ ~VerifyEnds
  BY DEF PhaseFails, CodeEnds, BaselineEnds, CheckEnds, VerifyEnds, Ended
<1>5. QED
  BY <1>1, <1>3, <1>4 DEF Next, Worker, Host

(* Once it was asked for, a report is about work that stands.              *)
THEOREM WorkStands == Spec => ReportedWorkStands
<1>1. ASSUME IInv, [Next]_vars, box.pc = "reply", box.recoveries > 0
      PROVE  box'.ws = box.ws
  <2>1. ~box.developer /\ box \in Box
    BY <1>1 DEF IInv, Tools, TypeOK
  <2>2. ~(\E f \in Files : Edit(f))
    BY <2>1 DEF Edit
  <2>3. CASE Accept \/ Leave \/ StreamBreaks \/ StopsWithoutReport \/ Kill
    BY <2>1, <2>3 DEF Accept, Leave, StreamBreaks, StopsWithoutReport, Kill, Goto, Box
  <2>4. CASE \E r \in Report : Submit(r)
    BY <2>1, <2>4 DEF Submit, Box
  <2>5. CASE UNCHANGED vars
    BY <2>5 DEF vars
  <2> QED
    BY <1>1, <2>2, <2>3, <2>4, <2>5, FromReply
<1>2. QED
  BY <1>1, Invariance, PTL DEF Spec, ReportedWorkStands

(* The acknowledged report is the one that is read.                        *)
THEOREM KeptReport == Spec => ReportIsKept
<1>1. ASSUME IInv, [Next]_vars, box.report # None,
             box'.pc \notin {"none", "start", "check"}
      PROVE  box'.report = box.report /\ box'.disk = box.report
  <2>1. /\ box \in Box /\ box.disk = box.report /\ box.pc # "saving"
    BY <1>1 DEF IInv, Saved, TypeOK
  <2>2. CASE Start \/ Accept \/ Leave \/ StreamBreaks \/ StopsWithoutReport \/ RunCheck \/ Kill
    BY <1>1, <2>1, <2>2 DEF Start, Accept, Leave, StreamBreaks, StopsWithoutReport, RunCheck,
       Kill, Goto, Box
  <2>3. CASE \E f \in Files : Edit(f)
    BY <2>1, <2>3 DEF Edit, Box
  <2>4. CASE \E r \in Report : Submit(r)
    BY <1>1, <2>4 DEF Submit
  <2>5. CASE UNCHANGED vars
    BY <2>1, <2>5 DEF vars
  <2>6. CASE Host
    <3>1. box'.pc \in {"none", "start", "check"}
      BY <2>6, CopiedFields, NoBoxFields DEF Host, Prepare, PhaseFails, CodeEnds, AcceptPatch,
         RefusePatch, BaselineEnds, CheckEnds, VerifyEnds, NextCheck, Stop, Enter
    <3> QED
      BY <1>1, <3>1
  <2> QED
    BY <1>1, <2>2, <2>3, <2>4, <2>5, <2>6 DEF Next, Worker
<1>2. QED
  BY <1>1, Invariance, PTL DEF Spec, ReportIsKept

-----------------------------------------------------------------------------
(***************************************************************************)
(* The triage.  Its inductive invariant: what is no longer pending is      *)
(* backed by a judgement of the evidence of the pass or left open; no      *)
(* batch shares an item with another; and what is handled, what a pass is  *)
(* about and what there is on GitHub are in this order, so that a pass     *)
(* under way is always about something else than what is handled.          *)
(***************************************************************************)
\* What is still to be screened.
Pending(c) ==
  c \in pass.rest \/ \E i \in DOMAIN pass.batches : c \in pass.batches[i]

\* Screening only says what its question offers; what was investigated was
\* small enough to be asked about.
Honest ==
  /\ \A c \in Items : answers.screening[c] # Unknown => answers.screening[c].choice \in Choices(c)
  /\ \A c \in Items : answers.investigation[c] # Unknown => size[c] = "small"

\* Nobody's contents changed more often than people edited.
Counted == world.issue <= used.edits /\ \A c \in Items : world.items[c] <= used.edits

\* Nothing is found, and nothing spent, before the screening begins.
Calm ==
  pass.pc \in {"idle", "read", "classify"} =>
    pass.batches = << >> /\ pass.found = Nothing /\ pass.cost = 0

\* The class is the one that was kept for the issue as it was read.
Classified ==
  pass.class \in Classes /\ answers.class = [issue |-> pass.evidence.issue, choice |-> pass.class]

\* No item is in two batches, or both in a batch and to be put into one.
Apart ==
  /\ \A i, j \in DOMAIN pass.batches : i # j => pass.batches[i] \cap pass.batches[j] = {}
  /\ \A i \in DOMAIN pass.batches : pass.batches[i] \cap pass.rest = {}

\* What a request would be paid for.
Unasked(c) == pass.found[c] = Unknown /\ ~Kept(answers.screening[c], c)

\* What was found is what a kept judgement of this evidence says.
ScreeningSays(c) == Kept(answers.screening[c], c) /\ answers.screening[c].choice = pass.found[c]

Weighed(c) == pass.found[c] = "uncertain" \/ ScreeningSays(c)

InvestigationSays(c) ==
  Kept(answers.investigation[c], c) /\ answers.investigation[c].choice = pass.found[c]

\* What is left open or backed, a pull request only by its diff.
Settled(c) ==
  \/ pass.found[c] = "uncertain"
  \/ ScreeningSays(c) /\ (c \in Pulls => pass.found[c] = "different")
  \/ InvestigationSays(c)

\* While screening, what is pending has nothing kept, and what is not is backed.
Screen ==
  pass.pc = "screen" =>
    /\ Classified /\ Apart
    /\ \A c \in Items : Pending(c) => Unasked(c)
    /\ \A c \in Items : Pending(c) \/ Weighed(c)

Inspect ==
  pass.pc = "investigate" => Classified /\ \A c \in Items \ pass.rest : Settled(c)

Oversized == pass.class = "oversized" /\ pass.found = Nothing

Complete ==
  \/ Oversized
  \/ Classified /\ \A c \in Items : Settled(c)

Conclude ==
  /\ pass.pc = "decide" => Oversized
  /\ Deciding =>
       /\ record.decision = Decision
       /\ Complete

\* What is handled, the list, the issue as read, and what there is now
\* follow one another; a pass is about something that is not handled.
Earlier(a, b) == \A c \in Items : a[c] <= b[c]

HandledIsPast ==
  record.fingerprint # Unknown =>
    record.fingerprint.issue <= world.issue /\ Earlier(record.fingerprint.items, world.items)

ListIsPast ==
  pass.pc # "idle" =>
    /\ Earlier(pass.evidence.items, world.items)
    /\ record.fingerprint # Unknown => Earlier(record.fingerprint.items, pass.evidence.items)

ReadIsPast ==
  pass.pc \notin {"idle", "read"} =>
    /\ pass.evidence.issue <= world.issue
    /\ record.fingerprint # Unknown => record.fingerprint.issue <= pass.evidence.issue
    /\ record.fingerprint # pass.evidence

DoneIsMarked == pass.pc = "commit" => marked = Marks(record.decision)

Handled == HandledIsPast /\ ListIsPast /\ ReadIsPast /\ DoneIsMarked /\ CommittedIsMarked

Compared == Calm /\ Screen /\ Inspect /\ Conclude

TriageInv == TriageTypeOK /\ Counted /\ Honest /\ Compared /\ Handled

-----------------------------------------------------------------------------
\* A sequence has finitely many items, so that batches have a size.
LEMMA ItemsFinite ==
  /\ IsFiniteSet(Items)
  /\ \A S \in SUBSET Items : IsFiniteSet(S) /\ Cardinality(S) \in Nat
  /\ Len(Candidates) \in Nat /\ DOMAIN Candidates = 1..Len(Candidates)
<1> USE TriageAssumption
<1>1. Candidates \in Seq(Items) /\ Len(Candidates) \in Nat /\ DOMAIN Candidates = 1..Len(Candidates)
  OBVIOUS
<1>2. Candidates \in Surjection(1..Len(Candidates), Items)
  BY <1>1 DEF Surjection, Items
<1>3. IsFiniteSet(1..Len(Candidates))
  BY <1>1, FS_Interval
<1>4. IsFiniteSet(Items)
  BY <1>2, <1>3, FS_Surjection
<1>5. \A S \in SUBSET Items : IsFiniteSet(S) /\ Cardinality(S) \in Nat
  BY <1>4, FS_Subset, FS_CardinalityType
<1> QED
  BY <1>1, <1>4, <1>5

\* Some item of those that are left comes first.
LEMMA FirstExists ==
  ASSUME NEW S \in SUBSET Items, S # {}
  PROVE  \E c \in S : {c} \in Firsts(S)
<1> DEFINE Places == {i \in DOMAIN Candidates : Candidates[i] \in S}
<1>1. Places \subseteq Nat /\ Places # {} /\ DOMAIN Candidates \subseteq Nat
  BY ItemsFinite DEF Items
<1> DEFINE R == {pair \in Nat \X Nat : pair[1] < pair[2]}
<1>2. \A i, j \in Nat : <<i, j>> \in R <=> i < j
  OBVIOUS
<1>3. IsWellFoundedOn(R, Nat)
  BY NatLessThanWellFounded, Zenon DEF OpToRel
<1> HIDE DEF R
<1> HIDE DEF Places
<1>4. PICK i \in Places : \A j \in Places : ~(<<j, i>> \in R)
  BY <1>1, <1>3, WFMin
<1>5. \A j \in Places : i <= j
  <2> SUFFICES ASSUME NEW j \in Places PROVE i <= j
    OBVIOUS
  <2>1. i \in Nat /\ j \in Nat
    BY <1>1
  <2>2. ~(j < i)
    BY <2>1, <1>2, <1>4
  <2> QED
    BY <2>1, <2>2
<1>6. Candidates[i] \in S /\ i \in DOMAIN Candidates
  BY DEF Places
<1>7. \A d \in S \ {Candidates[i]} : Ahead(Candidates[i], d)
  <2> SUFFICES ASSUME NEW d \in S \ {Candidates[i]} PROVE Ahead(Candidates[i], d)
    OBVIOUS
  <2>1. PICK j \in DOMAIN Candidates : Candidates[j] = d
    BY DEF Items
  <2>2. j \in Places /\ j # i
    BY <2>1 DEF Places
  <2>3. i < j
    BY <2>2, <1>5, <1>1, <1>6
  <2> QED
    BY <2>1, <2>3, <1>6 DEF Ahead
<1> QED
  BY <1>6, <1>7 DEF Firsts

\* There is always an item to investigate next.
LEMMA SubjectIsLeft ==
  ASSUME TriageTypeOK, pass.rest # {}
  PROVE  Subject \in pass.rest /\ Subject \in Items
<1>1. pass.rest \in SUBSET Items
  BY DEF TriageTypeOK, Passes
<1> QED
  BY <1>1, FirstExists DEF Subject

\* Every class has a route.
LEMMA MarksType ==
  ASSUME NEW d \in Decisions
  PROVE  Marks(d) \in Markings
<1> USE TriageAssumption
<1>1. d.class \in AllClasses \cup {"oversized"} /\ d.class \in Classes \cup {"oversized"}
  BY DEF Decisions
<1>2. RouteOf(d) \in Routes
  BY <1>1 DEF RouteOf, Routes, AllClasses
<1>3. Matches(d) \in SUBSET Items /\ Related(d) \in SUBSET Items
  BY DEF Matches, Related
<1> QED
  BY <1>1, <1>2, <1>3 DEF Marks, Markings

LEMMA IdleType == Idle \in Passes
<1>1. Nothing \in [Items -> Outcomes \cup {"relevant", Unknown}]
  BY DEF Nothing
<1>2. [issue |-> 0, items |-> [c \in Items |-> 0]] \in Evidence
  BY TriageAssumption DEF Evidence, Versions
<1>3. << >> \in Seq((SUBSET Items) \ {{}})
  OBVIOUS
<1> QED
  BY <1>1, <1>2, <1>3, TriageAssumption DEF Idle, Passes, Steps

LEMMA InitEstablishes ==
  ASSUME TriageInit PROVE TriageInv
<1> USE TriageAssumption, UnknownIsNoValue DEF TriageInit
<1>1. TriageTypeOK
  <2>1. world \in Worlds
    BY DEF Worlds, Versions
  <2>2. answers \in Answers
    BY DEF Answers, Nothing
  <2>3. record \in Records
    BY DEF Records
  <2>4. pass \in Passes
    BY IdleType
  <2> QED
    BY <2>1, <2>2, <2>3, <2>4 DEF TriageTypeOK
<1>2. Honest
  BY DEF Honest, Nothing
<1>3. Counted
  BY DEF Counted
<1>4. Compared
  BY DEF Compared, Calm, Screen, Inspect, Conclude, Deciding, Idle
<1>5. Handled
  <2>1. [issue |-> world.issue, items |-> world.items] \in Evidence
    BY DEF Evidence, Versions
  <2> QED
    BY <2>1 DEF Handled, HandledIsPast, ListIsPast, ReadIsPast, DoneIsMarked, CommittedIsMarked, Idle
<1> QED
  BY <1>1, <1>2, <1>3, <1>4, <1>5 DEF TriageInv

-----------------------------------------------------------------------------
LEMMA PassFields ==
  ASSUME TriageTypeOK
  PROVE  /\ pass.pc \in Steps /\ pass.evidence \in Evidence
         /\ pass.class \in Classes \cup {"oversized", Unknown}
         /\ pass.found \in [Items -> Outcomes \cup {"relevant", Unknown}]
         /\ pass.rest \in SUBSET Items /\ pass.batches \in Seq((SUBSET Items) \ {{}})
         /\ pass.cost \in 0..Budget /\ pass.limit \in 0..Budget
         /\ pass.investigations \in 0..MaxInvestigations
  BY DEF TriageTypeOK, Passes

LEMMA PassMoves ==
  ASSUME TriageTypeOK, NEW pc \in Steps
  PROVE  [pass EXCEPT !.pc = pc] \in Passes
  BY DEF TriageTypeOK, Passes

LEMMA PassScreens ==
  ASSUME TriageTypeOK, NEW class \in Classes, NEW cost \in 0..Budget
  PROVE  Screening(class, cost) \in Passes
<1> USE TriageAssumption, UnknownIsNoValue
<1> DEFINE known == [c \in Items |->
                  IF size[c] = "huge" THEN "uncertain"
                  ELSE IF Kept(answers.screening[c], c) THEN answers.screening[c].choice
                  ELSE Unknown]
<1>1. \A c \in Items : Kept(answers.screening[c], c) => answers.screening[c].choice \in Outcomes \cup {"relevant"}
  BY DEF TriageTypeOK, Answers, Screenings, Kept
<1>2. known \in [Items -> Outcomes \cup {"relevant", Unknown}]
  BY <1>1 DEF Outcomes
<1> DEFINE rest == {c \in Items : known[c] = Unknown}
<1>3. rest \in SUBSET Items
  OBVIOUS
<1>4. Screening(class, cost) = [pass EXCEPT !.pc = "screen", !.class = class, !.cost = cost, !.found = known,
                  !.rest = rest]
  BY DEF Screening
<1> HIDE DEF known, rest
<1>5. [pass EXCEPT !.pc = "screen", !.class = class, !.cost = cost, !.found = known, !.rest = rest] \in Passes
  BY <1>2, <1>3 DEF TriageTypeOK, Passes, Steps
<1> QED
  BY <1>4, <1>5

LEMMA PassBatches ==
  ASSUME TriageTypeOK, NEW found \in [Items -> Outcomes \cup {"relevant", Unknown}],
         NEW batches \in Seq((SUBSET Items) \ {{}}), NEW rest \in SUBSET Items,
         NEW cost \in 0..Budget
  PROVE  [pass EXCEPT !.cost = cost, !.batches = batches, !.rest = rest, !.found = found] \in Passes
  BY DEF TriageTypeOK, Passes

LEMMA PassInvestigates ==
  ASSUME TriageTypeOK, NEW outcome \in Outcomes, NEW c \in Items,
         NEW cost \in 0..Budget, NEW n \in 0..MaxInvestigations
  PROVE  [pass EXCEPT !.found[c] = outcome, !.rest = @ \ {c}, !.cost = cost,
                      !.investigations = n] \in Passes
  BY DEF TriageTypeOK, Passes

\* The first batch, and what is left when it is gone.
LEMMA BatchType ==
  ASSUME TriageTypeOK, pass.batches # << >>
  PROVE  /\ Batch \in SUBSET Items /\ Batch # {}
         /\ Tail(pass.batches) \in Seq((SUBSET Items) \ {{}})
         /\ Cardinality(Batch) \in Nat /\ IsFiniteSet(Batch)
<1>1. pass.batches \in Seq((SUBSET Items) \ {{}})
  BY PassFields
<1>2. Batch \in (SUBSET Items) \ {{}} /\ Tail(pass.batches) \in Seq((SUBSET Items) \ {{}})
  BY <1>1 DEF Batch
<1> QED
  BY <1>2, ItemsFinite

LEMMA RecordStays ==
  ASSUME TriageTypeOK
  PROVE  /\ record.fingerprint \in Evidence \cup {Unknown}
         /\ record.decision \in Decisions \cup {Unknown}
         /\ record.retry \in Retries \cup {Unknown}
  BY DEF TriageTypeOK, Records

LEMMA ChargeType ==
  ASSUME TriageTypeOK, NEW n \in Nat, NEW cost \in Spent(n), NEW limit \in 0..Budget,
         pass.cost + Estimate(n) <= limit
  PROVE  cost \in 0..Budget
<1>1. pass.cost \in 0..Budget /\ Budget \in Nat
  BY PassFields, TriageAssumption
<1>2. PICK charge \in 0..Estimate(n) : cost = pass.cost + charge
  BY DEF Spent
<1> QED
  BY <1>1, <1>2 DEF Estimate

\* What a failing request leaves is a record with a retry.
LEMMA FailureType ==
  ASSUME TriageTypeOK, RequestFails \/ OutOfBudget
  PROVE  TriageTypeOK'
<1>1. pass.evidence \in Evidence
  BY PassFields
<1>2. \A permanent \in BOOLEAN :
        [evidence |-> pass.evidence, waiting |-> TRUE, permanent |-> permanent] \in Retries
  BY <1>1 DEF Retries
<1>3. record' \in Records
  BY <1>2, RecordStays DEF RequestFails, OutOfBudget, TriageTypeOK, Records
<1>4. used' \in [edits : 0..MaxEdits, faults : 0..MaxFaults]
  BY TriageAssumption DEF RequestFails, OutOfBudget, TriageTypeOK, Fault
<1> QED
  BY <1>3, <1>4, IdleType DEF RequestFails, OutOfBudget, TriageTypeOK

\* A pass ends with an outcome for every item.
LEMMA ConcludedType ==
  ASSUME TriageTypeOK, Honest, Classified, \A c \in Items : Settled(c)
  PROVE  Decision \in Decisions
<1> USE TriageAssumption, UnknownIsNoValue
<1>1. \A c \in Items : pass.found[c] \in Outcomes
  <2> SUFFICES ASSUME NEW c \in Items PROVE pass.found[c] \in Outcomes
    OBVIOUS
  <2>1. Settled(c)
    OBVIOUS
  <2>2. CASE pass.found[c] = "uncertain"
    BY <2>2 DEF Outcomes
  <2>3. CASE ScreeningSays(c) /\ (c \in Pulls => pass.found[c] = "different")
    BY <2>3 DEF ScreeningSays, Honest, Choices, Kept, Outcomes
  <2>4. CASE InvestigationSays(c)
    BY <2>4 DEF InvestigationSays, Kept, TriageTypeOK, Answers, Investigations
  <2> QED
    BY <2>1, <2>2, <2>3, <2>4 DEF Settled
<1>2. pass.found \in [Items -> Outcomes \cup {Unknown}]
  BY <1>1, PassFields
<1> QED
  BY <1>2 DEF Classified, Decision, Decisions

LEMMA OversizedType ==
  ASSUME Oversized PROVE Decision \in Decisions
  BY DEF Oversized, Decision, Decisions, Nothing

LEMMA DecisionType ==
  ASSUME TriageTypeOK, Honest, Inspect, Conclude,
         (pass.pc = "investigate" /\ pass.rest = {}) \/ pass.pc = "decide" \/ Deciding
  PROVE  Decision \in Decisions
  BY ConcludedType, OversizedType DEF Inspect, Conclude, Complete

\* The actions of a pass up to its screening.
LEMMA TypeBegin ==
  ASSUME TriageTypeOK, Calm, Inventory \/ ReadIssue \/ Classify
  PROVE  TriageTypeOK'
<1>1. CASE Inventory
  <2>1. pass' \in Passes
    BY <1>1 DEF Inventory, TriageTypeOK, Passes, Evidence, Worlds, Steps
  <2> QED
    BY <1>1, <2>1 DEF Inventory, TriageTypeOK
<1>2. CASE ReadIssue
  <2> DEFINE asRead == [pass.evidence EXCEPT !.issue = world.issue]
  <2>1. asRead \in Evidence
    BY PassFields DEF Evidence, TriageTypeOK, Worlds
  <2> HIDE DEF asRead
  <2>2. [pass EXCEPT !.pc = "classify", !.evidence = asRead] \in Passes
    BY <2>1 DEF TriageTypeOK, Passes, Steps
  <2>3. pass' \in Passes
    BY <1>2, <2>2, IdleType DEF ReadIssue, asRead
  <2> QED
    BY <1>2, <2>3 DEF ReadIssue, TriageTypeOK
<1>3. CASE Classify
  <2>1. CASE ClassKnown /\ pass' = Screening(answers.class.choice, 0) /\ UNCHANGED answers
    <3>1. answers.class.choice \in Classes /\ 0 \in 0..Budget
      BY <2>1, TriageAssumption DEF ClassKnown, TriageTypeOK, Answers, Classifications
    <3> QED
      BY <1>3, <2>1, <3>1, PassScreens DEF Classify, TriageTypeOK
  <2>2. CASE \E class \in Classes, cost \in Spent(1) :
                /\ answers' = [answers EXCEPT !.class = [issue |-> pass.evidence.issue,
                                                         choice |-> class]]
                /\ pass' = Screening(class, cost)
    <3>1. PICK class \in Classes, cost \in Spent(1) :
                /\ answers' = [answers EXCEPT !.class = [issue |-> pass.evidence.issue,
                                                         choice |-> class]]
                /\ pass' = Screening(class, cost)
      BY <2>2
    <3>2. pass.evidence.issue \in Versions
      BY PassFields DEF Evidence
    <3>3. answers' \in Answers
      BY <3>1, <3>2 DEF TriageTypeOK, Answers, Classifications
    <3>4. cost \in 0..Budget
      <4>1. pass.cost + Estimate(1) <= Budget /\ Budget \in 0..Budget
        BY <1>3, TriageAssumption DEF Calm, Classify, Estimate
      <4> QED
        BY <4>1, ChargeType
    <3> QED
      BY <1>3, <3>1, <3>3, <3>4, PassScreens DEF Classify, TriageTypeOK
  <2>3. CASE pass' = [pass EXCEPT !.pc = "decide", !.class = "oversized"] /\ UNCHANGED answers
    <3>1. pass' \in Passes
      BY <2>3 DEF TriageTypeOK, Passes, Steps
    <3> QED
      BY <1>3, <2>3, <3>1 DEF Classify, TriageTypeOK
  <2> QED
    BY <1>3, <2>1, <2>2, <2>3 DEF Classify
<1> QED
  BY <1>1, <1>2, <1>3

\* The actions of screening.
LEMMA TypeScreen ==
  ASSUME TriageTypeOK,
         TakeBatch \/ Split \/ Unaffordable \/ RejectedAlone \/ Screened \/ StartInvestigating
  PROVE  TriageTypeOK'
<1> USE TriageAssumption
<1>1. CASE TakeBatch
  <2>1. PICK batch \in Firsts(pass.rest) \ {{}} :
          pass' = [pass EXCEPT !.batches = <<batch>>, !.rest = @ \ batch]
    BY <1>1 DEF TakeBatch
  <2>2. <<batch>> \in Seq((SUBSET Items) \ {{}}) /\ pass.rest \ batch \in SUBSET Items
    BY PassFields DEF Firsts
  <2>3. pass' \in Passes
    BY <2>1, <2>2 DEF TriageTypeOK, Passes
  <2> QED
    BY <1>1, <2>3 DEF TakeBatch, TriageTypeOK
<1>2. CASE Split
  <2>1. PICK half \in Firsts(Batch) \ {{}, Batch} :
          pass' = [pass EXCEPT !.batches = <<half, Batch \ half>> \o Tail(@)]
    BY <1>2 DEF Split
  <2>2. Batch \in SUBSET Items /\ Tail(pass.batches) \in Seq((SUBSET Items) \ {{}})
    BY <1>2, BatchType DEF Split, Screens
  <2>3. half \in (SUBSET Items) \ {{}} /\ Batch \ half \in (SUBSET Items) \ {{}}
    BY <2>2 DEF Firsts
  <2>4. <<half, Batch \ half>> \o Tail(pass.batches) \in Seq((SUBSET Items) \ {{}})
    BY <2>2, <2>3
  <2>5. pass' \in Passes
    BY <2>1, <2>4 DEF TriageTypeOK, Passes
  <2> QED
    BY <1>2, <2>5 DEF Split, TriageTypeOK
<1>3. CASE Unaffordable
  BY <1>3, FailureType DEF Unaffordable
<1>4. CASE RejectedAlone
  <2>1. PICK c \in Items :
          Alone(c) /\ pass' = [pass EXCEPT !.found[c] = "uncertain", !.batches = Tail(@)]
    BY <1>4 DEF RejectedAlone
  <2>2. Tail(pass.batches) \in Seq((SUBSET Items) \ {{}})
    BY <2>1, BatchType DEF Alone, Screens
  <2>3. pass' \in Passes
    BY <2>1, <2>2 DEF TriageTypeOK, Passes, Outcomes
  <2> QED
    BY <1>4, <2>3 DEF RejectedAlone, TriageTypeOK
<1>5. CASE Screened
  <2>1. PICK choice \in Replies, cost \in Spent(Cardinality(Batch)) :
       \/ /\ answers' = WithAnswers(Batch, choice)
          /\ pass' = WithFound(choice, cost)
          /\ UNCHANGED used
       \/ \E stored \in Firsts(Batch) \ {{}, Batch} :
            /\ Fault
            /\ answers' = WithAnswers(stored, choice)
            /\ pass' = Idle
    BY <1>5 DEF Screened
  <2>2. Batch \in SUBSET Items /\ Tail(pass.batches) \in Seq((SUBSET Items) \ {{}})
          /\ Cardinality(Batch) \in Nat
    BY <1>5, BatchType DEF Screened, Answerable, Screens
  <2>3. cost \in 0..Budget
    BY <1>5, <2>2, ChargeType DEF Screened, Answerable, Affordable
  <2>4. choice \in [Batch -> Outcomes \cup {"relevant"}]
    BY DEF Replies
  <2>5. \A batch \in SUBSET Batch : WithAnswers(batch, choice) \in Answers
    <3> SUFFICES ASSUME NEW batch \in SUBSET Batch PROVE WithAnswers(batch, choice) \in Answers
      OBVIOUS
    <3>1. \A c \in batch : [issue |-> pass.evidence.issue, item |-> pass.evidence.items[c],
                            choice |-> choice[c]] \in Screenings
      BY <2>2, <2>4, PassFields DEF Evidence, Screenings
    <3> DEFINE screening == [c \in Items |->
          IF c \in batch THEN [issue |-> pass.evidence.issue, item |-> pass.evidence.items[c],
                               choice |-> choice[c]]
          ELSE answers.screening[c]]
    <3>2. screening \in [Items -> Screenings \cup {Unknown}]
      BY <3>1 DEF TriageTypeOK, Answers
    <3> HIDE DEF screening
    <3>3. [answers EXCEPT !.screening = screening] \in Answers
      BY <3>2 DEF TriageTypeOK, Answers
    <3> QED
      BY <3>3 DEF WithAnswers, screening
  <2>6. WithFound(choice, cost) \in Passes
    <3> DEFINE found == [c \in Items |-> IF c \in Batch THEN choice[c] ELSE pass.found[c]]
    <3>1. found \in [Items -> Outcomes \cup {"relevant", Unknown}]
      BY <2>2, <2>4, PassFields
    <3> HIDE DEF found
    <3>2. [pass EXCEPT !.cost = cost, !.batches = Tail(@), !.found = found] \in Passes
      BY <2>2, <2>3, <3>1 DEF TriageTypeOK, Passes
    <3> QED
      BY <3>2 DEF WithFound, found
  <2>7. answers' \in Answers /\ pass' \in Passes
    BY <2>1, <2>5, <2>6, IdleType DEF Firsts
  <2>8. used' \in [edits : 0..MaxEdits, faults : 0..MaxFaults]
    BY <2>1 DEF Fault, TriageTypeOK
  <2> QED
    BY <1>5, <2>7, <2>8 DEF Screened, TriageTypeOK
<1>6. CASE StartInvestigating
  <2> DEFINE left == {c \in Items : NeedsInvestigation(c)}
             limit == Lesser(Budget, pass.cost + InvestigationBudget)
  <2>1. limit \in 0..Budget /\ left \in SUBSET Items
    BY PassFields DEF Lesser
  <2> HIDE DEF left, limit
  <2>2. [pass EXCEPT !.pc = "investigate", !.rest = left, !.limit = limit] \in Passes
    BY <2>1 DEF TriageTypeOK, Passes, Steps
  <2> QED
    BY <1>6, <2>2 DEF StartInvestigating, TriageTypeOK, left, limit
<1> QED
  BY <1>1, <1>2, <1>3, <1>4, <1>5, <1>6

\* The actions of the investigation.
LEMMA ResolvedType ==
  ASSUME TriageTypeOK, Investigates, NEW outcome \in Outcomes, NEW cost \in 0..Budget,
         NEW more \in {0, 1}, pass.investigations + more <= MaxInvestigations,
         Resolved(outcome, cost, more)
  PROVE  pass' \in Passes
<1>1. Subject \in Items
  BY SubjectIsLeft DEF Investigates
<1>2. pass.investigations + more \in 0..MaxInvestigations
  BY PassFields, TriageAssumption
<1>3. pass' = [pass EXCEPT !.found[Subject] = outcome, !.rest = @ \ {Subject}, !.cost = cost,
                           !.investigations = pass.investigations + more]
  BY DEF Resolved
<1> QED
  BY <1>1, <1>2, <1>3, PassInvestigates

LEMMA TypeInvestigate ==
  ASSUME TriageTypeOK, Honest, Recall \/ NotInvestigated \/ Investigate
  PROVE  TriageTypeOK'
<1> USE TriageAssumption
<1>1. Subject \in Items /\ Investigates
  BY SubjectIsLeft DEF Investigates, Recall, NotInvestigated, Investigate, Asks
<1>2. pass.cost \in 0..Budget /\ pass.limit \in 0..Budget /\ pass.investigations \in 0..MaxInvestigations
  BY PassFields
<1>3. Investigated(Subject) => /\ answers.investigation[Subject].choice \in Outcomes
                               /\ size[Subject] = "small"
  BY <1>1 DEF Investigated, Kept, TriageTypeOK, Answers, Investigations, Honest
<1>4. CASE Recall
  <2>1. pass.investigations + (IF Subject \in Pulls THEN 1 ELSE 0) <= MaxInvestigations
    BY <1>2, <1>4 DEF Recall, LimitReached
  <2>2. pass' \in Passes
    BY <1>1, <1>2, <1>3, <1>4, <2>1, ResolvedType DEF Recall
  <2> QED
    BY <1>4, <2>2 DEF Recall, TriageTypeOK
<1>5. CASE NotInvestigated
  <2>1. LimitReached /\ Resolved("uncertain", pass.cost, 0) => pass' \in Passes
    BY <1>1, <1>2, ResolvedType DEF Outcomes
  <2>2. ~LimitReached /\ (MayLackDiff(Subject) \/ size[Subject] = "huge" \/ ~Investigated(Subject))
          => pass.investigations + 1 <= MaxInvestigations
    BY <1>2, <1>3 DEF LimitReached, MayLackDiff
  <2>3. pass.investigations + 1 <= MaxInvestigations /\ Resolved("uncertain", pass.cost, 1)
          => pass' \in Passes
    BY <1>1, <1>2, ResolvedType DEF Outcomes
  <2>4. pass' \in Passes
    BY <1>5, <2>1, <2>2, <2>3 DEF NotInvestigated
  <2> QED
    BY <1>5, <2>4 DEF NotInvestigated, TriageTypeOK
<1>6. CASE Investigate
  <2>1. PICK outcome \in Outcomes, cost \in Spent(1) :
       /\ answers' = [answers EXCEPT !.investigation[Subject] =
            [issue |-> pass.evidence.issue, item |-> pass.evidence.items[Subject],
             diff |-> Diff(Subject), choice |-> outcome]]
       /\ Resolved(outcome, cost, 1)
    BY <1>6 DEF Investigate
  <2>2. cost \in 0..Budget
    BY <1>2, <1>6, ChargeType DEF Investigate, Asks
  <2>3. pass.investigations + 1 <= MaxInvestigations
    BY <1>2, <1>6 DEF Investigate, Asks, LimitReached
  <2>4. pass' \in Passes
    BY <1>1, <2>1, <2>2, <2>3, ResolvedType
  <2> DEFINE judgement == [issue |-> pass.evidence.issue, item |-> pass.evidence.items[Subject],
                           diff |-> Diff(Subject), choice |-> outcome]
  <2>5. judgement \in Investigations
    BY <1>1, PassFields DEF Investigations, Evidence, Diff, TriageTypeOK, Worlds
  <2> HIDE DEF judgement
  <2>6. [answers EXCEPT !.investigation[Subject] = judgement] \in Answers
    BY <1>1, <2>5 DEF TriageTypeOK, Answers
  <2> QED
    BY <1>6, <2>1, <2>4, <2>6 DEF Investigate, TriageTypeOK, judgement
<1> QED
  BY <1>4, <1>5, <1>6

\* The decision, its marks, and what happens around the pass.
LEMMA TypeConclude ==
  ASSUME TriageTypeOK, Honest, Compared, Decide \/ CheckIssue \/ StartMarking \/ EndMarking \/ Commit
  PROVE  TriageTypeOK'
<1>1. CASE Decide
  <2>1. Decision \in Decisions
    BY <1>1, DecisionType DEF Decide, Compared
  <2>2. record' \in Records
    BY <1>1, <2>1 DEF Decide, TriageTypeOK, Records
  <2> QED
    BY <1>1, <2>2, PassMoves DEF Decide, Proceed, TriageTypeOK, Steps
<1>2. CASE CheckIssue
  BY <1>2, PassMoves, IdleType DEF CheckIssue, Proceed, TriageTypeOK, Steps
<1>3. CASE StartMarking
  BY <1>3 DEF StartMarking, TriageTypeOK
<1>4. CASE EndMarking
  <2>1. record.decision \in Decisions
    BY <1>4, DecisionType DEF EndMarking, Deciding, Conclude, Compared
  <2>2. marked' \in Markings
    BY <1>4, <2>1, MarksType DEF EndMarking
  <2> QED
    BY <1>4, <2>2, PassMoves DEF EndMarking, Proceed, TriageTypeOK, Steps
<1>5. CASE Commit
  <2>1. record' \in Records
    BY <1>5, PassFields DEF Commit, TriageTypeOK, Records
  <2> QED
    BY <1>5, <2>1, IdleType DEF Commit, TriageTypeOK
<1> QED
  BY <1>1, <1>2, <1>3, <1>4, <1>5

LEMMA TypeAround ==
  ASSUME TriageTypeOK, Counted,
         Fails \/ PauseEnds \/ DelayEnds \/ EditIssue \/ \E c \in Items : EditItem(c)
  PROVE  TriageTypeOK' /\ Counted'
<1> USE TriageAssumption
<1>1. CASE RequestFails /\ UNCHANGED world
  <2>1. used'.edits = used.edits
    BY <1>1 DEF RequestFails, Fault, TriageTypeOK
  <2> QED
    BY <1>1, <2>1, FailureType DEF Counted
<1>2. CASE Interrupted
  <2>1. used' \in [edits : 0..MaxEdits, faults : 0..MaxFaults] /\ used'.edits = used.edits
    BY <1>2 DEF Interrupted, TriageTypeOK, Fault
  <2> QED
    BY <1>2, <2>1, IdleType DEF Interrupted, TriageTypeOK, Counted
<1>3. CASE PauseEnds
  BY <1>3 DEF PauseEnds, TriageTypeOK, Counted
<1>4. CASE DelayEnds
  <2>1. record.retry \in Retries
    BY <1>4, RecordStays DEF DelayEnds
  <2>2. record' \in Records
    BY <1>4, <2>1 DEF DelayEnds, TriageTypeOK, Records, Retries
  <2> QED
    BY <1>4, <2>2 DEF DelayEnds, TriageTypeOK, Counted
<1>5. CASE EditIssue \/ \E c \in Items : EditItem(c)
  <2>1. used' \in [edits : 0..MaxEdits, faults : 0..MaxFaults] /\ used'.edits = used.edits + 1
          /\ used.edits \in Nat /\ used.edits + 1 <= MaxEdits
    BY <1>5 DEF EditIssue, EditItem, MayEdit, TriageTypeOK
  <2>2. world.issue \in Nat /\ \A c \in Items : world.items[c] \in Nat
    BY DEF TriageTypeOK, Worlds, Versions
  <2>3. CASE EditIssue
    <3>1. world'.items = world.items /\ world'.issue \in {world.issue, world.issue + 1}
            /\ world' \in [issue : Nat, open : BOOLEAN, items : [Items -> Versions]]
      <4>1. world \in Worlds
        BY DEF TriageTypeOK
      <4>2. CASE world' = [world EXCEPT !.issue = @ + 1]
        BY <2>2, <4>1, <4>2 DEF Worlds
      <4>3. CASE world' = [world EXCEPT !.open = FALSE]
        BY <2>2, <4>1, <4>3 DEF Worlds
      <4> QED
        BY <2>3, <4>2, <4>3 DEF EditIssue
    <3>2. Counted'
      BY <2>1, <2>2, <3>1 DEF Counted
    <3>3. world' \in Worlds
      BY <2>1, <3>1, <3>2 DEF Worlds, Counted, Versions
    <3> QED
      BY <2>1, <2>3, <3>2, <3>3 DEF EditIssue, TriageTypeOK
  <2>4. CASE \E c \in Items : EditItem(c)
    <3>1. PICK c \in Items : EditItem(c)
      BY <2>4
    <3>2. world'.issue = world.issue /\ world'.items = [world.items EXCEPT ![c] = @ + 1]
            /\ world' = [world EXCEPT !.items = [world.items EXCEPT ![c] = @ + 1]]
      BY <3>1 DEF EditItem, TriageTypeOK, Worlds
    <3>3. \A d \in Items : world'.items[d] \in {world.items[d], world.items[d] + 1}
      BY <3>2 DEF TriageTypeOK, Worlds
    <3>4. Counted'
      BY <2>1, <2>2, <3>2, <3>3 DEF Counted
    <3>5. world'.items \in [Items -> Versions]
      BY <2>1, <2>2, <3>2, <3>3, <3>4 DEF Versions, Counted, TriageTypeOK, Worlds
    <3>6. world' \in Worlds
      BY <3>2, <3>5 DEF Worlds, TriageTypeOK
    <3> QED
      BY <2>1, <3>1, <3>4, <3>6 DEF EditItem, TriageTypeOK
  <2> QED
    BY <1>5, <2>3, <2>4
<1> QED
  BY <1>1, <1>2, <1>3, <1>4, <1>5 DEF Fails, ClassifyFails, ScreenFails, InvestigationFails, RequestFails

-----------------------------------------------------------------------------
\* What a step may do to the judgements: nothing, keep some of the answers of
\* a batch, or keep that of an investigation.
ScreeningGrows ==
  /\ pass.pc = "screen" /\ pass.batches # << >> /\ Batch \in SUBSET Items
  /\ answers'.investigation = answers.investigation
  /\ \E batch \in SUBSET Batch, choice \in Replies : answers' = WithAnswers(batch, choice)

InvestigationGrows ==
  /\ Asks /\ size[Subject] = "small" /\ Subject \in Items
  /\ answers'.screening = answers.screening
  /\ \E outcome \in Outcomes :
       answers'.investigation = [answers.investigation EXCEPT ![Subject] =
            [issue |-> pass.evidence.issue, item |-> pass.evidence.items[Subject],
             diff |-> Diff(Subject), choice |-> outcome]]

JudgmentsStand ==
  answers'.screening = answers.screening /\ answers'.investigation = answers.investigation

LEMMA JudgmentsStep ==
  ASSUME TriageTypeOK, [TriageNext]_triageVars
  PROVE  JudgmentsStand \/ ScreeningGrows \/ InvestigationGrows
<1>1. answers' = answers => JudgmentsStand
  BY DEF JudgmentsStand
<1>2. CASE Classify
  BY <1>2 DEF Classify, JudgmentsStand, TriageTypeOK, Answers
<1>3. CASE Screened
  <2>1. Batch \in SUBSET Items
    BY <1>3, BatchType DEF Screened, Answerable, Screens
  <2>2. \E batch \in SUBSET Batch, choice \in Replies : answers' = WithAnswers(batch, choice)
    BY <1>3 DEF Screened, Firsts
  <2>3. answers'.investigation = answers.investigation
    BY <2>2 DEF WithAnswers, TriageTypeOK, Answers
  <2> QED
    BY <1>3, <2>1, <2>2, <2>3 DEF Screened, Answerable, Screens, ScreeningGrows
<1>4. CASE Investigate
  <2>1. Subject \in Items
    BY <1>4, SubjectIsLeft DEF Investigate, Asks, Investigates
  <2> QED
    BY <1>4, <2>1 DEF Investigate, InvestigationGrows, TriageTypeOK, Answers
<1>5. CASE TriageNext /\ ~Classify /\ ~Screened /\ ~Investigate
  BY <1>1, <1>5 DEF TriageNext, Pass, Fails, Inventory, ReadIssue, TakeBatch, Split, Unaffordable,
     OutOfBudget, RejectedAlone, StartInvestigating, Recall, NotInvestigated, Decide, CheckIssue,
     StartMarking, EndMarking, Commit, ClassifyFails, ScreenFails, InvestigationFails,
     RequestFails, Interrupted, PauseEnds, DelayEnds, EditIssue, EditItem
<1>6. CASE UNCHANGED triageVars
  BY <1>1, <1>6 DEF triageVars
<1> QED
  BY <1>2, <1>3, <1>4, <1>5, <1>6

\* Judgements stay what Jev could have said.
LEMMA HonestStep ==
  ASSUME TriageTypeOK, Honest, [TriageNext]_triageVars
  PROVE  Honest'
<1>1. size' = size
  BY DEF triageVars, TriageNext, Pass, Fails, Inventory, ReadIssue, Classify, TakeBatch, Split,
     Unaffordable, OutOfBudget, RejectedAlone, Screened, StartInvestigating, Recall,
     NotInvestigated, Investigate, Decide, CheckIssue, StartMarking, EndMarking, Commit,
     ClassifyFails, ScreenFails, InvestigationFails, RequestFails, Interrupted, PauseEnds,
     DelayEnds, EditIssue, EditItem
<1>2. CASE JudgmentsStand
  BY <1>1, <1>2 DEF JudgmentsStand, Honest
<1>3. CASE ScreeningGrows
  <2>1. PICK batch \in SUBSET Batch, choice \in Replies : answers' = WithAnswers(batch, choice)
    BY <1>3 DEF ScreeningGrows
  <2>2. \A c \in Items : IF c \in batch THEN answers'.screening[c].choice = choice[c]
                         ELSE answers'.screening[c] = answers.screening[c]
    BY <2>1 DEF WithAnswers, TriageTypeOK, Answers
  <2>3. \A c \in Batch : choice[c] \in Choices(c)
    BY DEF Replies
  <2> QED
    BY <1>1, <1>3, <2>2, <2>3 DEF Honest, ScreeningGrows
<1>4. CASE InvestigationGrows
  <2>1. \A c \in Items \ {Subject} : answers'.investigation[c] = answers.investigation[c]
    BY <1>4 DEF InvestigationGrows, TriageTypeOK, Answers
  <2> QED
    BY <1>1, <1>4, <2>1 DEF Honest, InvestigationGrows
<1> QED
  BY <1>2, <1>3, <1>4, JudgmentsStep

\* The classification of the issue is asked for only when the one at hand is
\* of another text.
LEMMA ClassStandsUntilStale ==
  ASSUME TriageTypeOK, [TriageNext]_triageVars
  PROVE  LET before == answers.class
             after == answers'.class
         IN before # after /\ before # Unknown => before.issue # after.issue
<1>1. CASE answers'.class = answers.class
  BY <1>1
<1>2. CASE Classify
  <2>1. CASE ClassKnown
    BY <1>2, <2>1 DEF Classify
  <2>2. CASE ~ClassKnown /\ answers' # answers
    <3>1. answers'.class.issue = pass.evidence.issue
      BY <1>2, <2>2 DEF Classify, TriageTypeOK, Answers
    <3> QED
      BY <2>2, <3>1 DEF ClassKnown
  <2> QED
    BY <2>1, <2>2
<1>3. CASE Screened
  BY <1>3 DEF Screened, WithAnswers, TriageTypeOK, Answers
<1>4. CASE Investigate
  BY <1>4 DEF Investigate, TriageTypeOK, Answers
<1>5. ASSUME ~(Classify \/ Screened \/ Investigate)
      PROVE  answers' = answers
  BY <1>5 DEF triageVars, TriageNext, Pass, Fails, Inventory, ReadIssue, TakeBatch, Split,
     Unaffordable, OutOfBudget, RejectedAlone, StartInvestigating, Recall,
     NotInvestigated, Decide, CheckIssue, StartMarking, EndMarking, Commit,
     ClassifyFails, ScreenFails, InvestigationFails, RequestFails, Interrupted, PauseEnds,
     DelayEnds, EditIssue, EditItem
<1> QED
  BY <1>1, <1>2, <1>3, <1>4, <1>5

\* A judgement that was paid for is replaced only when what it was made from
\* has changed.
LEMMA JudgmentsStandUntilStale ==
  ASSUME TriageTypeOK, Screen, [TriageNext]_triageVars
  PROVE  \A kind \in {"screening", "investigation"}, c \in Items :
       LET before == answers[kind][c]
           after == answers'[kind][c]
       IN before # after /\ before # Unknown =>
            \/ before.issue # after.issue \/ before.item # after.item
            \/ kind = "investigation" /\ c \in Pulls /\ before.diff # after.diff
<1>1. CASE JudgmentsStand
  BY <1>1 DEF JudgmentsStand
<1>2. CASE ScreeningGrows
  <2>1. PICK batch \in SUBSET Batch, choice \in Replies : answers' = WithAnswers(batch, choice)
    BY <1>2 DEF ScreeningGrows
  <2>2. \A c \in Items : IF c \in batch THEN /\ answers'.screening[c].issue = pass.evidence.issue
                                             /\ answers'.screening[c].item = pass.evidence.items[c]
                         ELSE answers'.screening[c] = answers.screening[c]
    BY <2>1 DEF WithAnswers, TriageTypeOK, Answers
  <2>3. \A c \in batch : Pending(c) /\ c \in Items
    BY <1>2, PassFields DEF Pending, ScreeningGrows, Batch
  <2>4. \A c \in batch : ~Kept(answers.screening[c], c)
    BY <1>2, <2>3 DEF Screen, ScreeningGrows, Unasked
  <2> QED
    BY <1>2, <2>2, <2>4 DEF ScreeningGrows, Kept
<1>3. CASE InvestigationGrows
  <2>1. \A c \in Items \ {Subject} : answers'.investigation[c] = answers.investigation[c]
    BY <1>3 DEF InvestigationGrows, TriageTypeOK, Answers
  <2>2. /\ answers'.investigation[Subject].issue = pass.evidence.issue
        /\ answers'.investigation[Subject].item = pass.evidence.items[Subject]
        /\ answers'.investigation[Subject].diff = Diff(Subject)
    BY <1>3 DEF InvestigationGrows, TriageTypeOK, Answers
  <2>3. ~Investigated(Subject)
    BY <1>3 DEF InvestigationGrows, Asks
  <2> QED
    BY <1>3, <2>1, <2>2, <2>3 DEF InvestigationGrows, Investigated, Kept
<1> QED
  BY <1>1, <1>2, <1>3, JudgmentsStep

-----------------------------------------------------------------------------
\* A pass that is given up leaves nothing to be shown.
LEMMA IdleCompared ==
  ASSUME pass' = Idle
  PROVE  Compared'
<1>1. pass'.pc = "idle" /\ pass'.batches = << >> /\ pass'.found = Nothing /\ pass'.cost = 0
  BY DEF Idle
<1>2. Calm' /\ Screen' /\ Inspect'
  BY <1>1 DEF Calm, Screen, Inspect, Nothing
<1>3. Conclude'
  BY <1>1 DEF Conclude, Deciding
<1> QED
  BY <1>2, <1>3 DEF Compared

\* Steps that leave the pass as it is.
LEMMA SameCompared ==
  ASSUME Compared, UNCHANGED <<pass, answers>>, record'.decision = record.decision
  PROVE  Compared'
<1>1. \A c \in Items : (Pending(c) <=> Pending(c)') /\ (Unasked(c) <=> Unasked(c)')
                       /\ (Weighed(c) <=> Weighed(c)') /\ (Settled(c) <=> Settled(c)')
  BY DEF Pending, Unasked, Weighed, Settled, ScreeningSays, InvestigationSays, Kept
<1>2. (Classified <=> Classified') /\ (Apart <=> Apart') /\ (Oversized <=> Oversized')
        /\ Decision' = Decision /\ (Deciding <=> Deciding') /\ Nothing' = Nothing
  BY DEF Classified, Apart, Oversized, Decision, Deciding, Nothing
<1>3. Calm' /\ Screen' /\ Inspect'
  BY <1>1, <1>2 DEF Compared, Calm, Screen, Inspect
<1>4. Conclude'
  BY <1>1, <1>2 DEF Compared, Conclude, Complete
<1> QED
  BY <1>3, <1>4 DEF Compared

\* The batches, one by one.
LEMMA BatchPlaces ==
  ASSUME TriageTypeOK, pass.batches # << >>
  PROVE  /\ Len(pass.batches) \in Nat \ {0} /\ DOMAIN pass.batches = 1..Len(pass.batches)
         /\ Batch = pass.batches[1]
         /\ DOMAIN Tail(pass.batches) = 1..Len(pass.batches) - 1
         /\ \A i \in 1..Len(pass.batches) - 1 : Tail(pass.batches)[i] = pass.batches[i + 1]
  BY PassFields DEF Batch

\* When the first batch is done with, its items are no longer pending.
LEMMA BatchDone ==
  ASSUME TriageTypeOK, Apart, pass.batches # << >>,
         pass'.batches = Tail(pass.batches), pass'.rest = pass.rest
  PROVE  Apart' /\ \A c \in Items : Pending(c)' <=> Pending(c) /\ c \notin Batch
<1>1. \A i \in DOMAIN pass'.batches : /\ i + 1 \in DOMAIN pass.batches
                                      /\ pass'.batches[i] = pass.batches[i + 1]
                                      /\ i \in Nat /\ i + 1 # 1
  BY BatchPlaces
<1>2. \A i \in DOMAIN pass.batches : i # 1 => /\ i - 1 \in DOMAIN pass'.batches
                                             /\ pass'.batches[i - 1] = pass.batches[i]
  BY BatchPlaces
<1>3. 1 \in DOMAIN pass.batches /\ Batch = pass.batches[1]
  BY BatchPlaces
<1>4. Apart'
  <2>1. \A i, j \in DOMAIN pass'.batches : i # j => i + 1 # j + 1
    BY <1>1
  <2> QED
    BY <1>1, <2>1 DEF Apart
<1>5. ASSUME NEW c \in Items, Pending(c)'
      PROVE  Pending(c) /\ c \notin Batch
  <2>1. CASE c \in pass'.rest
    BY <1>3, <2>1 DEF Pending, Apart
  <2>2. CASE \E i \in DOMAIN pass'.batches : c \in pass'.batches[i]
    <3>1. PICK i \in DOMAIN pass'.batches : c \in pass'.batches[i]
      BY <2>2
    <3>2. i + 1 \in DOMAIN pass.batches /\ c \in pass.batches[i + 1] /\ i + 1 # 1
      BY <1>1, <3>1
    <3> QED
      BY <1>3, <3>2 DEF Pending, Apart
  <2> QED
    BY <1>5, <2>1, <2>2 DEF Pending
<1>6. ASSUME NEW c \in Items, Pending(c), c \notin Batch
      PROVE  Pending(c)'
  BY <1>2, <1>3, <1>6 DEF Pending
<1> QED
  BY <1>4, <1>5, <1>6

\* Putting items into a batch or splitting it loses none of them.
LEMMA BatchTaken ==
  ASSUME TriageTypeOK, pass.batches = << >>, NEW batch \in SUBSET pass.rest,
         pass'.batches = <<batch>>, pass'.rest = pass.rest \ batch
  PROVE  Apart' /\ \A c \in Items : Pending(c)' <=> Pending(c)
<1>1. DOMAIN pass'.batches = {1} /\ pass'.batches[1] = batch /\ DOMAIN pass.batches = {}
  OBVIOUS
<1> QED
  BY <1>1 DEF Apart, Pending

LEMMA BatchSplit ==
  ASSUME TriageTypeOK, Apart, pass.batches # << >>, NEW half \in SUBSET Batch,
         pass'.batches = <<half, Batch \ half>> \o Tail(pass.batches), pass'.rest = pass.rest
  PROVE  Apart' /\ \A c \in Items : Pending(c)' <=> Pending(c)
<1> DEFINE n == Len(pass.batches)
<1>1. n \in Nat \ {0} /\ DOMAIN pass.batches = 1..n /\ Batch = pass.batches[1]
  BY BatchPlaces
<1>2. /\ DOMAIN pass'.batches = 1..n + 1
      /\ pass'.batches[1] = half /\ pass'.batches[2] = Batch \ half
      /\ \A i \in 3..n + 1 : pass'.batches[i] = pass.batches[i - 1]
  <2>1. Tail(pass.batches) \in Seq((SUBSET Items) \ {{}}) /\ Len(Tail(pass.batches)) = n - 1
    BY BatchType, PassFields
  <2>2. \A i \in 1..n - 1 : Tail(pass.batches)[i] = pass.batches[i + 1]
    BY BatchPlaces
  <2> DEFINE t == Tail(pass.batches)
             halves == <<half, Batch \ half>>
  <2>3. halves \in Seq(SUBSET Batch) /\ Len(halves) = 2 /\ halves[1] = half /\ halves[2] = Batch \ half
    OBVIOUS
  <2> HIDE DEF t, halves
  <2>4. t \in Seq(SUBSET Items) /\ Len(t) = n - 1 /\ pass'.batches = halves \o t
    BY <2>1 DEF t, halves
  <2> HIDE DEF n
  <2>5. DOMAIN pass'.batches = 1..n + 1
    BY <1>1, <2>3, <2>4
  <2>6. pass'.batches[1] = half /\ pass'.batches[2] = Batch \ half
    BY <1>1, <2>3, <2>4
  <2>7. \A i \in 3..n + 1 : pass'.batches[i] = t[i - 2]
    BY <1>1, <2>3, <2>4
  <2>8. \A i \in 3..n + 1 : t[i - 2] = pass.batches[i - 1]
    BY <1>1, <2>2 DEF t
  <2> QED
    BY <2>5, <2>6, <2>7, <2>8
<1> HIDE DEF n
<1>3. \A i \in DOMAIN pass'.batches : i = 1 \/ i = 2 \/ (i \in 3..n + 1 /\ i - 1 \in DOMAIN pass.batches /\ i - 1 # 1)
  BY <1>1, <1>2
<1>4. \A i \in DOMAIN pass.batches : i = 1 \/ (i + 1 \in 3..n + 1 /\ i + 1 \in DOMAIN pass'.batches)
  BY <1>1, <1>2
<1>5. \A i \in DOMAIN pass.batches : i # 1 => /\ pass.batches[i] \cap Batch = {}
                                             /\ pass'.batches[i + 1] = pass.batches[i]
  <2> SUFFICES ASSUME NEW i \in DOMAIN pass.batches, i # 1
               PROVE  /\ pass.batches[i] \cap Batch = {}
                      /\ pass'.batches[i + 1] = pass.batches[i]
    OBVIOUS
  <2>1. i \in Nat /\ i + 1 \in 3..n + 1 /\ (i + 1) - 1 = i /\ 1 \in DOMAIN pass.batches
    BY <1>1, <1>4
  <2>2. pass'.batches[i + 1] = pass.batches[i]
    BY <1>2, <2>1
  <2>3. pass.batches[i] \cap Batch = {}
    BY <1>1, <2>1 DEF Apart
  <2> QED
    BY <2>2, <2>3
<1>6. Batch \cap pass.rest = {} /\ 1 \in DOMAIN pass.batches
  BY <1>1 DEF Apart
<1>7. \A i \in 3..n + 1 : /\ pass'.batches[i] \cap Batch = {} /\ pass'.batches[i] \cap pass.rest = {}
                          /\ \A j \in 3..n + 1 : i # j => pass'.batches[i] \cap pass'.batches[j] = {}
  <2>1. \A i \in 3..n + 1 : /\ i - 1 \in DOMAIN pass.batches /\ i - 1 # 1
                            /\ pass'.batches[i] = pass.batches[i - 1]
                            /\ \A j \in 3..n + 1 : i # j => i - 1 # j - 1
    BY <1>1, <1>2
  <2>2. \A i \in DOMAIN pass.batches \ {1} :
          pass.batches[i] \cap Batch = {} /\ pass.batches[i] \cap pass.rest = {}
    BY <1>5 DEF Apart
  <2>3. \A i, j \in DOMAIN pass.batches : i # j => pass.batches[i] \cap pass.batches[j] = {}
    BY DEF Apart
  <2> QED
    BY <2>1, <2>2, <2>3
<1>8. Apart'
  <2>1. ASSUME NEW i \in DOMAIN pass'.batches
        PROVE  pass'.batches[i] \cap pass'.rest = {}
    BY <1>2, <1>3, <1>6, <1>7
  <2>2. ASSUME NEW i \in DOMAIN pass'.batches, NEW j \in DOMAIN pass'.batches, i # j
        PROVE  pass'.batches[i] \cap pass'.batches[j] = {}
    BY <1>2, <1>3, <1>7, <2>2
  <2> QED
    BY <2>1, <2>2 DEF Apart
<1>9. ASSUME NEW c \in Items, Pending(c)' PROVE Pending(c)
  BY <1>2, <1>3, <1>6, <1>1, <1>9 DEF Pending
<1>10. ASSUME NEW c \in Items, Pending(c) PROVE Pending(c)'
  <2>1. CASE c \in Batch
    <3>1. 1 \in DOMAIN pass'.batches /\ 2 \in DOMAIN pass'.batches
      BY <1>1, <1>2
    <3> QED
      BY <1>2, <2>1, <3>1 DEF Pending
  <2>2. CASE c \notin Batch
    BY <1>1, <1>4, <1>5, <1>10, <2>2 DEF Pending
  <2> QED
    BY <2>1, <2>2
<1> QED
  BY <1>8, <1>9, <1>10

\* The steps whose next state is at one place of the pass.
LEMMA AtScreen ==
  ASSUME pass'.pc = "screen", Classified', Apart',
         \A c \in Items : Pending(c)' => Unasked(c)',
         \A c \in Items : Pending(c)' \/ Weighed(c)'
  PROVE  Compared'
  BY DEF Compared, Calm, Screen, Inspect, Conclude, Deciding

LEMMA AtInvestigate ==
  ASSUME pass'.pc = "investigate", Classified', \A c \in Items : c \notin pass'.rest => Settled(c)'
  PROVE  Compared'
  BY DEF Compared, Calm, Screen, Inspect, Conclude, Deciding

LEMMA ComparedBegin ==
  ASSUME TriageTypeOK, Compared, Inventory \/ ReadIssue \/ Classify
  PROVE  Compared'
<1> USE UnknownIsNoValue
<1>1. CASE Inventory
  <2>1. pass'.pc = "read" /\ pass'.batches = pass.batches /\ pass'.found = pass.found /\ pass'.cost = pass.cost
    BY <1>1 DEF Inventory, TriageTypeOK, Passes
  <2> QED
    BY <1>1, <2>1 DEF Inventory, Compared, Calm, Screen, Inspect, Conclude, Deciding, Nothing
<1>2. CASE ReadIssue
  <2>1. CASE pass' = Idle
    BY <2>1, IdleCompared
  <2>2. CASE pass' # Idle
    <3>1. pass'.pc = "classify" /\ pass'.batches = pass.batches /\ pass'.found = pass.found /\ pass'.cost = pass.cost
      BY <1>2, <2>2 DEF ReadIssue, TriageTypeOK, Passes
    <3> QED
      BY <1>2, <3>1 DEF ReadIssue, Compared, Calm, Screen, Inspect, Conclude, Deciding, Nothing
  <2> QED
    BY <2>1, <2>2
<1>3. CASE Classify
  <2>1. pass.batches = << >> /\ pass.found = Nothing
    BY <1>3 DEF Classify, Compared, Calm
  <2>2. CASE pass' = [pass EXCEPT !.pc = "decide", !.class = "oversized"]
    <3>1. pass'.pc = "decide" /\ pass'.class = "oversized" /\ pass'.found = Nothing
      BY <2>1, <2>2 DEF TriageTypeOK, Passes
    <3> QED
      BY <3>1 DEF Compared, Calm, Screen, Inspect, Conclude, Deciding, Oversized, Nothing
  <2>3. ASSUME NEW class \in Classes, NEW cost, pass' = Screening(class, cost),
               answers'.class = [issue |-> pass.evidence.issue, choice |-> class],
               answers'.screening = answers.screening
        PROVE  Compared'
    <3> DEFINE known == [c \in Items |->
                  IF size[c] = "huge" THEN "uncertain"
                  ELSE IF Kept(answers.screening[c], c) THEN answers.screening[c].choice
                  ELSE Unknown]
    <3>1. /\ pass'.pc = "screen" /\ pass'.class = class /\ pass'.evidence = pass.evidence
          /\ pass'.found = known /\ pass'.rest = {c \in Items : known[c] = Unknown}
          /\ pass'.batches = << >>
      BY <2>1, <2>3 DEF Screening, TriageTypeOK, Passes
    <3>2. \A c \in Items : (Kept(answers.screening[c], c) <=> Kept(answers.screening[c], c)')
      BY <2>3, <3>1 DEF Kept
    <3>3. \A c \in Items : Kept(answers.screening[c], c) => answers.screening[c].choice # Unknown
      BY DEF Kept, TriageTypeOK, Answers, Screenings
    <3>4. DOMAIN pass'.batches = {}
      BY <3>1
    <3>5. Classified' /\ Apart'
      BY <2>3, <3>1, <3>4 DEF Classified, Apart
    <3>6. \A c \in Items : Pending(c)' => Unasked(c)'
      <4> SUFFICES ASSUME NEW c \in Items, Pending(c)' PROVE Unasked(c)'
        OBVIOUS
      <4>1. known[c] = Unknown
        BY <3>1, <3>4 DEF Pending
      <4>2. ~Kept(answers.screening[c], c)
        BY <3>3, <4>1 DEF Outcomes
      <4> QED
        BY <3>1, <3>2, <4>1, <4>2 DEF Unasked
    <3>7. \A c \in Items : Pending(c)' \/ Weighed(c)'
      BY <2>3, <3>1, <3>2 DEF Pending, Weighed, ScreeningSays
    <3> QED
      BY <3>1, <3>5, <3>6, <3>7, AtScreen
  <2>4. CASE ClassKnown /\ pass' = Screening(answers.class.choice, 0) /\ UNCHANGED answers
    <3>1. answers.class = [issue |-> pass.evidence.issue, choice |-> answers.class.choice]
            /\ answers.class.choice \in Classes
      BY <2>4 DEF ClassKnown, TriageTypeOK, Answers, Classifications
    <3> QED
      BY <2>3, <2>4, <3>1
  <2>5. CASE \E class \in Classes, cost \in Spent(1) :
                /\ answers' = [answers EXCEPT !.class = [issue |-> pass.evidence.issue,
                                                         choice |-> class]]
                /\ pass' = Screening(class, cost)
    <3>1. PICK class \in Classes, cost \in Spent(1) :
                /\ answers' = [answers EXCEPT !.class = [issue |-> pass.evidence.issue,
                                                         choice |-> class]]
                /\ pass' = Screening(class, cost)
      BY <2>5
    <3>2. answers'.class = [issue |-> pass.evidence.issue, choice |-> class]
            /\ answers'.screening = answers.screening
      BY <3>1 DEF TriageTypeOK, Answers
    <3> QED
      BY <2>3, <3>1, <3>2
  <2> QED
    BY <1>3, <2>2, <2>4, <2>5 DEF Classify
<1> QED
  BY <1>1, <1>2, <1>3

LEMMA ComparedScreen ==
  ASSUME TriageTypeOK, Compared,
         TakeBatch \/ Split \/ Unaffordable \/ RejectedAlone \/ Screened
  PROVE  Compared'
<1>1. Classified /\ Apart /\ pass.pc = "screen"
  BY DEF Compared, Screen, TakeBatch, Split, Unaffordable, Alone, RejectedAlone, Screened, Answerable, Screens
<1>2. \A c \in Items : (Pending(c) => Unasked(c)) /\ (Pending(c) \/ Weighed(c))
  BY <1>1 DEF Compared, Screen
<1>3. ASSUME UNCHANGED answers, pass'.pc = pass.pc, pass'.class = pass.class,
             pass'.evidence = pass.evidence, pass'.found = pass.found, Apart',
             \A c \in Items : Pending(c)' <=> Pending(c)
      PROVE  Compared'
  <2>1. Classified'
    BY <1>1, <1>3 DEF Classified
  <2>2. \A c \in Items : (Unasked(c) <=> Unasked(c)') /\ (Weighed(c) <=> Weighed(c)')
    BY <1>3 DEF Unasked, Weighed, ScreeningSays, Kept
  <2> QED
    BY <1>1, <1>2, <1>3, <2>1, <2>2, AtScreen
<1>4. CASE TakeBatch
  <2>1. PICK batch \in Firsts(pass.rest) \ {{}} :
          pass' = [pass EXCEPT !.batches = <<batch>>, !.rest = @ \ batch]
    BY <1>4 DEF TakeBatch
  <2>2. /\ pass'.batches = <<batch>> /\ pass'.rest = pass.rest \ batch /\ pass'.pc = pass.pc
        /\ pass'.class = pass.class /\ pass'.evidence = pass.evidence /\ pass'.found = pass.found
    BY <2>1 DEF TriageTypeOK, Passes
  <2>3. Apart' /\ \A c \in Items : Pending(c)' <=> Pending(c)
    BY <1>4, <2>2, BatchTaken DEF TakeBatch, Firsts
  <2> QED
    BY <1>3, <1>4, <2>2, <2>3 DEF TakeBatch
<1>5. CASE Split
  <2>1. PICK half \in Firsts(Batch) \ {{}, Batch} :
          pass' = [pass EXCEPT !.batches = <<half, Batch \ half>> \o Tail(@)]
    BY <1>5 DEF Split
  <2>2. /\ pass'.batches = <<half, Batch \ half>> \o Tail(pass.batches) /\ pass'.rest = pass.rest
        /\ pass'.pc = pass.pc
        /\ pass'.class = pass.class /\ pass'.evidence = pass.evidence /\ pass'.found = pass.found
    BY <2>1 DEF TriageTypeOK, Passes
  <2>3. Apart' /\ \A c \in Items : Pending(c)' <=> Pending(c)
    BY <1>1, <1>5, <2>2, BatchSplit DEF Split, Screens, Firsts
  <2> QED
    BY <1>3, <1>5, <2>2, <2>3 DEF Split
<1>6. CASE Unaffordable
  BY <1>6, IdleCompared DEF Unaffordable, OutOfBudget
<1>7. CASE RejectedAlone
  <2>1. PICK d \in Items :
          Alone(d) /\ pass' = [pass EXCEPT !.found[d] = "uncertain", !.batches = Tail(@)]
    BY <1>7 DEF RejectedAlone
  <2>2. /\ pass'.batches = Tail(pass.batches) /\ pass'.rest = pass.rest /\ pass'.pc = pass.pc
        /\ pass'.class = pass.class /\ pass'.evidence = pass.evidence
        /\ pass'.found = [pass.found EXCEPT ![d] = "uncertain"]
    BY <2>1 DEF TriageTypeOK, Passes
  <2>3. Apart' /\ \A c \in Items : Pending(c)' <=> Pending(c) /\ c # d
    BY <1>1, <2>1, <2>2, BatchDone DEF Alone, Screens
  <2>4. Classified'
    BY <1>1, <1>7, <2>2 DEF Classified, RejectedAlone
  <2>5. pass'.found[d] = "uncertain" /\ \A c \in Items \ {d} : pass'.found[c] = pass.found[c]
    BY <2>2, PassFields
  <2>6. \A c \in Items \ {d} : (Unasked(c) <=> Unasked(c)') /\ (Weighed(c) <=> Weighed(c)')
    BY <1>7, <2>2, <2>5 DEF RejectedAlone, Unasked, Weighed, ScreeningSays, Kept
  <2>7. Weighed(d)'
    BY <2>5 DEF Weighed
  <2> QED
    BY <1>1, <1>2, <2>2, <2>3, <2>4, <2>6, <2>7, AtScreen
<1>8. CASE Screened
  <2>1. PICK choice \in Replies, cost \in Spent(Cardinality(Batch)) :
       \/ /\ answers' = WithAnswers(Batch, choice)
          /\ pass' = WithFound(choice, cost)
       \/ pass' = Idle
    BY <1>8 DEF Screened
  <2>2. CASE pass' = Idle
    BY <2>2, IdleCompared
  <2>3. CASE answers' = WithAnswers(Batch, choice) /\ pass' = WithFound(choice, cost)
    <3>1. /\ pass'.batches = Tail(pass.batches) /\ pass'.rest = pass.rest /\ pass'.pc = pass.pc
          /\ pass'.class = pass.class /\ pass'.evidence = pass.evidence
          /\ pass'.found = [c \in Items |-> IF c \in Batch THEN choice[c] ELSE pass.found[c]]
      BY <2>3 DEF WithFound, TriageTypeOK, Passes
    <3>2. Apart' /\ \A c \in Items : Pending(c)' <=> Pending(c) /\ c \notin Batch
      BY <1>1, <1>8, <3>1, BatchDone DEF Screened, Answerable, Screens
    <3>3. /\ answers'.class = answers.class
          /\ answers'.screening = [c \in Items |->
               IF c \in Batch THEN [issue |-> pass.evidence.issue, item |-> pass.evidence.items[c],
                                    choice |-> choice[c]]
               ELSE answers.screening[c]]
      BY <2>3 DEF WithAnswers, TriageTypeOK, Answers
    <3>4. Classified'
      BY <1>1, <3>1, <3>3 DEF Classified
    <3>5. \A c \in Items : c \notin Batch => (Unasked(c) <=> Unasked(c)') /\ (Weighed(c) <=> Weighed(c)')
      BY <3>1, <3>3 DEF Unasked, Weighed, ScreeningSays, Kept
    <3>6. answers'.screening \in [Items -> Screenings \cup {Unknown}]
      BY <1>8, TypeScreen DEF TriageTypeOK, Answers
    <3>7. \A c \in Items : c \in Batch => Weighed(c)'
      <4> SUFFICES ASSUME NEW c \in Items, c \in Batch PROVE ScreeningSays(c)'
        BY DEF Weighed
      <4>1. answers'.screening[c] = [issue |-> pass.evidence.issue, item |-> pass.evidence.items[c],
                                     choice |-> choice[c]]
        BY <3>3
      <4>2. answers'.screening[c] # Unknown
        <5>1. pass.evidence \in Evidence /\ choice[c] \in Outcomes \cup {"relevant"}
          BY PassFields DEF Replies
        <5>2. answers'.screening[c] \in Screenings
          BY <4>1, <5>1 DEF Screenings, Evidence
        <5> QED
          BY <5>2, UnknownIsNoValue
      <4> QED
        BY <3>1, <4>1, <4>2 DEF ScreeningSays, Kept
    <3> QED
      BY <1>1, <1>2, <3>1, <3>2, <3>4, <3>5, <3>7, AtScreen
  <2> QED
    BY <2>1, <2>2, <2>3
<1> QED
  BY <1>4, <1>5, <1>6, <1>7, <1>8

LEMMA ComparedInvestigate ==
  ASSUME TriageTypeOK, Compared,
         StartInvestigating \/ Recall \/ NotInvestigated \/ Investigate
  PROVE  Compared'
<1>1. CASE StartInvestigating
  <2>1. pass.pc = "screen" /\ DOMAIN pass.batches = {} /\ pass.rest = {} /\ UNCHANGED answers
    BY <1>1 DEF StartInvestigating
  <2>2. /\ pass'.pc = "investigate" /\ pass'.class = pass.class /\ pass'.evidence = pass.evidence
        /\ pass'.found = pass.found /\ pass'.rest = {c \in Items : NeedsInvestigation(c)}
    BY <1>1 DEF StartInvestigating, TriageTypeOK, Passes
  <2>3. \A c \in Items : ~Pending(c)
    BY <2>1 DEF Pending
  <2>4. Classified' /\ \A c \in Items : Weighed(c)
    BY <2>1, <2>2, <2>3 DEF Compared, Screen, Classified
  <2>5. \A c \in Items : ScreeningSays(c) <=> ScreeningSays(c)'
    BY <2>1, <2>2 DEF ScreeningSays, Kept
  <2>6. ASSUME NEW c \in Items, c \notin pass'.rest PROVE Settled(c)'
    <3>1. ~NeedsInvestigation(c)
      BY <2>2, <2>6
    <3> QED
      BY <2>2, <2>4, <2>5, <3>1 DEF NeedsInvestigation, Weighed, Settled
  <2> QED
    BY <2>2, <2>4, <2>6, AtInvestigate
<1>2. ASSUME Investigates, NEW outcome, NEW cost, NEW more, Resolved(outcome, cost, more),
             answers'.class = answers.class, answers'.screening = answers.screening,
             \A c \in Items \ {Subject} : answers'.investigation[c] = answers.investigation[c],
             \/ outcome = "uncertain"
             \/ /\ answers'.investigation[Subject].choice = outcome
                /\ answers'.investigation[Subject] # Unknown
                /\ answers'.investigation[Subject].issue = pass.evidence.issue
                /\ answers'.investigation[Subject].item = pass.evidence.items[Subject]
      PROVE  Compared'
  <2>1. Subject \in Items /\ pass.pc = "investigate"
    BY <1>2, SubjectIsLeft DEF Investigates
  <2>2. /\ pass'.pc = pass.pc /\ pass'.class = pass.class /\ pass'.evidence = pass.evidence
        /\ pass'.found = [pass.found EXCEPT ![Subject] = outcome] /\ pass'.rest = pass.rest \ {Subject}
    BY <1>2 DEF Resolved, TriageTypeOK, Passes
  <2>3. pass'.found[Subject] = outcome /\ \A c \in Items \ {Subject} : pass'.found[c] = pass.found[c]
    BY <2>1, <2>2, PassFields
  <2>4. Classified'
    BY <1>2, <2>1, <2>2 DEF Compared, Inspect, Classified
  <2>5. \A c \in Items \ {Subject} : Settled(c) => Settled(c)'
    BY <1>2, <2>2, <2>3 DEF Settled, ScreeningSays, InvestigationSays, Kept
  <2>6. PICK s \in Items : s = Subject
    BY <2>1
  <2>7. Settled(s)'
    BY <1>2, <2>2, <2>3, <2>6 DEF Settled, InvestigationSays, Kept
  <2>8. ASSUME NEW c \in Items, c \notin pass'.rest PROVE Settled(c)'
    <3>1. CASE c = Subject
      BY <2>6, <2>7, <3>1
    <3>2. CASE c # Subject
      BY <2>1, <2>2, <2>5, <2>8, <3>2 DEF Compared, Inspect
    <3> QED
      BY <3>1, <3>2
  <2> QED
    BY <2>1, <2>2, <2>4, <2>8, AtInvestigate
<1>3. CASE Recall
  <2>1. Subject \in Items /\ Investigates
    BY <1>3, SubjectIsLeft DEF Recall, Investigates
  <2>2. Kept(answers.investigation[Subject], Subject) /\ UNCHANGED answers
    BY <1>3 DEF Recall, Investigated
  <2> QED
    BY <1>2, <1>3, <2>1, <2>2 DEF Recall, Kept
<1>4. CASE NotInvestigated
  BY <1>2, <1>4 DEF NotInvestigated
<1>5. CASE Investigate
  <2>1. PICK outcome \in Outcomes, cost \in Spent(1) :
       /\ answers' = [answers EXCEPT !.investigation[Subject] =
            [issue |-> pass.evidence.issue, item |-> pass.evidence.items[Subject],
             diff |-> Diff(Subject), choice |-> outcome]]
       /\ Resolved(outcome, cost, 1)
    BY <1>5 DEF Investigate
  <2>2. Subject \in Items /\ Investigates
    BY <1>5, SubjectIsLeft DEF Investigate, Asks, Investigates
  <2> DEFINE judgement == [issue |-> pass.evidence.issue, item |-> pass.evidence.items[Subject],
                           diff |-> Diff(Subject), choice |-> outcome]
  <2>3. judgement \in Investigations
    BY <2>2, PassFields DEF Investigations, Evidence, Diff, TriageTypeOK, Worlds
  <2>4. judgement # Unknown /\ judgement.choice = outcome /\ judgement.issue = pass.evidence.issue
          /\ judgement.item = pass.evidence.items[Subject]
    BY <2>3, UnknownIsNoValue
  <2> HIDE DEF judgement
  <2>5. answers' = [answers EXCEPT !.investigation[Subject] = judgement]
    BY <2>1 DEF judgement
  <2>6. /\ answers'.class = answers.class /\ answers'.screening = answers.screening
        /\ answers'.investigation[Subject] = judgement
        /\ \A c \in Items \ {Subject} : answers'.investigation[c] = answers.investigation[c]
    BY <2>2, <2>5 DEF TriageTypeOK, Answers
  <2> QED
    BY <1>2, <2>1, <2>2, <2>4, <2>6
<1> QED
  BY <1>1, <1>3, <1>4, <1>5

LEMMA ComparedConclude ==
  ASSUME TriageTypeOK, Compared, Decide \/ CheckIssue \/ StartMarking \/ EndMarking \/ Commit
  PROVE  Compared'
<1>1. CASE StartMarking
  BY <1>1, SameCompared DEF StartMarking
<1>2. CASE pass' = Idle
  BY <1>2, IdleCompared
<1>3. CASE Decide \/ (CheckIssue /\ pass' # Idle) \/ EndMarking
  <2>1. PICK pc \in {"check", "mark", "commit"} : Proceed(pc)
    BY <1>3 DEF Decide, CheckIssue, EndMarking
  <2>2. /\ pass'.pc = pc /\ pass'.class = pass.class /\ pass'.evidence = pass.evidence
        /\ pass'.found = pass.found /\ UNCHANGED answers
    BY <1>3, <2>1 DEF Proceed, TriageTypeOK, Passes, Decide, CheckIssue, EndMarking
  <2>3. \A c \in Items : Settled(c) => Settled(c)'
    BY <2>2 DEF Settled, ScreeningSays, InvestigationSays, Kept
  <2>4. (Oversized => Oversized') /\ (Classified => Classified') /\ Decision' = Decision
    BY <2>2 DEF Oversized, Classified, Decision, Nothing
  <2>5. Complete /\ record'.decision = Decision
    <3>1. CASE Decide
      BY <3>1 DEF Decide, Compared, Inspect, Conclude, Complete, TriageTypeOK, Records
    <3>2. CASE CheckIssue \/ EndMarking
      BY <3>2 DEF CheckIssue, EndMarking, Compared, Conclude, Deciding
    <3> QED
      BY <1>3, <3>1, <3>2
  <2>6. Complete'
    BY <2>3, <2>4, <2>5 DEF Complete
  <2> QED
    BY <2>2, <2>4, <2>5, <2>6 DEF Compared, Calm, Screen, Inspect, Conclude
<1> QED
  BY <1>1, <1>2, <1>3 DEF Commit

LEMMA ComparedStep ==
  ASSUME TriageTypeOK, Compared, [TriageNext]_triageVars
  PROVE  Compared'
<1>1. CASE Pass
  BY <1>1, ComparedBegin, ComparedScreen, ComparedInvestigate, ComparedConclude DEF Pass
<1>2. CASE Fails
  BY <1>2, IdleCompared DEF Fails, ClassifyFails, ScreenFails, InvestigationFails, RequestFails, Interrupted
<1>3. CASE PauseEnds \/ EditIssue \/ \E c \in Items : EditItem(c)
  BY <1>3, SameCompared DEF PauseEnds, EditIssue, EditItem
<1>4. CASE DelayEnds
  <2>1. record'.decision = record.decision
    BY <1>4 DEF DelayEnds, TriageTypeOK, Records
  <2> QED
    BY <1>4, <2>1, SameCompared DEF DelayEnds
<1>5. CASE UNCHANGED triageVars
  BY <1>5, SameCompared DEF triageVars
<1> QED
  BY <1>1, <1>2, <1>3, <1>4, <1>5 DEF TriageNext

LEMMA TypeStepTriage ==
  ASSUME TriageTypeOK, Counted, Honest, Compared, [TriageNext]_triageVars
  PROVE  TriageTypeOK' /\ Counted'
<1>1. CASE Pass
  <2>1. TriageTypeOK'
    BY <1>1, TypeBegin, TypeScreen, TypeInvestigate, TypeConclude DEF Pass, Compared
  <2>2. world' = world /\ used'.edits = used.edits
    BY <1>1 DEF Pass, Inventory, ReadIssue, Classify, TakeBatch, Split, Unaffordable, OutOfBudget,
       RejectedAlone, Screened, Fault, StartInvestigating, Recall, NotInvestigated, Investigate,
       Decide, CheckIssue, StartMarking, EndMarking, Commit, TriageTypeOK
  <2> QED
    BY <2>1, <2>2 DEF Counted
<1>2. CASE UNCHANGED triageVars
  BY <1>2 DEF triageVars, TriageTypeOK, Counted
<1> QED
  BY <1>1, <1>2, TypeAround DEF TriageNext

-----------------------------------------------------------------------------
\* Versions only grow from one list to another.
LEMMA NumbersOf ==
  ASSUME TriageTypeOK
  PROVE  /\ world.issue \in Nat /\ pass.evidence.issue \in Nat
         /\ world.items \in [Items -> Nat] /\ pass.evidence.items \in [Items -> Nat]
         /\ record.fingerprint # Unknown =>
              /\ record.fingerprint.issue \in Nat /\ record.fingerprint.items \in [Items -> Nat]
              /\ record.fingerprint
                   = [issue |-> record.fingerprint.issue, items |-> record.fingerprint.items]
         /\ pass.evidence = [issue |-> pass.evidence.issue, items |-> pass.evidence.items]
         /\ [issue |-> world.issue, items |-> world.items] # Unknown
<1>1. pass.evidence \in Evidence /\ record.fingerprint \in Evidence \cup {Unknown} /\ world \in Worlds
  BY PassFields, RecordStays DEF TriageTypeOK
<1>2. [issue |-> world.issue, items |-> world.items] \in Evidence
  BY <1>1 DEF Worlds, Evidence
<1> QED
  BY <1>1, <1>2, UnknownIsNoValue DEF Evidence, Worlds, Versions

\* The pass under way stands between what is handled and what there is now.
LEMMA NotHandledYet ==
  ASSUME TriageTypeOK, Handled, pass.pc \notin {"idle", "read"}
  PROVE  record.fingerprint # [issue |-> world.issue, items |-> world.items]
<1> SUFFICES ASSUME record.fingerprint = [issue |-> world.issue, items |-> world.items]
             PROVE  FALSE
  OBVIOUS
<1>1. record.fingerprint # Unknown
  BY NumbersOf
<1>2. pass.evidence.issue = world.issue
  BY <1>1, NumbersOf DEF Handled, ReadIsPast
<1>3. \A c \in Items : record.fingerprint.items[c] <= pass.evidence.items[c]
                       /\ pass.evidence.items[c] <= record.fingerprint.items[c]
  BY <1>1 DEF Handled, ListIsPast, Earlier
<1>4. \A c \in Items : pass.evidence.items[c] = record.fingerprint.items[c]
  BY <1>1, <1>3, NumbersOf
<1>5. pass.evidence.items = record.fingerprint.items
  BY <1>1, <1>4, NumbersOf
<1> QED
  BY <1>1, <1>2, <1>5, NumbersOf DEF Handled, ReadIsPast

LEMMA SameMarks ==
  ASSUME record'.decision = record.decision
  PROVE  Marks(record.decision)' = Marks(record.decision)
  BY DEF Marks, RouteOf, Matches, Related

\* Giving up a pass, or going on with it, changes nothing that is handled.
LEMMA HandledIdle ==
  ASSUME Handled, pass' = Idle, UNCHANGED <<world, marked>>,
         record'.fingerprint = record.fingerprint, record'.decision = record.decision
  PROVE  Handled'
<1>1. pass'.pc = "idle"
  BY DEF Idle
<1>2. HandledIsPast'
  BY DEF Handled, HandledIsPast, Earlier
<1>3. CommittedIsMarked'
  BY SameMarks DEF Handled, CommittedIsMarked
<1> QED
  BY <1>1, <1>2, <1>3 DEF Handled, ListIsPast, ReadIsPast, DoneIsMarked

LEMMA HandledOn ==
  ASSUME Handled, pass'.evidence = pass.evidence, UNCHANGED <<world, marked>>,
         \/ pass'.pc = pass.pc
         \/ pass.pc \notin {"idle", "read"} /\ pass'.pc \notin {"idle", "read", "commit"},
         record'.fingerprint = record.fingerprint, record'.decision = record.decision
  PROVE  Handled'
<1>1. HandledIsPast'
  BY DEF Handled, HandledIsPast, Earlier
<1>2. ListIsPast' /\ ReadIsPast'
  BY DEF Handled, ListIsPast, ReadIsPast, Earlier
<1>3. CommittedIsMarked' /\ DoneIsMarked'
  BY SameMarks DEF Handled, CommittedIsMarked, DoneIsMarked
<1> QED
  BY <1>1, <1>2, <1>3 DEF Handled

LEMMA HandledBegin ==
  ASSUME TriageTypeOK, Handled, Inventory \/ ReadIssue
  PROVE  Handled'
<1>1. CASE pass' = Idle
  BY <1>1, HandledIdle DEF Inventory, ReadIssue
<1>2. CASE pass' # Idle
  <2>0. UNCHANGED <<world, record, marked>>
    BY DEF Inventory, ReadIssue
  <2>1. HandledIsPast' /\ CommittedIsMarked'
    <3>1. HandledIsPast'
      BY <2>0 DEF Handled, HandledIsPast, Earlier
    <3> QED
      BY <2>0, <3>1, SameMarks DEF Handled, CommittedIsMarked
  <2>2. CASE Inventory
    <3>1. pass'.pc = "read" /\ pass'.evidence.items = world.items
      BY <2>2 DEF Inventory, TriageTypeOK, Passes, Evidence
    <3>2. ListIsPast'
      BY <2>2, <3>1, NumbersOf DEF Inventory, Handled, HandledIsPast, ListIsPast, Earlier
    <3> QED
      BY <2>1, <3>1, <3>2 DEF Handled, ReadIsPast, DoneIsMarked
  <2>3. CASE ReadIssue
    <3>1. /\ pass'.pc = "classify" /\ pass'.evidence = [pass.evidence EXCEPT !.issue = world.issue]
          /\ record.fingerprint # pass'.evidence
      BY <1>2, <2>3 DEF ReadIssue, TriageTypeOK, Passes
    <3>2. pass'.evidence.issue = world.issue /\ pass'.evidence.items = pass.evidence.items
      BY <3>1, PassFields DEF Evidence
    <3>3. ListIsPast'
      BY <2>3, <3>2 DEF ReadIssue, Handled, ListIsPast, Earlier
    <3>4. ReadIsPast'
      BY <2>3, <3>1, <3>2, NumbersOf DEF ReadIssue, Handled, HandledIsPast, ReadIsPast
    <3> QED
      BY <2>1, <3>1, <3>3, <3>4 DEF Handled, DoneIsMarked
  <2> QED
    BY <2>2, <2>3
<1> QED
  BY <1>1, <1>2

LEMMA HandledConclude ==
  ASSUME TriageTypeOK, Handled, Decide \/ CheckIssue \/ StartMarking \/ EndMarking \/ Commit
  PROVE  Handled'
<1>1. CASE CheckIssue
  <2>1. CASE pass' = Idle
    BY <1>1, <2>1, HandledIdle DEF CheckIssue
  <2>2. CASE Proceed("mark")
    <3>1. pass'.pc = "mark" /\ pass'.evidence = pass.evidence
      BY <2>2 DEF Proceed, TriageTypeOK, Passes
    <3> QED
      BY <1>1, <3>1, HandledOn DEF CheckIssue
  <2> QED
    BY <1>1, <2>1, <2>2 DEF CheckIssue
<1>2. CASE Decide \/ StartMarking \/ EndMarking
  <2>1. record.fingerprint # [issue |-> world.issue, items |-> world.items]
    BY <1>2, NotHandledYet DEF Decide, StartMarking, EndMarking
  <2>2. /\ pass'.evidence = pass.evidence /\ pass'.pc \notin {"idle", "read"}
        /\ pass.pc \notin {"idle", "read"}
        /\ record'.fingerprint = record.fingerprint /\ world' = world
    BY <1>2 DEF Decide, StartMarking, EndMarking, Proceed, TriageTypeOK, Passes, Records
  <2>3. CommittedIsMarked'
    BY <2>1, <2>2 DEF CommittedIsMarked
  <2>4. HandledIsPast' /\ ListIsPast' /\ ReadIsPast'
    BY <2>2 DEF Handled, HandledIsPast, ListIsPast, ReadIsPast, Earlier
  <2>5. DoneIsMarked'
    <3>1. CASE Decide \/ StartMarking
      BY <3>1 DEF DoneIsMarked, Decide, StartMarking, Proceed, TriageTypeOK, Passes
    <3>2. CASE EndMarking
      BY <3>2, SameMarks DEF DoneIsMarked, EndMarking
    <3> QED
      BY <1>2, <3>1, <3>2
  <2> QED
    BY <2>3, <2>4, <2>5 DEF Handled
<1>3. CASE Commit
  <2>1. /\ pass'.pc = "idle" /\ record'.fingerprint = pass.evidence
        /\ record'.decision = record.decision /\ UNCHANGED <<world, marked>>
    BY <1>3 DEF Commit, Idle, TriageTypeOK, Records
  <2>2. HandledIsPast'
    BY <1>3, <2>1 DEF Commit, Handled, HandledIsPast, ListIsPast, ReadIsPast, Earlier
  <2>3. CommittedIsMarked'
    <3>1. marked = Marks(record.decision)
      BY <1>3 DEF Commit, Handled, DoneIsMarked
    <3> QED
      BY <2>1, <3>1, SameMarks DEF CommittedIsMarked
  <2> QED
    BY <2>1, <2>2, <2>3 DEF Handled, ListIsPast, ReadIsPast, DoneIsMarked
<1> QED
  BY <1>1, <1>2, <1>3

\* An edit makes evidence that nobody has handled.
LEMMA HandledEdit ==
  ASSUME TriageTypeOK, Counted, Handled, EditIssue \/ \E c \in Items : EditItem(c)
  PROVE  Handled'
<1>1. UNCHANGED <<record, marked, pass>>
  BY DEF EditIssue, EditItem
<1>2. /\ world.issue <= world'.issue /\ world'.issue \in Nat
      /\ \A c \in Items : world.items[c] <= world'.items[c] /\ world'.items[c] \in Nat
      /\ \/ world.issue < world'.issue \/ \E c \in Items : world.items[c] < world'.items[c]
         \/ world'.issue = world.issue /\ world'.items = world.items
  <2>1. CASE EditIssue
    BY <2>1, NumbersOf DEF EditIssue, TriageTypeOK, Worlds
  <2>2. CASE \E c \in Items : EditItem(c)
    <3>1. PICK c \in Items : EditItem(c)
      BY <2>2
    <3>2. world'.issue = world.issue /\ world'.items = [world.items EXCEPT ![c] = @ + 1]
      BY <3>1 DEF EditItem, TriageTypeOK, Worlds
    <3> QED
      BY <3>2, NumbersOf
  <2> QED
    BY <2>1, <2>2
<1>3. HandledIsPast' /\ ListIsPast' /\ ReadIsPast'
  BY <1>1, <1>2, NumbersOf DEF Handled, HandledIsPast, ListIsPast, ReadIsPast, Earlier
<1>4. DoneIsMarked'
  BY <1>1, SameMarks DEF Handled, DoneIsMarked
<1>5. CommittedIsMarked'
  <2> SUFFICES ASSUME record.fingerprint = [issue |-> world'.issue, items |-> world'.items]
               PROVE  marked = Marks(record.decision)
    BY <1>1, SameMarks DEF CommittedIsMarked
  <2>1. CASE record.fingerprint = Unknown
    <3>1. [issue |-> world'.issue, items |-> world'.items] \in Evidence
      BY TypeAround DEF TriageTypeOK, Worlds, Evidence
    <3> QED
      BY <2>1, <3>1, UnknownIsNoValue
  <2>2. CASE record.fingerprint # Unknown
    <3>1. record.fingerprint.issue = world'.issue /\ record.fingerprint.items = world'.items
      OBVIOUS
    <3>2. world'.issue = world.issue /\ world'.items = world.items
      BY <1>2, <2>2, <3>1, NumbersOf DEF Handled, HandledIsPast, Earlier
    <3> QED
      BY <3>2 DEF Handled, CommittedIsMarked
  <2> QED
    BY <2>1, <2>2
<1> QED
  BY <1>3, <1>4, <1>5 DEF Handled

LEMMA HandledStep ==
  ASSUME TriageTypeOK, Counted, Handled, [TriageNext]_triageVars
  PROVE  Handled'
<1>1. CASE Classify \/ TakeBatch \/ Split \/ RejectedAlone \/ Screened \/ StartInvestigating
           \/ Recall \/ NotInvestigated \/ Investigate
  <2>1. UNCHANGED <<world, marked, record>> /\ pass.pc \notin {"idle", "read"}
    BY <1>1 DEF Classify, TakeBatch, Split, RejectedAlone, Screened, StartInvestigating, Recall,
       NotInvestigated, Investigate, Screens, Alone, Answerable, Investigates, Asks
  <2>2. pass' = Idle \/ (pass'.evidence = pass.evidence /\ pass'.pc \notin {"idle", "read", "commit"})
    BY <1>1 DEF Classify, Screening, TakeBatch, Split, RejectedAlone, Screened, WithFound,
       StartInvestigating, Recall, NotInvestigated, Investigate, Resolved, Screens, Alone,
       Answerable, Investigates, Asks, TriageTypeOK, Passes
  <2> QED
    BY <2>1, <2>2, HandledIdle, HandledOn
<1>2. CASE Unaffordable \/ Fails
  <2>1. /\ pass' = Idle /\ UNCHANGED <<world, marked>>
        /\ record'.fingerprint = record.fingerprint /\ record'.decision = record.decision
    BY <1>2 DEF Unaffordable, OutOfBudget, Fails, ClassifyFails, ScreenFails, InvestigationFails,
       RequestFails, Interrupted, TriageTypeOK, Records
  <2> QED
    BY <2>1, HandledIdle
<1>3. CASE PauseEnds \/ DelayEnds \/ UNCHANGED triageVars
  <2>1. /\ UNCHANGED <<pass, world, marked>>
        /\ record'.fingerprint = record.fingerprint /\ record'.decision = record.decision
    BY <1>3 DEF PauseEnds, DelayEnds, triageVars, TriageTypeOK, Records
  <2> QED
    BY <2>1, HandledOn
<1> QED
  BY <1>1, <1>2, <1>3, HandledBegin, HandledConclude, HandledEdit DEF TriageNext, Pass

-----------------------------------------------------------------------------
LEMMA TriageStep ==
  ASSUME TriageInv, [TriageNext]_triageVars
  PROVE  TriageInv'
  BY TypeStepTriage, HonestStep, ComparedStep, HandledStep DEF TriageInv

(***************************************************************************)
(* The theorems.                                                           *)
(***************************************************************************)
(* Triage keeps its inductive invariant (coverage.rs, triage.rs).          *)
THEOREM TriageInvariance == TriageSpec => []TriageInv
  BY InitEstablishes, TriageStep, PTL DEF TriageSpec

(* The values of triage are of their types: a pass never spends more than  *)
(* its budget (coverage.rs:287, :507).                                     *)
THEOREM TriageTypesHold == TriageSpec => []TriageTypeOK
<1>1. TriageInv => TriageTypeOK
  BY DEF TriageInv
<1> QED
  BY <1>1, TriageInvariance, PTL

\* When a pass has concluded, every item is settled.
LEMMA Backed ==
  ASSUME TriageInv PROVE DecisionIsBacked
<1> SUFFICES ASSUME Deciding PROVE DecisionIsBacked
  BY DEF DecisionIsBacked, AutomationIsCovered, PublicClaimsAreBacked
<1> USE UnknownIsNoValue, TriageAssumption
<1>1. TriageTypeOK /\ Honest /\ record.decision = Decision /\ Complete
  BY DEF TriageInv, Compared, Conclude
<1>2. record.decision.class = pass.class /\ record.decision.found = pass.found
  BY <1>1 DEF Decision
<1>3. AutomationIsCovered
  <2> SUFFICES ASSUME Eligible(record.decision)
               PROVE  /\ answers.class = [issue |-> pass.evidence.issue, choice |-> "eligible"]
                      /\ \A c \in Items :
                           LET clear == {"different", "related"}
                                          \cup (IF c \in Newer \ Pulls THEN {"same"} ELSE {})
                           IN \/ Judged(answers.screening[c], c,
                                        IF c \in Pulls THEN {"different"} ELSE clear)
                              \/ Judged(answers.investigation[c], c, clear)
    BY DEF AutomationIsCovered
  <2>1. pass.class = "eligible"
    BY <1>2 DEF Eligible
  <2>2. Classified /\ \A c \in Items : Settled(c)
    BY <1>1, <2>1 DEF Complete, Oversized
  <2>3. \A c \in Items : pass.found[c] # "uncertain"
    BY <1>2 DEF Eligible, Unresolved
  <2>4. Matches(record.decision) = {}
    BY DEF Eligible, RouteOf
  <2>5. \A c \in Items : pass.found[c] = "same" => c \in Newer \ Pulls
    BY <1>2, <2>4 DEF Matches
  <2>6. ASSUME NEW c \in Items
        PROVE  LET clear == {"different", "related"}
                              \cup (IF c \in Newer \ Pulls THEN {"same"} ELSE {})
               IN \/ Judged(answers.screening[c], c, IF c \in Pulls THEN {"different"} ELSE clear)
                  \/ Judged(answers.investigation[c], c, clear)
    <3>1. CASE ScreeningSays(c) /\ (c \in Pulls => pass.found[c] = "different")
      <4>1. answers.screening[c] # Unknown /\ answers.screening[c].choice \in Choices(c)
        BY <1>1, <3>1 DEF ScreeningSays, Kept, Honest
      <4> QED
        BY <2>3, <2>5, <3>1, <4>1 DEF ScreeningSays, Judged, Choices, Outcomes
    <3>2. CASE InvestigationSays(c)
      <4>1. answers.investigation[c].choice \in Outcomes
        BY <1>1, <3>2 DEF InvestigationSays, Kept, TriageTypeOK, Answers, Investigations
      <4> QED
        BY <2>3, <2>5, <3>2, <4>1 DEF InvestigationSays, Judged, Outcomes
    <3> QED
      BY <2>2, <2>3, <3>1, <3>2 DEF Settled
  <2> QED
    BY <2>1, <2>2, <2>6 DEF Classified
<1>4. PublicClaimsAreBacked
  <2> SUFFICES ASSUME NEW c \in Items, pass.found[c] \in {"same", "related"}
               PROVE  \/ Judged(answers.investigation[c], c, {"same", "related"})
                      \/ c \notin Pulls /\ Judged(answers.screening[c], c, {"same", "related"})
    BY <1>2 DEF PublicClaimsAreBacked, Marks, Matches, Related
  <2>1. ~Oversized
    BY DEF Oversized, Nothing, Outcomes
  <2>2. Settled(c)
    BY <1>1, <2>1 DEF Complete
  <2> QED
    BY <2>2 DEF Settled, ScreeningSays, InvestigationSays, Judged
<1> QED
  BY <1>3, <1>4 DEF DecisionIsBacked

(* What a pass decides stands on judgements of the evidence it was given:  *)
(* a fix is authorized only if every other item was compared               *)
(* (coverage.rs:133, triage.rs:273).                                       *)
THEOREM DecisionBacked == TriageSpec => []DecisionIsBacked
  BY Backed, TriageInvariance, PTL

(* Evidence that counts as handled has its decision on the issue           *)
(* (workflow.rs:599, :889).                                                *)
THEOREM HandledIsMarked == TriageSpec => []CommittedIsMarked
<1>1. TriageInv => CommittedIsMarked
  BY DEF TriageInv, Handled
<1> QED
  BY <1>1, TriageInvariance, PTL

(* A judgement that was paid for is not asked for again: not for the class *)
(* (triage.rs:75), nor for a screening (coverage.rs:203) or investigation  *)
(* (coverage.rs:486).                                                      *)
THEOREM JudgmentsStay == TriageSpec => JudgmentsAreFinal
<1>1. TriageInv /\ [TriageNext]_triageVars =>
        [/\ LET before == answers.class
                after == answers'.class
            IN before # after /\ before # Unknown => before.issue # after.issue
         /\ \A kind \in {"screening", "investigation"}, c \in Items :
              LET before == answers[kind][c]
                  after == answers'[kind][c]
              IN before # after /\ before # Unknown =>
                   \/ before.issue # after.issue \/ before.item # after.item
                   \/ kind = "investigation" /\ c \in Pulls /\ before.diff # after.diff]_triageVars
  BY JudgmentsStandUntilStale, ClassStandsUntilStale DEF TriageInv, Compared
<1> QED
  BY <1>1, TriageInvariance, PTL DEF TriageSpec, JudgmentsAreFinal
=============================================================================
