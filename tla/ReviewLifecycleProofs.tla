------------------------ MODULE ReviewLifecycleProofs ------------------------
(***************************************************************************)
(* Proofs about ReviewLifecycle, for any number of commits, crashes,       *)
(* panics, failures and manual requests: a review at work keeps its claim, *)
(* a commit gets at most one marked review, and retries keep their budget. *)
(*                                                                         *)
(* Types hold in every behaviour.  The rest holds in every behaviour that  *)
(* is Undisturbed: each review gives its claim up before the claim counts  *)
(* as stale, and no skip is about to be written while a review is at work. *)
(* The code enforces neither, so neither is an assumption on constants     *)
(* here; the last theorem says for which constants the model does.         *)
(***************************************************************************)
EXTENDS ReviewLifecycle, TLAPS

(* What a step of one job does to the table of jobs.                       *)

LEMMA JobTypes ==
    ASSUME TypeOK, NEW s \in Slots, NEW j \in Jobs
    PROVE  /\ [job EXCEPT ![s] = j] \in [Slots -> Jobs]
           /\ [job EXCEPT ![s] = j][s] = j
           /\ \A t \in Slots \ {s} : [job EXCEPT ![s] = j][t] = job[t]
BY DEF TypeOK

LEMMA GotoJob ==
    ASSUME TypeOK, NEW s \in Slots, NEW l, Goto(s, l),
           l \in Holding \cup {"idle", "queued", "skip", "skipped", "decide", "adjust",
                               "count", "lock", "lost"}
    PROVE  /\ job' \in [Slots -> Jobs]
           /\ job'[s] = [job[s] EXCEPT !.pc = l]
           /\ \A t \in Slots \ {s} : job'[t] = job[t]
BY DEF Goto, TypeOK, Jobs

LEMMA EndJob ==
    ASSUME TypeOK, NEW s \in Slots, End(s)
    PROVE  /\ job' \in [Slots -> Jobs]
           /\ job'[s].pc = "idle"
           /\ \A t \in Slots \ {s} : job'[t] = job[t]
<1>1. NoJob \in Jobs
  BY DEF NoJob, Jobs, Slots, Manual
<1>2. QED
  BY <1>1 DEF End, TypeOK, NoJob

-----------------------------------------------------------------------------

(* Types, which need nothing else: what each step makes of its job.        *)

Unclaimed == {"idle", "queued", "skip", "skipped", "decide", "adjust", "count", "lock",
              "lost"}

OnlyJob(s) == \A t \in Slots \ {s} : job'[t] = job[t]

(* What mark_reviewed writes.                                              *)
LEMMA RecordTypes ==
    ASSUME NEW st \in {"InProgress", "Failed", "Skipped", "Done"}, NEW c \in Slots,
           NEW n \in Nat, NEW t \in Nat, TypeOK, MarkReviewed(Record(st, c, n, t))
    PROVE  record' \in Records /\ reviewed' \subseteq Slots
BY DEF MarkReviewed, Record, Records, TypeOK

(* What a discovery and the end of the work set in the job.                *)
LEMMA QueuedFields ==
    ASSUME NEW j \in Jobs, NEW o \in {"Poll", "Generated", "Manual"}, NEW c \in Slots
    PROVE  /\ [j EXCEPT !.pc = "queued", !.origin = o, !.commit = c] \in Jobs
           /\ [j EXCEPT !.pc = "queued", !.origin = o, !.commit = c].pc = "queued"
<1>1. [j EXCEPT !.origin = o, !.commit = c] \in Jobs
  BY DEF Jobs
<1>2. ASSUME NEW k \in Jobs
      PROVE  [k EXCEPT !.pc = "queued"] \in Jobs /\ [k EXCEPT !.pc = "queued"].pc = "queued"
  BY DEF Jobs
<1>3. [j EXCEPT !.pc = "queued", !.origin = o, !.commit = c] =
          [[j EXCEPT !.origin = o, !.commit = c] EXCEPT !.pc = "queued"]
  BY DEF Jobs
<1>4. QED
  BY <1>1, <1>2, <1>3

LEMMA OneJobSet ==
    ASSUME job \in [Slots -> Jobs], NEW s \in Slots, NEW j \in Jobs,
           job' = [job EXCEPT ![s] = j]
    PROVE  job' \in [Slots -> Jobs] /\ job'[s] = j /\ OnlyJob(s)
BY DEF OnlyJob

LEMMA QueuedJob ==
    ASSUME NEW f, NEW s \in DOMAIN f, NEW o, NEW c
    PROVE  [f EXCEPT ![s].pc = "queued", ![s].origin = o, ![s].commit = c] =
           [f EXCEPT ![s] = [f[s] EXCEPT !.pc = "queued", !.origin = o, !.commit = c]]
OBVIOUS

LEMMA WorkedJob ==
    ASSUME NEW f, NEW s \in DOMAIN f, NEW t, NEW b
    PROVE  [f EXCEPT ![s].pc = "journal", ![s].ended = t, ![s].findings = b] =
           [f EXCEPT ![s] = [f[s] EXCEPT !.pc = "journal", !.ended = t, !.findings = b]]
OBVIOUS

LEMMA ArrivalJob ==
    ASSUME TypeOK, Discover \/ RequestManual
    PROVE  \E s \in Slots : job' \in [Slots -> Jobs] /\ job'[s].pc = "queued" /\ OnlyJob(s)
<1>1. CASE Discover
  <2>1. head \in Slots /\ job \in [Slots -> Jobs]
    BY <1>1 DEF TypeOK, Slots
  <2>2. PICK o \in Origins : job' = [job EXCEPT ![head].pc = "queued", ![head].origin = o,
                                                ![head].commit = head]
    BY <1>1 DEF Discover
  <2>3. o \in {"Poll", "Generated", "Manual"}
    BY LifecycleAssumption
  <2>4. job[head] \in Jobs
    BY <2>1
  <2>5. DOMAIN job = Slots
    BY <2>1
  <2>6. job' = [job EXCEPT ![head] = [job[head] EXCEPT !.pc = "queued", !.origin = o,
                                                       !.commit = head]]
    BY <2>1, <2>2, <2>5, QueuedJob
  <2>7. /\ [job[head] EXCEPT !.pc = "queued", !.origin = o, !.commit = head] \in Jobs
        /\ [job[head] EXCEPT !.pc = "queued", !.origin = o, !.commit = head].pc = "queued"
    BY <2>1, <2>3, <2>4, QueuedFields
  <2>8. QED
    BY <2>1, <2>6, <2>7, OneJobSet
<1>2. CASE RequestManual
  <2>1. Manual \in Slots /\ job \in [Slots -> Jobs]
    BY DEF TypeOK, Slots
  <2>2. job' = [job EXCEPT ![Manual].pc = "queued", ![Manual].origin = "Manual"]
    BY <1>2 DEF RequestManual
  <2>3. job[Manual] \in Jobs
    BY <2>1
  <2>4. job'[Manual] = [job[Manual] EXCEPT !.pc = "queued", !.origin = "Manual"]
          /\ OnlyJob(Manual) /\ DOMAIN job' = Slots
    BY <2>1, <2>2 DEF OnlyJob
  <2>5. job'[Manual] \in Jobs /\ job'[Manual].pc = "queued"
    BY <2>3, <2>4 DEF Jobs
  <2>6. job' \in [Slots -> Jobs]
    BY <2>1, <2>2, <2>4, <2>5 DEF OnlyJob
  <2>7. QED
    BY <2>1, <2>4, <2>5, <2>6
<1>3. QED
  BY <1>1, <1>2

LEMMA BeginJob ==
    ASSUME TypeOK, NEW s \in Slots, Begin(s)
    PROVE  job' \in [Slots -> Jobs] /\ job'[s].pc \in Unclaimed /\ OnlyJob(s)
<1> DEFINE commit == IF s = Manual THEN head ELSE job[s].commit
           seen == IF job[s].origin = "Poll" /\ MentionMode THEN mention ELSE 0
<1>1. \/ End(s)
      \/ \E l \in {"skip", "decide"} :
           job' = [job EXCEPT ![s].commit = commit, ![s].mention = seen, ![s].pc = l]
  BY DEF Begin
<1>2. job \in [Slots -> Jobs] /\ job[s] \in Jobs
  BY DEF TypeOK
<1>3. commit \in Slots /\ seen \in Nat
  BY <1>2 DEF TypeOK, Slots, Jobs
<1> HIDE DEF commit, seen
<1>4. CASE End(s)
  BY <1>4, EndJob DEF OnlyJob, Unclaimed
<1>5. ASSUME NEW l \in {"skip", "decide"},
             job' = [job EXCEPT ![s].commit = commit, ![s].mention = seen, ![s].pc = l]
      PROVE  job' \in [Slots -> Jobs] /\ job'[s].pc \in Unclaimed /\ OnlyJob(s)
  <2>1. job'[s] = [job[s] EXCEPT !.commit = commit, !.mention = seen, !.pc = l] /\ OnlyJob(s)
    BY <1>2, <1>5 DEF OnlyJob
  <2>2. job'[s] \in Jobs /\ job'[s].pc \in Unclaimed
    BY <1>2, <1>3, <2>1 DEF Jobs, Unclaimed
  <2>3. job' \in [Slots -> Jobs]
    BY <1>2, <1>5, <2>1, <2>2 DEF OnlyJob
  <2>4. QED
    BY <2>1, <2>2, <2>3
<1>6. QED
  BY <1>1, <1>4, <1>5

LEMMA SkipReadJob ==
    ASSUME TypeOK, NEW s \in Slots, SkipRead(s)
    PROVE  job' \in [Slots -> Jobs] /\ job'[s].pc \in Unclaimed /\ OnlyJob(s)
<1>1. CASE End(s)
  BY <1>1, EndJob DEF OnlyJob, Unclaimed
<1>2. CASE Goto(s, "skipped")
  <2>1. job[s] \in Jobs /\ job' \in [Slots -> Jobs] /\ OnlyJob(s)
          /\ job'[s] = [job[s] EXCEPT !.pc = "skipped"]
    BY <1>2, GotoJob DEF TypeOK, OnlyJob
  <2>2. QED
    BY <2>1 DEF Jobs, Unclaimed
<1>3. QED
  BY <1>1, <1>2 DEF SkipRead

LEMMA DecisionTypes ==
    ASSUME NEW r, NEW c, NEW limited \in BOOLEAN, NEW m,
           NEW d \in {"Skip", "FirstReview", "ReReview", "RetryFailed"}
    PROVE  /\ Decision(r, c, limited) \in {"Skip", "FirstReview", "ReReview", "RetryFailed"}
           /\ MentionAdjusted(d, m, r) \in {"Skip", "FirstReview", "ReReview", "RetryFailed"}
BY DEF Decision, MentionAdjusted

LEMMA AfterDecisionStep ==
    ASSUME TypeOK, NEW s \in Slots, NEW d \in {"Skip", "FirstReview", "ReReview", "RetryFailed"},
           AfterDecision(s, d)
    PROVE  job' \in [Slots -> Jobs] /\ job'[s].pc \in Unclaimed /\ OnlyJob(s)
<1>1. job \in [Slots -> Jobs] /\ job[s] \in Jobs
  BY DEF TypeOK
<1>2. CASE d = "Skip"
  BY <1>2, EndJob DEF AfterDecision, OnlyJob, Unclaimed
<1>3. CASE d # "Skip"
  <2> DEFINE l == IF d = "RetryFailed" THEN "count" ELSE "lock"
  <2>1. job' = [job EXCEPT ![s].decision = d, ![s].pc = l]
    BY <1>3 DEF AfterDecision
  <2>2. l \in {"count", "lock"}
    OBVIOUS
  <2> HIDE DEF l
  <2>3. job'[s] = [job[s] EXCEPT !.decision = d, !.pc = l] /\ OnlyJob(s)
    BY <1>1, <2>1 DEF OnlyJob
  <2>4. job'[s] \in Jobs /\ job'[s].pc \in Unclaimed
    BY <1>1, <2>2, <2>3 DEF Jobs, Unclaimed
  <2>5. job' \in [Slots -> Jobs]
    BY <1>1, <2>1, <2>3, <2>4 DEF OnlyJob
  <2>6. QED
    BY <2>3, <2>4, <2>5
<1>4. QED
  BY <1>2, <1>3

LEMMA DecidingJob ==
    ASSUME TypeOK, NEW s \in Slots, Decide(s) \/ Adjust(s) \/ Count(s) \/ LockRefused(s)
    PROVE  job' \in [Slots -> Jobs] /\ job'[s].pc \in Unclaimed /\ OnlyJob(s)
<1>0. job \in [Slots -> Jobs] /\ job[s] \in Jobs
  BY DEF TypeOK
<1>1. CASE Decide(s)
  <2> DEFINE d == Decision(record, job[s].commit, TRUE)
  <2>1. d \in {"Skip", "FirstReview", "ReReview", "RetryFailed"}
    BY DecisionTypes
  <2>2. \/ AfterDecision(s, d) \/ AfterDecision(s, "ReReview")
        \/ job' = [job EXCEPT ![s].decision = d, ![s].pc = "adjust"]
    BY <1>1 DEF Decide
  <2> HIDE DEF d
  <2>3. CASE AfterDecision(s, d) \/ AfterDecision(s, "ReReview")
    BY <2>1, <2>3, AfterDecisionStep
  <2>4. CASE job' = [job EXCEPT ![s].decision = d, ![s].pc = "adjust"]
    <3>1. job'[s] = [job[s] EXCEPT !.decision = d, !.pc = "adjust"] /\ OnlyJob(s)
      BY <1>0, <2>4 DEF OnlyJob
    <3>2. job'[s] \in Jobs /\ job'[s].pc \in Unclaimed
      BY <1>0, <2>1, <3>1 DEF Jobs, Unclaimed
    <3>3. job' \in [Slots -> Jobs]
      BY <1>0, <2>4, <3>1, <3>2 DEF OnlyJob
    <3>4. QED
      BY <3>1, <3>2, <3>3
  <2>5. QED
    BY <2>2, <2>3, <2>4
<1>2. CASE Adjust(s)
  <2>1. job[s].decision \in {"Skip", "FirstReview", "ReReview", "RetryFailed"}
    BY <1>0 DEF Jobs
  <2>2. MentionAdjusted(job[s].decision, job[s].mention, record)
          \in {"Skip", "FirstReview", "ReReview", "RetryFailed"}
    BY <2>1, DecisionTypes
  <2>3. QED
    BY <1>2, <2>2, AfterDecisionStep DEF Adjust
<1>3. CASE Count(s)
  <2> DEFINE n == IF record.status = "None" THEN 1 ELSE record.retries + 1
  <2>1. n \in Nat
    BY DEF TypeOK, Records
  <2>2. job' = [job EXCEPT ![s].count = n, ![s].pc = "lock"]
    BY <1>3 DEF Count
  <2> HIDE DEF n
  <2>3. job'[s] = [job[s] EXCEPT !.count = n, !.pc = "lock"] /\ OnlyJob(s)
    BY <1>0, <2>2 DEF OnlyJob
  <2>4. job'[s] \in Jobs /\ job'[s].pc \in Unclaimed
    BY <1>0, <2>1, <2>3 DEF Jobs, Unclaimed
  <2>5. job' \in [Slots -> Jobs]
    BY <1>0, <2>2, <2>3, <2>4 DEF OnlyJob
  <2>6. QED
    BY <2>3, <2>4, <2>5
<1>4. CASE LockRefused(s)
  BY <1>4, EndJob DEF LockRefused, OnlyJob, Unclaimed
<1>5. QED
  BY <1>1, <1>2, <1>3, <1>4

(* What the review at work makes of its job and of the record.             *)

LEMMA ClaimTypes ==
    ASSUME TypeOK, NEW s \in Slots, Lock(s)
    PROVE  job' \in [Slots -> Jobs] /\ record' \in Records
<1>1. /\ record' = Record("InProgress", job[s].commit, ClaimedRetries(job[s].commit), now)
      /\ job' = [job EXCEPT ![s].pc = "stage", ![s].since = now, ![s].decision = "Skip"]
  BY DEF Lock
<1>2. job \in [Slots -> Jobs] /\ job[s] \in Jobs /\ record \in Records /\ now \in Nat
  BY DEF TypeOK
<1>3. job'[s] = [job[s] EXCEPT !.pc = "stage", !.since = now, !.decision = "Skip"] /\ OnlyJob(s)
  BY <1>1, <1>2 DEF OnlyJob
<1>4. job'[s] \in Jobs
  BY <1>2, <1>3 DEF Jobs, Holding
<1>5. job' \in [Slots -> Jobs]
  BY <1>1, <1>2, <1>3, <1>4 DEF OnlyJob
<1>6. ClaimedRetries(job[s].commit) \in Nat /\ job[s].commit \in Slots
  BY <1>2 DEF ClaimedRetries, Records, Jobs
<1>7. QED
  BY <1>1, <1>2, <1>5, <1>6 DEF Record, Records

LEMMA StageTypes ==
    ASSUME TypeOK, NEW s \in Slots, Stage(s)
    PROVE  job' \in [Slots -> Jobs]
<1>1. job' = [job EXCEPT ![s].pc = "work", ![s].target = head] /\ head \in Slots
  BY DEF Stage, TypeOK, Slots
<1>2. job \in [Slots -> Jobs] /\ job[s] \in Jobs
  BY DEF TypeOK
<1>3. job'[s] = [job[s] EXCEPT !.pc = "work", !.target = head] /\ OnlyJob(s)
  BY <1>1, <1>2 DEF OnlyJob
<1>4. job'[s] \in Jobs
  BY <1>1, <1>2, <1>3 DEF Jobs, Holding
<1>5. QED
  BY <1>1, <1>2, <1>3, <1>4 DEF OnlyJob

LEMMA WorkTypes ==
    ASSUME TypeOK, NEW s \in Slots, Work(s)
    PROVE  job' \in [Slots -> Jobs]
<1>1. PICK f \in BOOLEAN : job' = [job EXCEPT ![s].pc = "journal", ![s].ended = now,
                                              ![s].findings = f]
  BY DEF Work
<1>2. job \in [Slots -> Jobs] /\ job[s] \in Jobs /\ DOMAIN job = Slots /\ now \in Nat
  BY DEF TypeOK
<1> DEFINE j == [job[s] EXCEPT !.pc = "journal", !.ended = now, !.findings = f]
<1>3. j \in Jobs
  <2>1. [job[s] EXCEPT !.pc = "journal"] \in Jobs
    BY <1>2 DEF Jobs, Holding
  <2>2. ASSUME NEW m \in Jobs
        PROVE  [m EXCEPT !.ended = now, !.findings = f] \in Jobs
    BY <1>1, <1>2 DEF Jobs
  <2>3. j = [[job[s] EXCEPT !.pc = "journal"] EXCEPT !.ended = now, !.findings = f]
    BY <1>2 DEF Jobs
  <2>4. QED
    BY <2>1, <2>2, <2>3
<1>4. job' = [job EXCEPT ![s] = j]
  BY <1>1, <1>2, WorkedJob
<1> HIDE DEF j
<1>5. QED
  BY <1>2, <1>3, <1>4, OneJobSet

LEMMA BeginDisclosureTypes ==
    ASSUME TypeOK, NEW s \in Slots, BeginDisclosure(s)
    PROVE  /\ job' \in [Slots -> Jobs]
           /\ journal' \in [Commits -> {"none", "publishing", "published"}]
<1> DEFINE l == IF job[s].findings THEN "history" ELSE "receipt"
           b == (journal[job[s].target] = "publishing")
<1>1. \/ Goto(s, "record") /\ UNCHANGED journal
      \/ /\ journal' = [journal EXCEPT ![job[s].target] = "publishing"]
         /\ job' = [job EXCEPT ![s].pc = l, ![s].recovering = b]
  BY DEF BeginDisclosure
<1>2. job \in [Slots -> Jobs] /\ job[s] \in Jobs
        /\ journal \in [Commits -> {"none", "publishing", "published"}]
  BY DEF TypeOK
<1>3. CASE Goto(s, "record") /\ UNCHANGED journal
  BY <1>2, <1>3, GotoJob DEF Holding
<1>4. CASE /\ journal' = [journal EXCEPT ![job[s].target] = "publishing"]
           /\ job' = [job EXCEPT ![s].pc = l, ![s].recovering = b]
  <2>1. l \in Holding /\ b \in BOOLEAN
    BY DEF Holding
  <2> HIDE DEF l, b
  <2>2. job'[s] = [job[s] EXCEPT !.pc = l, !.recovering = b] /\ OnlyJob(s)
    BY <1>2, <1>4 DEF OnlyJob
  <2>3. job'[s] \in Jobs
    BY <1>2, <2>1, <2>2 DEF Jobs
  <2>4. job' \in [Slots -> Jobs]
    BY <1>2, <1>4, <2>2, <2>3 DEF OnlyJob
  <2>5. QED
    BY <1>2, <1>4, <2>4
<1>5. QED
  BY <1>1, <1>3, <1>4

(* The steps that write a finished, failed or skipped review.              *)
LEMMA WrittenTypes ==
    ASSUME TypeOK, NEW s \in Slots, End(s),
           \E st \in {"Failed", "Skipped", "Done"}, c \in {job[s].commit, job[s].target},
              n \in {0, job[s].count}, t \in {now, job[s].ended} :
                MarkReviewed(Record(st, c, n, t))
    PROVE  job' \in [Slots -> Jobs] /\ record' \in Records /\ reviewed' \subseteq Slots
<1>1. /\ job[s].commit \in Slots /\ job[s].target \in Slots
      /\ job[s].count \in Nat /\ job[s].ended \in Nat /\ now \in Nat
  BY DEF TypeOK, Jobs
<1>2. PICK st \in {"Failed", "Skipped", "Done"}, c \in Slots, n \in Nat, t \in Nat :
        MarkReviewed(Record(st, c, n, t))
  BY <1>1
<1>3. QED
  BY <1>2, RecordTypes, EndJob

LEMMA StepTypes ==
    ASSUME TypeOK, [Next]_vars
    PROVE  TypeOK'
<1>1. CASE Push \/ Mention \/ Tick
  BY <1>1, LifecycleAssumption DEF TypeOK, Push, Mention, Tick, Commits
<1>2. CASE Discover \/ RequestManual
  BY <1>2, ArrivalJob DEF TypeOK, Discover, RequestManual
<1>3. CASE Crash \/ Restart
  <2>1. NoJob \in Jobs
    BY DEF NoJob, Jobs, Slots, Manual
  <2>2. job' \in [Slots -> Jobs]
    BY <1>3, <2>1 DEF Crash, Restart, TypeOK
  <2>3. record' \in Records
    BY <1>3 DEF Crash, Restart, TypeOK, Records
  <2>4. QED
    BY <1>3, <2>2, <2>3 DEF Crash, Restart, TypeOK
<1>4. ASSUME NEW s \in Slots, JobStep(s) \/ Trouble(s)
      PROVE  TypeOK'
  <2>1. CASE Begin(s) \/ SkipRead(s)
    BY <2>1, BeginJob, SkipReadJob DEF Begin, SkipRead, TypeOK
  <2>2. CASE Decide(s) \/ Adjust(s) \/ Count(s) \/ LockRefused(s)
    BY <2>2, DecidingJob DEF Decide, Adjust, Count, LockRefused, TypeOK
  <2>3. CASE Lock(s)
    BY <2>3, ClaimTypes DEF Lock, TypeOK
  <2>4. CASE Stage(s) \/ Work(s)
    BY <2>4, StageTypes, WorkTypes DEF Stage, Work, TypeOK
  <2>5. CASE BeginDisclosure(s)
    BY <2>5, BeginDisclosureTypes DEF BeginDisclosure, TypeOK
  <2>6. CASE FindExisting(s)
    <3>1. PICK l \in {"receipt", "publish"} : Goto(s, l)
      BY <2>6 DEF FindExisting
    <3>2. job' \in [Slots -> Jobs]
      BY <3>1, GotoJob DEF Holding
    <3>3. QED
      BY <2>6, <3>2 DEF FindExisting, TypeOK
  <2>7. CASE Publish(s)
    <3>1. posts' \in [Commits -> Nat]
      <4> DEFINE c == job[s].target
      <4>1. posts' = [posts EXCEPT ![c] = posts[c] + 1] /\ posts \in [Commits -> Nat]
        BY <2>7 DEF Publish, TypeOK
      <4> HIDE DEF c
      <4>2. CASE c \in Commits
        BY <4>1, <4>2
      <4>3. CASE c \notin Commits
        <5>1. DOMAIN posts' = Commits /\ \A d \in Commits : posts'[d] = posts[d]
          BY <4>1, <4>3
        <5>2. posts' = posts
          BY <4>1, <5>1
        <5>3. QED
          BY <4>1, <5>2
      <4>4. QED
        BY <4>2, <4>3
    <3>2. CASE Goto(s, "receipt") /\ UNCHANGED <<record, reviewed>>
      <4>1. job' \in [Slots -> Jobs]
        BY <3>2, GotoJob DEF Holding
      <4>2. QED
        BY <2>7, <3>1, <3>2, <4>1 DEF Publish, TypeOK
    <3>3. CASE MarkReviewed(Record("Failed", job[s].target, job[s].count, job[s].ended)) /\ End(s)
      <4>1. job' \in [Slots -> Jobs] /\ record' \in Records /\ reviewed' \subseteq Slots
        BY <3>3, WrittenTypes
      <4>2. QED
        BY <2>7, <3>1, <4>1 DEF Publish, TypeOK
    <3>4. QED
      BY <2>7, <3>2, <3>3 DEF Publish
  <2>8. CASE FinishDisclosure(s)
    <3>1. journal' \in [Commits -> {"none", "publishing", "published"}]
      BY <2>8 DEF FinishDisclosure, TypeOK
    <3>2. job' \in [Slots -> Jobs]
      BY <2>8, GotoJob DEF FinishDisclosure, Holding
    <3>3. QED
      BY <2>8, <3>1, <3>2 DEF FinishDisclosure, TypeOK
  <2>9. CASE SkipWrite(s) \/ Complete(s) \/ ReviewFails(s) \/ FinalizationFails(s)
    <3>1. job' \in [Slots -> Jobs] /\ record' \in Records /\ reviewed' \subseteq Slots
      BY <2>9, WrittenTypes DEF SkipWrite, Complete, ReviewFails, FinalizationFails
    <3>2. QED
      BY <2>9, <3>1 DEF SkipWrite, Complete, ReviewFails, FinalizationFails, TypeOK
  <2>10. CASE Panic(s)
    <3>1. [NoJob EXCEPT !.pc = "lost"] \in Jobs
      BY DEF NoJob, Jobs, Slots, Manual
    <3>2. job' \in [Slots -> Jobs]
      BY <2>10, <3>1, JobTypes DEF Panic
    <3>3. QED
      BY <2>10, <3>2 DEF Panic, TypeOK
  <2>11. QED
    BY <1>4, <2>1, <2>2, <2>3, <2>4, <2>5, <2>6, <2>7, <2>8, <2>9, <2>10 DEF JobStep, Trouble
<1>5. CASE UNCHANGED vars
  BY <1>5 DEF vars, TypeOK
<1>6. QED
  BY <1>1, <1>2, <1>3, <1>4, <1>5 DEF Next

-----------------------------------------------------------------------------

(* The inductive invariant.  Claims: the live review is the one the record *)
(* names, and there is one at most.  Posted: a commit without a journal    *)
(* entry has no review on the forge, and a job about to publish knows      *)
(* there is none.                                                          *)

Claims ==
    /\ \A s \in Slots : ~up => job[s].pc = "idle"
    /\ \A s \in Slots : job[s].pc \in Holding \cup Unclaimed
    /\ ClaimIsHeld /\ OneLiveReview

Posted ==
    /\ \A c \in Commits : posts[c] <= 1 /\ (journal[c] = "none" => posts[c] = 0)
    /\ \A s \in Slots : job[s].pc \in Holding \ {"stage"} => job[s].target \in Commits
    /\ \A s \in Slots : job[s].pc \in {"history", "publish"} => journal[job[s].target] # "none"
    /\ \A s \in Slots : job[s].pc = "publish" \/ (job[s].pc = "history" /\ ~job[s].recovering)
                          => posts[job[s].target] = 0

LInv == TypeOK /\ Claims /\ Posted

LEMMA InitLInv == Init => LInv
<1> SUFFICES ASSUME Init PROVE LInv
  OBVIOUS
<1>1. NoJob \in Jobs /\ NoRecord \in Records
  BY DEF NoJob, Jobs, NoRecord, Records, Slots, Manual
<1>2. TypeOK
  BY <1>1, LifecycleAssumption DEF Init, TypeOK, Commits
<1>3. \A s \in Slots : job[s].pc = "idle"
  BY DEF Init, NoJob
<1>4. Claims
  BY <1>3 DEF Claims, ClaimIsHeld, OneLiveReview, Live, Holding, Unclaimed
<1>5. Posted
  BY <1>3 DEF Init, Posted, Holding
<1>6. QED
  BY <1>2, <1>4, <1>5 DEF LInv

(* A step of a job that holds no claim, before or after, disturbs nobody.  *)
LEMMA QuietStep ==
    ASSUME LInv, NEW s \in Slots, OnlyJob(s), job'[s].pc \in Unclaimed,
           ~up' => job'[s].pc = "idle", UNCHANGED <<record, journal, posts, now, up>>
    PROVE  Claims' /\ Posted'
<1>1. \A t \in Slots : job'[t].pc \in Holding => t # s /\ job'[t] = job[t]
  BY DEF OnlyJob, Unclaimed, Holding
<1>2. Claims'
  BY <1>1 DEF OnlyJob, LInv, Claims, ClaimIsHeld, OneLiveReview, Live
<1>3. Posted'
  BY <1>1 DEF LInv, Posted, Holding
<1>4. QED
  BY <1>2, <1>3

(* The live review ends: nobody else relied on the record.                 *)
LEMMA EndStep ==
    ASSUME LInv, NEW s \in Slots, Live(s), OnlyJob(s), job'[s].pc \in Unclaimed,
           UNCHANGED <<now, up>>
    PROVE  Claims' /\ \A t \in Slots : job'[t].pc \notin Holding
<1>1. \A t \in Slots : job'[t].pc \notin Holding
  BY DEF LInv, Claims, OnlyJob, OneLiveReview, Live, Unclaimed, Holding
<1>2. up
  BY DEF LInv, Claims, Live, Holding
<1>3. Claims'
  BY <1>1, <1>2 DEF LInv, Claims, OnlyJob, ClaimIsHeld, OneLiveReview, Live
<1>4. QED
  BY <1>1, <1>3

(* The live review goes on.                                                *)
LEMMA WorkStep ==
    ASSUME LInv, NEW s \in Slots, Live(s), OnlyJob(s), job'[s].pc \in Holding,
           job'[s].commit = job[s].commit, job'[s].since = job[s].since,
           UNCHANGED <<record, now, up>>
    PROVE  /\ Claims'
           /\ \A t \in Slots : job'[t].pc \in Holding => t = s
<1>1. \A t \in Slots : job'[t].pc \in Holding => t = s
  BY DEF LInv, Claims, OnlyJob, OneLiveReview, Live
<1>2. up
  BY DEF LInv, Claims, Live, Holding
<1>3. Claims'
  BY <1>1, <1>2 DEF LInv, Claims, OnlyJob, ClaimIsHeld, OneLiveReview, Live
<1>4. QED
  BY <1>1, <1>3

-----------------------------------------------------------------------------

(* The world and the steps before the claim.                               *)

LEMMA WorldSteps ==
    ASSUME LInv, Push \/ Mention
    PROVE  LInv'
<1>1. TypeOK'
  BY LifecycleAssumption DEF LInv, TypeOK, Push, Mention, Commits
<1>2. Claims' /\ Posted'
  BY DEF LInv, Claims, Posted, Push, Mention, ClaimIsHeld, OneLiveReview, Live
<1>3. QED
  BY <1>1, <1>2 DEF LInv

LEMMA TickStep ==
    ASSUME LInv, Tick
    PROVE  LInv'
<1>1. TypeOK'
  BY DEF LInv, TypeOK, Tick
<1>4. Claims'
  BY DEF LInv, Claims, Tick, ClaimIsHeld, OneLiveReview, Live
<1>5. Posted'
  BY DEF LInv, Posted, Tick
<1>6. QED
  BY <1>1, <1>4, <1>5 DEF LInv

LEMMA ArrivalSteps ==
    ASSUME LInv, Discover \/ RequestManual
    PROVE  LInv'
<1>1. PICK s \in Slots : job' \in [Slots -> Jobs] /\ job'[s].pc = "queued" /\ OnlyJob(s)
  BY ArrivalJob DEF LInv
<1>2. up /\ UNCHANGED <<record, reviewed, journal, posts, head, mention, now, up>>
  BY DEF Discover, RequestManual
<1>5. TypeOK'
  BY <1>2, <1>1 DEF LInv, TypeOK
<1>6. Claims' /\ Posted'
  BY <1>1, <1>2, QuietStep DEF Unclaimed
<1>7. QED
  BY <1>5, <1>6 DEF LInv

LEMMA BeginStep ==
    ASSUME LInv, NEW s \in Slots, Begin(s)
    PROVE  LInv'
<1>1. /\ job[s].pc = "queued" /\ job' \in [Slots -> Jobs]
      /\ job'[s].pc \in Unclaimed /\ OnlyJob(s)
      /\ UNCHANGED <<record, reviewed, journal, posts, head, mention, now, up>>
  BY BeginJob DEF LInv, Begin
<1>2. up
  BY <1>1 DEF LInv, Claims
<1>3. TypeOK'
  BY <1>1 DEF LInv, TypeOK
<1>4. Claims' /\ Posted'
  BY <1>1, <1>2, QuietStep
<1>5. QED
  BY <1>3, <1>4 DEF LInv

LEMMA SkipReadStep ==
    ASSUME LInv, NEW s \in Slots, SkipRead(s)
    PROVE  LInv'
<1>1. /\ job[s].pc = "skip" /\ job' \in [Slots -> Jobs]
      /\ job'[s].pc \in Unclaimed /\ OnlyJob(s)
      /\ UNCHANGED <<record, reviewed, journal, posts, head, mention, now, up>>
  BY SkipReadJob DEF LInv, SkipRead
<1>2. up
  BY <1>1 DEF LInv, Claims
<1>3. TypeOK'
  BY <1>1 DEF LInv, TypeOK
<1>4. Claims' /\ Posted'
  BY <1>1, <1>2, QuietStep
<1>5. QED
  BY <1>3, <1>4 DEF LInv

(* A skip is written while nobody is at work.                              *)
LEMMA SkipWriteStep ==
    ASSUME LInv, SkipsAlone, NEW s \in Slots, SkipWrite(s)
    PROVE  LInv'
<1>1. /\ job[s].pc = "skipped" /\ End(s)
      /\ MarkReviewed(Record("Skipped", job[s].commit, 0, now))
      /\ UNCHANGED <<journal, posts, head, mention, now, up>>
  BY DEF SkipWrite
<1>2. job' \in [Slots -> Jobs] /\ job'[s].pc = "idle" /\ OnlyJob(s)
  BY <1>1, EndJob DEF LInv, OnlyJob
<1>3. job[s].commit \in Slots /\ now \in Nat
  BY DEF LInv, TypeOK, Jobs
<1>4. record' \in Records /\ reviewed' \subseteq Slots
  BY <1>1, <1>3, RecordTypes DEF LInv
<1>5. TypeOK'
  BY <1>1, <1>2, <1>4 DEF LInv, TypeOK
<1>6. \A t \in Slots : job'[t].pc \notin Holding
  BY <1>1, <1>2 DEF SkipsAlone, Live, OnlyJob, Holding
<1>7. up
  BY <1>1 DEF LInv, Claims
<1>8. \A t \in Slots : (~up' => job'[t].pc = "idle") /\ job'[t].pc \in Holding \cup Unclaimed
  BY <1>1, <1>2, <1>7 DEF LInv, Claims, OnlyJob, Unclaimed
<1>9. Claims'
  BY <1>6, <1>8 DEF Claims, ClaimIsHeld, OneLiveReview, Live
<1>10. Posted'
  BY <1>1, <1>6 DEF LInv, Posted, Holding
<1>11. QED
  BY <1>5, <1>9, <1>10 DEF LInv

LEMMA DecidingSteps ==
    ASSUME LInv, NEW s \in Slots, Decide(s) \/ Adjust(s) \/ Count(s) \/ LockRefused(s)
    PROVE  LInv'
<1>1. /\ job[s].pc \in {"decide", "adjust", "count", "lock"}
      /\ UNCHANGED <<record, reviewed, journal, posts, head, mention, now, up>>
  BY DEF Decide, Adjust, Count, LockRefused
<1>2. up
  BY <1>1 DEF LInv, Claims
<1>3. job' \in [Slots -> Jobs] /\ job'[s].pc \in Unclaimed /\ OnlyJob(s)
  BY DecidingJob DEF LInv
<1>4. TypeOK'
  BY <1>1, <1>3 DEF LInv, TypeOK
<1>5. Claims' /\ Posted'
  BY <1>1, <1>2, <1>3, QuietStep
<1>6. QED
  BY <1>4, <1>5 DEF LInv

-----------------------------------------------------------------------------

(* Whoever is at work claimed the record less than StaleAfter ago: a claim *)
(* that is not fresh is nobody's.                                          *)
LEMMA NobodyAtWork ==
    ASSUME LInv, OnTime, ~FreshClaim(record), NEW t \in Slots
    PROVE  ~Live(t)
<1> SUFFICES ASSUME Live(t) PROVE FALSE
  OBVIOUS
<1>1. record.status = "InProgress" /\ record.at = job[t].since
        /\ now <= job[t].since + StaleAfter
  BY DEF LInv, Claims, ClaimIsHeld, OnTime
<1>2. job[t].since \in Nat /\ now \in Nat
  BY DEF LInv, TypeOK, Jobs
<1>3. now - record.at <= StaleAfter
  BY <1>1, <1>2, LifecycleAssumption
<1>4. QED
  BY <1>1, <1>3 DEF FreshClaim

(* The claim: nobody is at work when a job gets it.                        *)
LEMMA LockStep ==
    ASSUME LInv, OnTime, NEW s \in Slots, Lock(s)
    PROVE  LInv'
<1>1. /\ job[s].pc = "lock" /\ ~FreshClaim(record)
      /\ record' = Record("InProgress", job[s].commit, ClaimedRetries(job[s].commit), now)
      /\ job' = [job EXCEPT ![s].pc = "stage", ![s].since = now, ![s].decision = "Skip"]
      /\ UNCHANGED <<reviewed, journal, posts, head, mention, now, up>>
  BY DEF Lock
<1>2. job \in [Slots -> Jobs] /\ job[s] \in Jobs /\ up /\ record \in Records /\ now \in Nat
  BY <1>1 DEF LInv, TypeOK, Claims
<1>3. \A t \in Slots : ~Live(t)
  BY <1>1, NobodyAtWork
<1>4. job'[s] = [job[s] EXCEPT !.pc = "stage", !.since = now, !.decision = "Skip"] /\ OnlyJob(s)
  BY <1>1, <1>2 DEF OnlyJob
<1>5. /\ job'[s] \in Jobs /\ job'[s].pc = "stage"
      /\ job'[s].since = now /\ job'[s].commit = job[s].commit
  BY <1>2, <1>4 DEF Jobs, Holding
<1>6. job' \in [Slots -> Jobs]
  BY <1>1, <1>2, <1>4, <1>5 DEF OnlyJob
<1>7. ClaimedRetries(job[s].commit) \in Nat /\ job[s].commit \in Slots
  BY <1>2 DEF ClaimedRetries, Records, Jobs
<1>8. record' \in Records /\ record'.status = "InProgress" /\ record'.at = now
        /\ record'.commit = job[s].commit
  BY <1>1, <1>2, <1>7 DEF Record, Records
<1>9. TypeOK'
  BY <1>1, <1>6, <1>8 DEF LInv, TypeOK
<1>10. \A t \in Slots : job'[t].pc \in Holding => t = s
  BY <1>3, <1>4 DEF OnlyJob, Live
<1>12. Claims'
  <2>1. ClaimIsHeld' /\ OneLiveReview'
    BY <1>5, <1>8, <1>10 DEF ClaimIsHeld, OneLiveReview, Live
  <2>3. \A t \in Slots : (~up' => job'[t].pc = "idle") /\ job'[t].pc \in Holding \cup Unclaimed
    BY <1>1, <1>2, <1>4, <1>5 DEF LInv, Claims, OnlyJob, Holding
  <2>4. QED
    BY <2>1, <2>3 DEF Claims
<1>13. Posted'
  BY <1>1, <1>5, <1>10 DEF LInv, Posted, Holding
<1>14. QED
  BY <1>9, <1>12, <1>13 DEF LInv

-----------------------------------------------------------------------------

(* The review at work.                                                     *)

LEMMA LiveJob ==
    ASSUME LInv, NEW s \in Slots, Live(s)
    PROVE  /\ job \in [Slots -> Jobs] /\ job[s] \in Jobs /\ up
           /\ job[s].pc # "stage" => job[s].target \in Commits
BY DEF LInv, TypeOK, Claims, Posted, Live, Holding

LEMMA StageStep ==
    ASSUME LInv, NEW s \in Slots, Stage(s)
    PROVE  LInv'
<1>1. /\ job[s].pc = "stage" /\ job' = [job EXCEPT ![s].pc = "work", ![s].target = head]
      /\ UNCHANGED <<record, reviewed, journal, posts, head, mention, now, up>>
  BY DEF Stage
<1>2. Live(s) /\ head \in Commits /\ head \in Slots
  BY <1>1 DEF Live, Holding, LInv, TypeOK, Slots
<1>3. job'[s] = [job[s] EXCEPT !.pc = "work", !.target = head] /\ OnlyJob(s)
  BY <1>1, <1>2, LiveJob DEF OnlyJob
<1>4. /\ job'[s] \in Jobs /\ job'[s].pc = "work" /\ job'[s].target = head
      /\ job'[s].commit = job[s].commit /\ job'[s].since = job[s].since
  BY <1>2, <1>3, LiveJob DEF Jobs, Holding
<1>5. job' \in [Slots -> Jobs]
  BY <1>1, <1>2, <1>3, <1>4, LiveJob DEF OnlyJob
<1>6. TypeOK'
  BY <1>1, <1>5 DEF LInv, TypeOK
<1>7. Claims' /\ \A t \in Slots : job'[t].pc \in Holding => t = s
  BY <1>1, <1>2, <1>3, <1>4, WorkStep DEF Holding
<1>8. Posted'
  BY <1>1, <1>2, <1>4, <1>7 DEF LInv, Posted, Holding
<1>9. QED
  BY <1>6, <1>7, <1>8 DEF LInv

LEMMA WorkDone ==
    ASSUME LInv, NEW s \in Slots, Work(s)
    PROVE  LInv'
<1>1. PICK f \in BOOLEAN : job' = [job EXCEPT ![s].pc = "journal", ![s].ended = now,
                                              ![s].findings = f]
  BY DEF Work
<1>2. job[s].pc = "work" /\ UNCHANGED <<record, reviewed, journal, posts, head, mention, now, up>>
  BY DEF Work
<1>3. Live(s) /\ now \in Nat
  BY <1>2 DEF Live, Holding, LInv, TypeOK
<1>4. job \in [Slots -> Jobs] /\ job[s] \in Jobs /\ DOMAIN job = Slots
  BY <1>3, LiveJob
<1> DEFINE j == [job[s] EXCEPT !.pc = "journal", !.ended = now, !.findings = f]
<1>5. j = [job[s] EXCEPT !.pc = "journal", !.ended = now, !.findings = f]
  OBVIOUS
<1> HIDE DEF j
<1>6. /\ j \in Jobs /\ j.pc = "journal" /\ j.target = job[s].target
      /\ j.commit = job[s].commit /\ j.since = job[s].since
  <2>1. [job[s] EXCEPT !.pc = "journal"] \in Jobs
    BY <1>4 DEF Jobs, Holding
  <2>2. ASSUME NEW m \in Jobs
        PROVE  [m EXCEPT !.ended = now, !.findings = f] \in Jobs
    BY <1>1, <1>3 DEF Jobs
  <2>3. j = [[job[s] EXCEPT !.pc = "journal"] EXCEPT !.ended = now, !.findings = f]
    BY <1>4, <1>5 DEF Jobs
  <2>4. /\ j.pc = "journal" /\ j.target = job[s].target
        /\ j.commit = job[s].commit /\ j.since = job[s].since
    BY <1>4, <1>5 DEF Jobs
  <2>5. QED
    BY <2>1, <2>2, <2>3, <2>4
<1>7. job' \in [Slots -> Jobs] /\ job'[s] = j /\ OnlyJob(s)
  <2>1. job' = [job EXCEPT ![s] = j]
    BY <1>1, <1>4, <1>5, WorkedJob
  <2>2. QED
    BY <1>4, <1>6, <2>1, OneJobSet
<1>8. /\ job'[s].pc = "journal" /\ job'[s].target = job[s].target
      /\ job'[s].commit = job[s].commit /\ job'[s].since = job[s].since
  BY <1>6, <1>7
<1>9. TypeOK'
  BY <1>2, <1>7 DEF LInv, TypeOK
<1>10. Claims' /\ \A t \in Slots : job'[t].pc \in Holding => t = s
  BY <1>2, <1>3, <1>7, <1>8, WorkStep DEF Holding
<1>11. Posted'
  <2>1. /\ \A t \in Slots : job'[t].pc \in Holding => t = s
        /\ job[s].target \in Commits
    BY <1>2, <1>3, <1>10, LiveJob
  <2>2. UNCHANGED <<posts, journal>>
    BY <1>2
  <2>3. QED
    BY <1>8, <2>1, <2>2 DEF LInv, Posted, Holding
<1>12. QED
  BY <1>9, <1>10, <1>11 DEF LInv

(* A step to label l that changes nothing else of the job.                 *)
LEMMA LiveGoto ==
    ASSUME LInv, NEW s \in Slots, Live(s), NEW l \in Holding, Goto(s, l),
           UNCHANGED <<record, now, up>>
    PROVE  /\ job' \in [Slots -> Jobs]
           /\ job'[s] = [job[s] EXCEPT !.pc = l] /\ job'[s].pc = l
           /\ job'[s].target = job[s].target /\ job'[s].recovering = job[s].recovering
           /\ Claims' /\ \A t \in Slots : job'[t].pc \in Holding => t = s
<1>1. job' \in [Slots -> Jobs] /\ job'[s] = [job[s] EXCEPT !.pc = l] /\ OnlyJob(s)
  BY GotoJob DEF LInv, OnlyJob
<1>2. /\ job'[s].pc = l /\ job'[s].target = job[s].target
      /\ job'[s].recovering = job[s].recovering
      /\ job'[s].commit = job[s].commit /\ job'[s].since = job[s].since
  BY <1>1, LiveJob DEF Jobs
<1>3. Claims' /\ \A t \in Slots : job'[t].pc \in Holding => t = s
  BY <1>1, <1>2, WorkStep
<1>4. QED
  BY <1>1, <1>2, <1>3

LEMMA BeginDisclosureStep ==
    ASSUME LInv, NEW s \in Slots, BeginDisclosure(s)
    PROVE  LInv'
<1> DEFINE c == job[s].target
           l == IF job[s].findings THEN "history" ELSE "receipt"
           b == (journal[c] = "publishing")
<1>1. /\ job[s].pc = "journal"
      /\ UNCHANGED <<record, reviewed, posts, head, mention, now, up>>
  BY DEF BeginDisclosure
<1>2. Live(s) /\ c \in Commits /\ c \in Slots
  BY <1>1 DEF Live, Holding, LInv, Posted, Slots
<1>3. job \in [Slots -> Jobs] /\ job[s] \in Jobs
  BY <1>2, LiveJob
<1>4. CASE journal[c] = "published" /\ Goto(s, "record") /\ UNCHANGED journal
  <2>1. /\ job' \in [Slots -> Jobs] /\ job'[s].pc = "record" /\ job'[s].target = c
        /\ Claims' /\ \A t \in Slots : job'[t].pc \in Holding => t = s
    BY <1>1, <1>2, <1>4, LiveGoto DEF Holding
  <2>2. TypeOK'
    BY <1>1, <1>4, <2>1 DEF LInv, TypeOK
  <2>3. Posted'
    BY <1>1, <1>2, <1>4, <2>1 DEF LInv, Posted, Holding
  <2>4. QED
    BY <2>1, <2>2, <2>3 DEF LInv
<1>5. CASE /\ journal[c] # "published"
           /\ journal' = [journal EXCEPT ![c] = "publishing"]
           /\ job' = [job EXCEPT ![s].pc = l, ![s].recovering = b]
  <2>1. l \in {"history", "receipt"} /\ b \in BOOLEAN
    OBVIOUS
  <2>2. l \in Holding
    BY <2>1 DEF Holding
  <2>3. /\ journal \in [Commits -> {"none", "publishing", "published"}]
        /\ ~b => journal[c] = "none"
    BY <1>2, <1>5 DEF LInv, TypeOK
  <2> HIDE DEF c, l, b
  <2>4. job'[s] = [job[s] EXCEPT !.pc = l, !.recovering = b] /\ OnlyJob(s)
    BY <1>3, <1>5 DEF OnlyJob
  <2>5. /\ job'[s].pc = l /\ job'[s].recovering = b /\ job'[s].target = job[s].target
        /\ job'[s].commit = job[s].commit /\ job'[s].since = job[s].since
    BY <1>3, <2>4 DEF Jobs
  <2>6. job'[s] \in Jobs
    BY <1>3, <2>1, <2>2, <2>4 DEF Jobs
  <2>7. job' \in [Slots -> Jobs]
    BY <1>3, <1>5, <2>4, <2>6 DEF OnlyJob
  <2>8. journal' \in [Commits -> {"none", "publishing", "published"}] /\ journal'[c] = "publishing"
    BY <1>2, <1>5, <2>3
  <2>9. TypeOK'
    BY <1>1, <2>7, <2>8 DEF LInv, TypeOK
  <2>10. Claims' /\ \A t \in Slots : job'[t].pc \in Holding => t = s
    BY <1>1, <1>2, <2>2, <2>4, <2>5, WorkStep
  <2>11. ~b => posts[c] = 0
    BY <1>2, <2>3 DEF LInv, Posted
  <2>12. \A d \in Commits : posts'[d] <= 1 /\ (journal'[d] = "none" => posts'[d] = 0)
    BY <1>1, <1>2, <1>5, <2>3 DEF LInv, Posted
  <2>13. job'[s].target = c /\ (job'[s].pc = "history" /\ ~job'[s].recovering => posts'[c] = 0)
    BY <1>1, <2>5, <2>11 DEF c
  <2>14. Posted'
    BY <1>2, <2>1, <2>5, <2>8, <2>10, <2>12, <2>13 DEF Posted, Holding
  <2>15. QED
    BY <2>9, <2>10, <2>14 DEF LInv
<1>6. QED
  BY <1>4, <1>5 DEF BeginDisclosure

LEMMA FindExistingStep ==
    ASSUME LInv, NEW s \in Slots, FindExisting(s)
    PROVE  LInv'
<1> DEFINE c == job[s].target
<1>1. /\ job[s].pc = "history"
      /\ UNCHANGED <<record, reviewed, journal, posts, head, mention, now, up>>
  BY DEF FindExisting
<1>2. Live(s) /\ c \in Commits /\ c \in Slots /\ journal[c] # "none" /\ posts[c] \in Nat
  BY <1>1 DEF Live, Holding, LInv, Posted, Slots, TypeOK
<1>3. PICK l \in {"receipt", "publish"} : Goto(s, l) /\ (l = "publish" => posts[c] = 0)
  BY <1>1, <1>2 DEF FindExisting, LInv, Posted
<1>4. /\ job' \in [Slots -> Jobs] /\ job'[s].pc = l /\ job'[s].target = c
      /\ Claims' /\ \A t \in Slots : job'[t].pc \in Holding => t = s
  BY <1>1, <1>2, <1>3, LiveGoto DEF Holding
<1>5. TypeOK'
  BY <1>1, <1>4 DEF LInv, TypeOK
<1>6. Posted'
  BY <1>1, <1>2, <1>3, <1>4 DEF LInv, Posted, Holding
<1>7. QED
  BY <1>4, <1>5, <1>6 DEF LInv

(* The end of the review, with or without a result.                        *)
LEMMA EndingSteps ==
    ASSUME LInv, NEW s \in Slots, ReviewFails(s) \/ Complete(s) \/ FinalizationFails(s)
    PROVE  LInv'
<1>1. /\ Live(s) /\ End(s)
      /\ UNCHANGED <<journal, posts, head, mention, now, up>>
  BY DEF ReviewFails, Complete, FinalizationFails, Live, Holding
<1>2. job[s] \in Jobs
  BY <1>1, LiveJob
<1>3. /\ job[s].commit \in Slots /\ job[s].target \in Slots
      /\ job[s].count \in Nat /\ job[s].ended \in Nat /\ now \in Nat
  BY <1>2 DEF Jobs, LInv, TypeOK
<1>4. record' \in Records /\ reviewed' \subseteq Slots
  <2>1. PICK st \in {"Failed", "Done"}, c \in Slots, n \in Nat, t \in Nat :
          MarkReviewed(Record(st, c, n, t))
    BY <1>3 DEF ReviewFails, Complete, FinalizationFails
  <2>2. QED
    BY <2>1, RecordTypes DEF LInv
<1>5. job' \in [Slots -> Jobs] /\ job'[s].pc \in Unclaimed /\ OnlyJob(s)
  BY <1>1, EndJob DEF LInv, OnlyJob, Unclaimed
<1>6. TypeOK'
  BY <1>1, <1>4, <1>5 DEF LInv, TypeOK
<1>7. Claims' /\ \A t \in Slots : job'[t].pc \notin Holding
  BY <1>1, <1>5, EndStep
<1>8. Posted'
  BY <1>1, <1>7 DEF LInv, Posted, Holding
<1>9. QED
  BY <1>6, <1>7, <1>8 DEF LInv

LEMMA PublishStep ==
    ASSUME LInv, NEW s \in Slots, Publish(s)
    PROVE  LInv'
<1> DEFINE c == job[s].target
<1>1. /\ job[s].pc = "publish" /\ posts' = [posts EXCEPT ![c] = @ + 1]
      /\ UNCHANGED <<journal, head, mention, now, up>>
  BY DEF Publish
<1>2. Live(s) /\ c \in Commits /\ c \in Slots /\ journal[c] # "none" /\ posts[c] = 0
  BY <1>1 DEF Live, Holding, LInv, Posted, Slots
<1>3. job[s] \in Jobs
  BY <1>2, LiveJob
<1>4. posts' \in [Commits -> Nat]
        /\ \A d \in Commits : posts'[d] <= 1 /\ (journal'[d] = "none" => posts'[d] = 0)
  BY <1>1, <1>2 DEF LInv, Posted, TypeOK
<1>5. CASE Goto(s, "receipt") /\ UNCHANGED <<record, reviewed, used>>
  <2>1. /\ job' \in [Slots -> Jobs] /\ job'[s].pc = "receipt" /\ job'[s].target = c
        /\ Claims' /\ \A t \in Slots : job'[t].pc \in Holding => t = s
    BY <1>1, <1>2, <1>5, LiveGoto DEF Holding
  <2>2. TypeOK'
    BY <1>1, <1>4, <1>5, <2>1 DEF LInv, TypeOK
  <2>3. Posted'
    BY <1>2, <1>4, <2>1 DEF Posted, Holding
  <2>4. QED
    BY <2>1, <2>2, <2>3 DEF LInv
<1>6. CASE MarkReviewed(Record("Failed", c, job[s].count, job[s].ended)) /\ End(s)
  <2>1. job[s].count \in Nat /\ job[s].ended \in Nat
    BY <1>3 DEF Jobs
  <2>2. record' \in Records /\ reviewed' \subseteq Slots
    BY <1>2, <1>6, <2>1, RecordTypes DEF LInv
  <2>3. job' \in [Slots -> Jobs] /\ job'[s].pc \in Unclaimed /\ OnlyJob(s)
    BY <1>6, EndJob DEF LInv, OnlyJob, Unclaimed
  <2>4. TypeOK'
    BY <1>1, <1>4, <2>2, <2>3 DEF LInv, TypeOK
  <2>5. Claims' /\ \A t \in Slots : job'[t].pc \notin Holding
    BY <1>1, <1>2, <2>3, EndStep
  <2>6. Posted'
    BY <1>4, <2>5 DEF Posted, Holding
  <2>7. QED
    BY <2>4, <2>5, <2>6 DEF LInv
<1>7. QED
  BY <1>5, <1>6 DEF Publish

LEMMA FinishDisclosureStep ==
    ASSUME LInv, NEW s \in Slots, FinishDisclosure(s)
    PROVE  LInv'
<1> DEFINE c == job[s].target
<1>1. /\ job[s].pc = "receipt" /\ journal' = [journal EXCEPT ![c] = "published"]
      /\ Goto(s, "record")
      /\ UNCHANGED <<record, reviewed, posts, head, mention, now, up>>
  BY DEF FinishDisclosure
<1>2. Live(s) /\ c \in Commits
  BY <1>1 DEF Live, Holding, LInv, Posted
<1>3. /\ job' \in [Slots -> Jobs] /\ job'[s].pc = "record" /\ job'[s].target = c
      /\ Claims' /\ \A t \in Slots : job'[t].pc \in Holding => t = s
  BY <1>1, <1>2, LiveGoto DEF Holding
<1>4. journal' \in [Commits -> {"none", "publishing", "published"}]
  BY <1>1, <1>2 DEF LInv, TypeOK
<1>5. TypeOK'
  BY <1>1, <1>3, <1>4 DEF LInv, TypeOK
<1>6. \A d \in Commits : posts'[d] <= 1 /\ (journal'[d] = "none" => posts'[d] = 0)
  BY <1>1 DEF LInv, Posted, TypeOK
<1>7. Posted'
  BY <1>2, <1>3, <1>6 DEF Posted, Holding
<1>8. QED
  BY <1>3, <1>5, <1>7 DEF LInv

-----------------------------------------------------------------------------

(* Panics, crashes and restarts.                                           *)

(* The review whose job panics leaves its claim to grow stale.             *)
LEMMA PanicStep ==
    ASSUME LInv, NEW s \in Slots, Panic(s)
    PROVE  LInv'
<1>1. /\ job[s].pc # "idle" /\ job' = [job EXCEPT ![s] = [NoJob EXCEPT !.pc = "lost"]]
      /\ UNCHANGED <<record, reviewed, journal, posts, head, mention, now, up>>
  BY DEF Panic
<1>2. [NoJob EXCEPT !.pc = "lost"] \in Jobs /\ [NoJob EXCEPT !.pc = "lost"].pc = "lost"
  BY DEF NoJob, Jobs, Slots, Manual
<1>3. job' \in [Slots -> Jobs] /\ job'[s].pc = "lost" /\ OnlyJob(s)
  BY <1>1, <1>2, JobTypes DEF LInv, OnlyJob
<1>4. TypeOK'
  BY <1>1, <1>3 DEF LInv, TypeOK
<1>5. up
  BY <1>1 DEF LInv, Claims
<1>6. Claims' /\ Posted'
  BY <1>1, <1>3, <1>5, QuietStep DEF Unclaimed
<1>7. QED
  BY <1>4, <1>6 DEF LInv

LEMMA CrashStep ==
    ASSUME LInv, Crash \/ Restart
    PROVE  LInv'
<1>1. /\ \A s \in Slots : job'[s].pc = "idle"
      /\ job' \in [Slots -> Jobs]
  <2>1. CASE Crash
    <3>1. NoJob \in Jobs /\ NoJob.pc = "idle"
      BY DEF NoJob, Jobs, Slots, Manual
    <3>2. QED
      BY <2>1, <3>1 DEF Crash
  <2>2. CASE Restart
    BY <2>2 DEF Restart, LInv, TypeOK, Claims
  <2>3. QED
    BY <2>1, <2>2
<1>2. record' \in Records
  <2>1. CASE Crash
    BY <2>1 DEF Crash, LInv, TypeOK
  <2>2. CASE Restart
    BY <2>2 DEF Restart, LInv, TypeOK, Records
  <2>3. QED
    BY <2>1, <2>2
<1>3. UNCHANGED <<reviewed, journal, posts, head, mention, now>> /\ up' \in BOOLEAN
  BY DEF Crash, Restart
<1>4. TypeOK'
  BY <1>1, <1>2, <1>3 DEF LInv, TypeOK
<1>5. Claims'
  BY <1>1 DEF Claims, ClaimIsHeld, OneLiveReview, Live, Holding, Unclaimed
<1>6. Posted'
  BY <1>1, <1>3 DEF LInv, Posted, Holding
<1>7. QED
  BY <1>4, <1>5, <1>6 DEF LInv

LEMMA StepLInv ==
    ASSUME LInv, [Next]_vars, Undisturbed
    PROVE  LInv'
<1>1. CASE Push \/ Mention \/ Discover \/ RequestManual \/ Tick \/ Crash \/ Restart
  BY <1>1, WorldSteps, ArrivalSteps, TickStep, CrashStep
<1>2. ASSUME NEW s \in Slots, JobStep(s)
      PROVE  LInv'
  <2>1. CASE SkipRead(s) \/ SkipWrite(s)
    BY <2>1, SkipReadStep, SkipWriteStep DEF Undisturbed
  <2>2. CASE Begin(s) \/ Decide(s) \/ Adjust(s) \/ Count(s) \/ Lock(s) \/ LockRefused(s)
    BY <2>2, BeginStep, DecidingSteps, LockStep DEF Undisturbed
  <2>3. CASE \/ Stage(s) \/ Work(s) \/ BeginDisclosure(s) \/ FindExisting(s) \/ Publish(s)
             \/ FinishDisclosure(s) \/ Complete(s)
    BY <2>3, StageStep, WorkDone, BeginDisclosureStep, FindExistingStep, PublishStep,
       FinishDisclosureStep, EndingSteps
  <2>4. QED
    BY <1>2, <2>1, <2>2, <2>3 DEF JobStep
<1>3. ASSUME NEW s \in Slots, Trouble(s)
      PROVE  LInv'
  BY <1>3, EndingSteps, PanicStep DEF Trouble
<1>4. CASE UNCHANGED vars
  BY <1>4 DEF vars, LInv, TypeOK, Claims, ClaimIsHeld, OneLiveReview, Live, Posted
<1>5. QED
  BY <1>1, <1>2, <1>3, <1>4 DEF Next

-----------------------------------------------------------------------------

(* Every variable keeps its type in every behaviour, whatever the order of *)
(* steps and however long a review takes.                                  *)
THEOREM LifecycleTypes == Spec => []TypeOK
<1>1. Init => TypeOK
  BY InitLInv DEF LInv
<1>2. TypeOK /\ [Next]_vars => TypeOK'
  BY StepTypes
<1>3. QED
  BY <1>1, <1>2, PTL DEF Spec

(* The strengthened invariant holds throughout every undisturbed behaviour.*)
THEOREM LifecycleInvariance == Spec /\ []Undisturbed => []LInv
<1>1. Init => LInv
  BY InitLInv
<1>2. LInv /\ Undisturbed /\ [Next]_vars => LInv'
  BY StepLInv
<1>3. QED
  BY <1>1, <1>2, PTL DEF Spec

(* As long as reviews give up their claims before these count as stale and *)
(* no skip is about to be written beside one at work, lock_for_review and  *)
(* the stale-claim rule give each review the record for itself until it    *)
(* ends: no other claim, failure, restart or manual request changes it.    *)
THEOREM ClaimKept == Spec /\ []Undisturbed => []ClaimIsHeld
<1>1. LInv => ClaimIsHeld
  BY DEF LInv, Claims
<1>2. QED
  BY <1>1, LifecycleInvariance, PTL

(* Under the same conditions two reviews of one pull request are never at  *)
(* work at once, though jobs for several commits and manual requests are.  *)
THEOREM SingleReview == Spec /\ []Undisturbed => []OneLiveReview
<1>1. LInv => OneLiveReview
  BY DEF LInv, Claims
<1>2. QED
  BY <1>1, LifecycleInvariance, PTL

(* Under the same conditions the disclosure journal and the search for an  *)
(* existing review publish at most one review of a commit, across any      *)
(* number of crashes and failures.                                         *)
THEOREM SinglePost == Spec /\ []Undisturbed => []AtMostOnePost
<1>1. LInv => AtMostOnePost
  BY DEF LInv, Posted, AtMostOnePost
<1>2. QED
  BY <1>1, LifecycleInvariance, PTL

-----------------------------------------------------------------------------

(* The budget of retries.  While a job carries the decision to retry, it   *)
(* is the only one that does; a record it read is still there, or some     *)
(* review claimed or wrote it within the same unit of time, and then with  *)
(* no retries counted.  Named: which jobs work on which commit.  Counted:  *)
(* only a job that retries, or did, has a count to write.                  *)

Retrying(s) == job[s].pc \in {"adjust", "count", "lock"} /\ job[s].decision = "RetryFailed"

Named ==
    \A s \in Slots : job[s].pc \notin {"idle", "lost"} =>
        (job[s].origin = "Manual" <=> s = Manual) /\ (s # Manual => job[s].commit = s)

Counted ==
    \A s \in Slots :
        /\ ~Live(s) /\ ~(job[s].pc = "lock" /\ Retrying(s)) => job[s].count = 0
        /\ job[s].pc = "count" => job[s].decision = "RetryFailed"

BudgetLeft(c) ==
    \/ /\ record.at < now /\ Unfinished(record)
       /\ record.commit = c /\ record.retries < MaxRetries
    \/ record.at = now /\ (record.status = "InProgress" \/ record.retries = 0)

(* A review that began or ended within this unit, with no retries.         *)
Recent(t) ==
    /\ job[t].since = now /\ job[t].count = 0
    /\ job[t].pc \notin {"stage", "work"} => job[t].ended = now

Windows ==
    \A s \in Slots : Retrying(s) =>
        /\ s # Manual /\ MaxRetries > 0 /\ BudgetLeft(job[s].commit)
        /\ \A t \in Slots : Retrying(t) => t = s
        /\ \A t \in Slots : Live(t) => Recent(t)

BInv == LInv /\ Named /\ Counted /\ Windows

LEMMA InitBudget == Init => BInv
<1> SUFFICES ASSUME Init PROVE BInv
  OBVIOUS
<1>1. \A s \in Slots : job[s].pc = "idle" /\ job[s].count = 0
  BY DEF Init, NoJob
<1>2. Named /\ Counted /\ Windows
  BY <1>1 DEF Named, Counted, Windows, Retrying
<1>3. QED
  BY <1>2, InitLInv DEF BInv

(* The delay is never zero: a record written now is not retried now.       *)
LEMMA DelayIsPositive ==
    ASSUME NEW n \in Nat
    PROVE  RetryDelay(n) \in Nat /\ RetryDelay(n) > 0
<1>1. CASE n < Len(Powers)
  <2>1. Len(Powers) = 7
    BY DEF Powers
  <2>2. n \in {0, 1, 2, 3, 4, 5, 6}
    BY <1>1, <2>1
  <2>3. Powers[n + 1] \in {1, 2, 4, 8, 16, 32, 64}
    BY <2>2 DEF Powers
  <2>4. QED
    BY <2>3, LifecycleAssumption DEF RetryDelay
<1>2. CASE ~(n < Len(Powers))
  BY <1>2, LifecycleAssumption DEF RetryDelay
<1>3. QED
  BY <1>1, <1>2

(* A step of one job that leaves the record alone and decides nothing new. *)
LEMMA QuietBudget ==
    ASSUME BInv, NEW s \in Slots, OnlyJob(s), UNCHANGED <<record, now>>,
           job'[s].pc \in Unclaimed,
           job'[s].pc \notin {"idle", "lost"} =>
               (job'[s].origin = "Manual" <=> s = Manual) /\ (s # Manual => job'[s].commit = s),
           ~(job'[s].pc = "lock" /\ Retrying(s)') => job'[s].count = 0,
           job'[s].pc = "count" => job'[s].decision = "RetryFailed",
           Retrying(s)' => Retrying(s)
    PROVE  Named' /\ Counted' /\ Windows'
<1>1. \A t \in Slots \ {s} : job'[t] = job[t]
  BY DEF OnlyJob
<1>2. ~Live(s)'
  BY DEF Live, Holding, Unclaimed
<1>3. Named'
  BY <1>1 DEF BInv, Named
<1>4. \A t \in Slots \ {s} : (Retrying(t)' <=> Retrying(t)) /\ (Live(t)' <=> Live(t))
                               /\ (Recent(t)' <=> Recent(t))
  BY <1>1 DEF Retrying, Live, Recent
<1>5. Counted'
  BY <1>1, <1>4 DEF BInv, Counted
<1>6. Windows'
  <2> SUFFICES ASSUME NEW t \in Slots, Retrying(t)'
               PROVE  /\ t # Manual /\ MaxRetries > 0 /\ BudgetLeft(job[t].commit)'
                      /\ \A u \in Slots : Retrying(u)' => u = t
                      /\ \A u \in Slots : Live(u)' => Recent(u)'
    BY DEF Windows
  <2>1. Retrying(t)
    BY <1>4
  <2>2. /\ t # Manual /\ MaxRetries > 0 /\ BudgetLeft(job[t].commit)
        /\ \A u \in Slots : Retrying(u) => u = t
        /\ \A u \in Slots : Live(u) => Recent(u)
    BY <2>1 DEF BInv, Windows
  <2>3. job[t].commit = t
    BY <2>1, <2>2 DEF BInv, Named, Retrying
  <2>4. job'[t].commit = t
    BY <1>3, <2>2 DEF Named, Retrying
  <2>5. BudgetLeft(job[t].commit)'
    BY <2>2, <2>3, <2>4 DEF BudgetLeft, Unfinished
  <2>6. QED
    BY <1>2, <1>4, <2>2, <2>5
<1>7. QED
  BY <1>3, <1>5, <1>6

(* The review at work goes on.                                             *)
LEMMA LiveBudget ==
    ASSUME BInv, NEW s \in Slots, Live(s), OnlyJob(s), job'[s].pc \in Holding,
           UNCHANGED <<record, now>>,
           job'[s].commit = job[s].commit, job'[s].origin = job[s].origin,
           job'[s].since = job[s].since, job'[s].count = job[s].count,
           job'[s].pc \notin {"stage", "work"} =>
               job'[s].ended = IF job[s].pc = "work" THEN now ELSE job[s].ended,
           job[s].pc = "stage" => job'[s].pc = "work"
    PROVE  Named' /\ Counted' /\ Windows'
<1>1. \A t \in Slots \ {s} : job'[t] = job[t]
  BY DEF OnlyJob
<1>2. /\ Live(s)' /\ ~Retrying(s)' /\ ~Retrying(s)
      /\ job[s].pc \notin {"idle", "lost"} /\ job'[s].pc # "count"
  BY DEF Live, Holding, Retrying
<1>3. Named'
  BY <1>1, <1>2 DEF BInv, Named
<1>4. \A t \in Slots \ {s} : (Retrying(t)' <=> Retrying(t)) /\ (Live(t)' <=> Live(t))
                               /\ (Recent(t)' <=> Recent(t))
  BY <1>1 DEF Retrying, Live, Recent
<1>5. Counted'
  BY <1>1, <1>2, <1>4 DEF BInv, Counted
<1>6. Recent(s) => Recent(s)'
  BY <1>2 DEF Recent, Live, Holding
<1>7. Windows'
  <2> SUFFICES ASSUME NEW t \in Slots, Retrying(t)'
               PROVE  /\ t # Manual /\ MaxRetries > 0 /\ BudgetLeft(job[t].commit)'
                      /\ \A u \in Slots : Retrying(u)' => u = t
                      /\ \A u \in Slots : Live(u)' => Recent(u)'
    BY DEF Windows
  <2>1. Retrying(t) /\ job'[t] = job[t]
    BY <1>1, <1>2, <1>4
  <2>2. /\ t # Manual /\ MaxRetries > 0 /\ BudgetLeft(job[t].commit)
        /\ \A u \in Slots : Retrying(u) => u = t
        /\ \A u \in Slots : Live(u) => Recent(u)
    BY <2>1 DEF BInv, Windows
  <2>3. BudgetLeft(job[t].commit)'
    BY <2>1, <2>2 DEF BudgetLeft, Unfinished
  <2>4. QED
    BY <1>2, <1>4, <1>6, <2>2, <2>3
<1>8. QED
  BY <1>3, <1>5, <1>7

(* The review ends and writes the record: with its count, which is zero    *)
(* beside a job about to retry, and the time at which its work ended.      *)
LEMMA EndBudget ==
    ASSUME BInv, NEW s \in Slots, Live(s), End(s), UNCHANGED now,
           NEW st, NEW c, NEW n \in {0, job[s].count}, NEW a \in {now, job[s].ended},
           a = now \/ job[s].pc \notin {"stage", "work"},
           record' = Record(st, c, n, a)
    PROVE  Named' /\ Counted' /\ Windows'
<1>1. OnlyJob(s) /\ job'[s].pc = "idle" /\ job'[s].count = 0
  <2>1. job \in [Slots -> Jobs]
    BY DEF BInv, LInv, TypeOK
  <2>2. QED
    BY <2>1 DEF End, NoJob, OnlyJob
<1>2. \A t \in Slots \ {s} : job'[t] = job[t]
  BY <1>1 DEF OnlyJob
<1>3. ~Live(s)' /\ ~Retrying(s)'
  BY <1>1 DEF Live, Holding, Retrying
<1>4. Named'
  BY <1>1, <1>2 DEF BInv, Named
<1>5. \A t \in Slots \ {s} : (Retrying(t)' <=> Retrying(t)) /\ (Live(t)' <=> Live(t))
                               /\ (Recent(t)' <=> Recent(t))
  BY <1>2 DEF Retrying, Live, Recent
<1>6. Counted'
  BY <1>1, <1>2, <1>5 DEF BInv, Counted
<1>7. record'.at = a /\ record'.retries = n
  BY DEF Record
<1>8. Windows'
  <2> SUFFICES ASSUME NEW t \in Slots, Retrying(t)'
               PROVE  /\ t # Manual /\ MaxRetries > 0 /\ BudgetLeft(job[t].commit)'
                      /\ \A u \in Slots : Retrying(u)' => u = t
                      /\ \A u \in Slots : Live(u)' => Recent(u)'
    BY DEF Windows
  <2>1. Retrying(t)
    BY <1>3, <1>5
  <2>2. /\ t # Manual /\ MaxRetries > 0
        /\ \A u \in Slots : Retrying(u) => u = t
        /\ \A u \in Slots : Live(u) => Recent(u)
    BY <2>1 DEF BInv, Windows
  <2>3. a = now /\ n = 0
    BY <2>2 DEF Recent
  <2>4. BudgetLeft(job[t].commit)'
    BY <1>7, <2>3 DEF BudgetLeft
  <2>5. QED
    BY <1>3, <1>5, <2>2, <2>4
<1>9. QED
  BY <1>4, <1>6, <1>8

(* What a decision leaves in the job: nothing, or itself and the rest as   *)
(* it was.                                                                 *)
DecidedAs(s, d) ==
    /\ OnlyJob(s)
    /\ \/ job'[s].pc = "idle" /\ job'[s].count = 0
       \/ /\ job'[s].pc \in {"adjust", "count", "lock"} /\ job'[s].decision = d
          /\ job'[s].count = job[s].count /\ (job'[s].pc = "count" => d = "RetryFailed")
          /\ job'[s].origin = job[s].origin /\ job'[s].commit = job[s].commit

LEMMA DecisionFields ==
    ASSUME TypeOK, NEW s \in Slots, NEW d, NEW l \in {"adjust", "count", "lock"},
           job' = [job EXCEPT ![s].decision = d, ![s].pc = l], l = "count" => d = "RetryFailed"
    PROVE  DecidedAs(s, d)
<1>1. job \in [Slots -> Jobs] /\ job[s] \in Jobs
  BY DEF TypeOK
<1>2. job'[s] = [job[s] EXCEPT !.decision = d, !.pc = l] /\ OnlyJob(s)
  BY <1>1 DEF OnlyJob
<1>3. /\ job'[s].decision = d /\ job'[s].pc = l /\ job'[s].count = job[s].count
      /\ job'[s].origin = job[s].origin /\ job'[s].commit = job[s].commit
  BY <1>1, <1>2 DEF Jobs
<1>4. QED
  BY <1>2, <1>3 DEF DecidedAs

LEMMA AfterDecisionFields ==
    ASSUME TypeOK, NEW s \in Slots, NEW d, AfterDecision(s, d)
    PROVE  DecidedAs(s, d)
<1>1. CASE d = "Skip"
  <2>1. job \in [Slots -> Jobs]
    BY DEF TypeOK
  <2>2. QED
    BY <1>1, <2>1 DEF AfterDecision, End, NoJob, OnlyJob, DecidedAs
<1>2. CASE d = "RetryFailed"
  <2>1. job' = [job EXCEPT ![s].decision = d, ![s].pc = "count"]
    BY <1>2 DEF AfterDecision
  <2>2. QED
    BY <1>2, <2>1, DecisionFields
<1>3. CASE d # "Skip" /\ d # "RetryFailed"
  <2>1. job' = [job EXCEPT ![s].decision = d, ![s].pc = "lock"]
    BY <1>3 DEF AfterDecision
  <2>2. QED
    BY <2>1, DecisionFields
<1>4. QED
  BY <1>1, <1>2, <1>3

(* The decision to retry: its record is older than now and nobody's, and   *)
(* no other job has decided the same.                                      *)
LEMMA DecideBudget ==
    ASSUME BInv, OnTime, NEW s \in Slots, Decide(s)
    PROVE  Named' /\ Counted' /\ Windows'
<1> DEFINE d == Decision(record, job[s].commit, TRUE)
<1>1. /\ job[s].pc = "decide" /\ UNCHANGED <<record, now>>
      /\ \/ job[s].origin = "Manual" /\ AfterDecision(s, IF d = "FirstReview" THEN d ELSE "ReReview")
         \/ /\ job[s].origin # "Manual"
            /\ \/ job' = [job EXCEPT ![s].decision = d, ![s].pc = "adjust"]
               \/ AfterDecision(s, d)
  BY DEF Decide
<1>2. job \in [Slots -> Jobs] /\ job[s] \in Jobs /\ record \in Records /\ now \in Nat
  BY DEF BInv, LInv, TypeOK
<1>3. /\ (job[s].origin = "Manual" <=> s = Manual) /\ (s # Manual => job[s].commit = s)
      /\ job[s].count = 0
  BY <1>1 DEF BInv, Named, Counted, Live, Holding
<1>4. d = "RetryFailed" => /\ ~FreshClaim(record) /\ record.commit = job[s].commit
                           /\ Unfinished(record) /\ MayRetry(record)
  BY DEF Decision
<1> HIDE DEF d
<1>5. PICK e : DecidedAs(s, e) /\ (e = "RetryFailed" => job[s].origin # "Manual" /\ d = e)
  <2>1. CASE AfterDecision(s, IF d = "FirstReview" THEN d ELSE "ReReview")
    BY <2>1, AfterDecisionFields DEF BInv, LInv
  <2>2. CASE job[s].origin # "Manual" /\ AfterDecision(s, d)
    BY <2>2, AfterDecisionFields DEF BInv, LInv
  <2>3. CASE job[s].origin # "Manual" /\ job' = [job EXCEPT ![s].decision = d, ![s].pc = "adjust"]
    BY <2>3, DecisionFields DEF BInv, LInv
  <2>4. QED
    BY <1>1, <2>1, <2>2, <2>3
<1>6. CASE ~Retrying(s)'
  <2>1. OnlyJob(s) /\ job'[s].pc \in Unclaimed /\ job'[s].count = 0 /\ job'[s].pc # "count"
    BY <1>3, <1>5, <1>6 DEF DecidedAs, Unclaimed, Retrying
  <2>2. job'[s].pc # "idle" => (job'[s].origin = "Manual" <=> s = Manual)
                                 /\ (s # Manual => job'[s].commit = s)
    BY <1>3, <1>5 DEF DecidedAs
  <2>3. QED
    BY <1>1, <1>6, <2>1, <2>2, QuietBudget
<1>7. CASE Retrying(s)'
  <2>0. /\ d = "RetryFailed" /\ job[s].origin # "Manual" /\ OnlyJob(s)
        /\ job'[s].pc \in {"adjust", "count", "lock"} /\ job'[s].count = 0
        /\ job'[s].origin = job[s].origin /\ job'[s].commit = job[s].commit
    BY <1>3, <1>5, <1>7 DEF DecidedAs, Retrying
  <2>1. /\ s # Manual /\ job[s].commit = s /\ ~FreshClaim(record)
        /\ record.commit = s /\ Unfinished(record) /\ MayRetry(record)
    BY <1>3, <1>4, <2>0
  <2>2. record.at < now /\ record.retries < MaxRetries /\ record.retries \in Nat
    <3>1. record.retries \in Nat /\ record.at \in Nat
      BY <1>2 DEF Records
    <3>2. RetryDelay(record.retries) \in Nat /\ RetryDelay(record.retries) > 0
      BY <3>1, DelayIsPositive
    <3>3. QED
      BY <1>2, <2>1, <3>1, <3>2 DEF MayRetry
  <2>3. \A t \in Slots : ~Live(t)
    BY <2>1, NobodyAtWork DEF BInv
  <2>4. ~Retrying(s)
    BY <1>1 DEF Retrying
  <2>5. \A t \in Slots : ~Retrying(t)
    <3> SUFFICES ASSUME NEW t \in Slots, Retrying(t) PROVE FALSE
      OBVIOUS
    <3>1. BudgetLeft(job[t].commit) /\ t # Manual /\ job[t].commit = t
      BY DEF BInv, Windows, Named, Retrying
    <3>2. record.commit = t
      BY <1>2, <2>2, <3>1 DEF BudgetLeft, Records
    <3>3. QED
      BY <2>1, <2>4, <3>2
  <2>6. \A t \in Slots \ {s} : job'[t] = job[t]
    BY <2>0 DEF OnlyJob
  <2>7. \A t \in Slots : ~Live(t)' /\ (Retrying(t)' => t = s)
    BY <2>0, <2>3, <2>5, <2>6 DEF Live, Holding, Retrying
  <2>8. job'[s].pc # "idle" /\ job'[s].commit = s
    BY <2>0, <1>7, <2>1 DEF Retrying
  <2>9. Named'
    BY <1>1, <1>3, <2>0, <2>6, <2>8 DEF BInv, Named
  <2>10. Counted'
    BY <1>7, <2>0, <2>3, <2>5, <2>6 DEF BInv, Counted, Retrying
  <2>11. BudgetLeft(job[s].commit)'
    BY <1>1, <2>1, <2>2, <2>8 DEF BudgetLeft, Unfinished
  <2>12. MaxRetries > 0
    BY <2>2, LifecycleAssumption
  <2>13. Windows'
    BY <2>1, <2>7, <2>11, <2>12 DEF Windows
  <2>14. QED
    BY <2>9, <2>10, <2>13
<1>8. QED
  BY <1>6, <1>7

(* The claim: of the job that retries, which counts what it found, or of   *)
(* another one, which thereby takes the record from it.                    *)
LEMMA LockBudget ==
    ASSUME BInv, OnTime, NEW s \in Slots, Lock(s)
    PROVE  /\ Named' /\ Counted' /\ Windows'
           /\ Retrying(s) => record'.retries <= MaxRetries
<1>1. /\ job[s].pc = "lock" /\ ~FreshClaim(record)
      /\ record' = Record("InProgress", job[s].commit, ClaimedRetries(job[s].commit), now)
      /\ job' = [job EXCEPT ![s].pc = "stage", ![s].since = now, ![s].decision = "Skip"]
      /\ UNCHANGED now
  BY DEF Lock
<1>2. job \in [Slots -> Jobs] /\ job[s] \in Jobs /\ record \in Records /\ now \in Nat
  BY DEF BInv, LInv, TypeOK
<1>3. job'[s] = [job[s] EXCEPT !.pc = "stage", !.since = now, !.decision = "Skip"] /\ OnlyJob(s)
  BY <1>1, <1>2 DEF OnlyJob
<1>4. /\ job'[s].pc = "stage" /\ job'[s].since = now /\ job'[s].count = job[s].count
      /\ job'[s].origin = job[s].origin /\ job'[s].commit = job[s].commit
  BY <1>2, <1>3 DEF Jobs
<1>5. \A t \in Slots \ {s} : job'[t] = job[t]
  BY <1>3 DEF OnlyJob
<1>6. \A t \in Slots : ~Live(t)
  BY <1>1, NobodyAtWork DEF BInv
<1>7. Live(s)' /\ ~Retrying(s)' /\ job'[s].pc # "count"
  BY <1>4 DEF Live, Holding, Retrying
<1>8. \A t \in Slots \ {s} : (Retrying(t)' <=> Retrying(t)) /\ ~Live(t)'
  BY <1>5, <1>6 DEF Retrying, Live
<1>9. Named'
  BY <1>1, <1>4, <1>5 DEF BInv, Named
<1>10. Counted'
  BY <1>5, <1>7, <1>8, <1>6 DEF BInv, Counted
<1>11. record'.status = "InProgress" /\ record'.at = now
         /\ record'.retries = ClaimedRetries(job[s].commit)
  BY <1>1 DEF Record
<1>12. Windows'
  <2> SUFFICES ASSUME NEW t \in Slots, Retrying(t)'
               PROVE  /\ t # Manual /\ MaxRetries > 0 /\ BudgetLeft(job[t].commit)'
                      /\ \A u \in Slots : Retrying(u)' => u = t
                      /\ \A u \in Slots : Live(u)' => Recent(u)'
    BY DEF Windows
  <2>1. t # s /\ Retrying(t)
    BY <1>7, <1>8
  <2>2. /\ t # Manual /\ MaxRetries > 0
        /\ \A u \in Slots : Retrying(u) => u = t
    BY <2>1 DEF BInv, Windows
  <2>3. job[s].count = 0
    BY <1>6, <2>1, <2>2 DEF BInv, Counted
  <2>4. Recent(s)'
    BY <1>1, <1>4, <2>3 DEF Recent
  <2>5. BudgetLeft(job[t].commit)'
    BY <1>1, <1>11 DEF BudgetLeft
  <2>6. QED
    BY <1>7, <1>8, <2>2, <2>4, <2>5
<1>13. ASSUME Retrying(s) PROVE record'.retries <= MaxRetries
  <2>1. MaxRetries > 0 /\ BudgetLeft(job[s].commit)
    BY <1>13 DEF BInv, Windows
  <2>2. record.retries \in Nat /\ record.at \in Nat /\ MaxRetries \in Nat
    BY <1>2, LifecycleAssumption DEF Records
  <2>3. record.at = now => record.status # "InProgress"
    BY <1>1, <1>2, LifecycleAssumption DEF FreshClaim
  <2>4. record.retries < MaxRetries \/ record.retries = 0
    BY <2>1, <2>3 DEF BudgetLeft
  <2>5. ClaimedRetries(job[s].commit) \in {0, record.retries + 1}
    BY DEF ClaimedRetries
  <2>6. QED
    BY <1>11, <2>1, <2>2, <2>4, <2>5
<1>14. QED
  BY <1>9, <1>10, <1>12, <1>13

(* Pushes, mentions, time, crashes and restarts.  While a job retries, no  *)
(* time passes; a crash ends it.                                           *)
LEMMA WorldBudget ==
    ASSUME BInv, Push \/ Mention \/ Tick \/ Crash \/ Restart
    PROVE  Named' /\ Counted' /\ Windows'
<1>1. CASE Push \/ Mention
  BY <1>1 DEF Push, Mention, BInv, Named, Counted, Windows, Retrying, Live, Recent,
     BudgetLeft, Unfinished
<1>2. CASE Tick
  <2>1. UNCHANGED job /\ \A t \in Slots : ~Retrying(t)
    BY <1>2 DEF Tick, Deciding, Retrying
  <2>2. \A t \in Slots : ~Retrying(t)' /\ (Live(t)' <=> Live(t))
    BY <2>1 DEF Retrying, Live
  <2>3. QED
    BY <2>1, <2>2 DEF BInv, Named, Counted, Windows
<1>3. CASE Crash \/ Restart
  <2>1. \A t \in Slots : job'[t].pc = "idle" /\ job'[t].count = 0
    <3>1. CASE Crash
      BY <3>1 DEF Crash, NoJob
    <3>2. CASE Restart
      BY <3>2 DEF Restart, BInv, LInv, Claims, Counted, Live, Holding
    <3>3. QED
      BY <1>3, <3>1, <3>2
  <2>2. QED
    BY <2>1 DEF Named, Counted, Windows, Retrying
<1>4. QED
  BY <1>1, <1>2, <1>3

(* The steps before the claim that decide nothing new.                     *)
LEMMA WaitingBudget ==
    ASSUME BInv, NEW s \in Slots,
           \/ Begin(s) \/ SkipRead(s) \/ Adjust(s) \/ Count(s) \/ LockRefused(s) \/ Panic(s)
           \/ s = head /\ Discover
           \/ s = Manual /\ RequestManual
    PROVE  Named' /\ Counted' /\ Windows'
<1>1. job \in [Slots -> Jobs] /\ job[s] \in Jobs
  BY DEF BInv, LInv, TypeOK
<1>2. UNCHANGED <<record, now>>
  BY DEF Begin, SkipRead, Adjust, Count, LockRefused, Panic, Discover, RequestManual
<1>3. CASE LockRefused(s) \/ Panic(s) \/ End(s)
  <2>1. OnlyJob(s) /\ job'[s].pc \in {"idle", "lost"} /\ job'[s].count = 0
    BY <1>1, <1>3 DEF LockRefused, Panic, End, NoJob, OnlyJob
  <2>2. QED
    BY <1>2, <2>1, QuietBudget DEF Unclaimed, Retrying
<1>4. CASE Discover /\ s = head
  <2>1. PICK o \in Origins : job' = [job EXCEPT ![s].pc = "queued", ![s].origin = o,
                                                ![s].commit = s]
    BY <1>4 DEF Discover
  <2>2. o # "Manual" /\ s # Manual /\ job[s].pc = "idle" /\ job[s].count = 0
    <3>1. o # "Manual" /\ s # Manual
      BY <1>4, LifecycleAssumption DEF BInv, LInv, TypeOK, Commits, Manual
    <3>2. job[s].pc = "idle"
      BY <1>4 DEF Discover
    <3>3. job[s].count = 0
      BY <3>2 DEF BInv, Counted, Live, Holding
    <3>4. QED
      BY <3>1, <3>2, <3>3
  <2>3. /\ OnlyJob(s) /\ job'[s].pc = "queued" /\ job'[s].origin = o /\ job'[s].commit = s
        /\ job'[s].count = job[s].count
    <3>1. job'[s] = [job[s] EXCEPT !.pc = "queued", !.origin = o, !.commit = s] /\ OnlyJob(s)
      BY <1>1, <2>1 DEF OnlyJob
    <3>2. QED
      BY <1>1, <3>1 DEF Jobs
  <2>4. QED
    BY <1>2, <2>2, <2>3, QuietBudget DEF Unclaimed, Retrying
<1>5. CASE RequestManual /\ s = Manual
  <2>1. job[s].pc = "idle" /\ job[s].count = 0
    BY <1>5 DEF RequestManual, BInv, Counted, Live, Holding
  <2>2. /\ OnlyJob(s) /\ job'[s].pc = "queued" /\ job'[s].origin = "Manual"
        /\ job'[s].count = job[s].count
    <3>1. job'[s] = [job[s] EXCEPT !.pc = "queued", !.origin = "Manual"] /\ OnlyJob(s)
      BY <1>1, <1>5 DEF RequestManual, OnlyJob
    <3>2. QED
      BY <1>1, <3>1 DEF Jobs
  <2>3. QED
    BY <1>2, <1>5, <2>1, <2>2, QuietBudget DEF Unclaimed, Retrying
<1>6. CASE Begin(s) /\ ~End(s)
  <2> DEFINE c == IF s = Manual THEN head ELSE job[s].commit
             m == IF job[s].origin = "Poll" /\ MentionMode THEN mention ELSE 0
  <2>1. job[s].pc = "queued" /\ \E l \in {"skip", "decide"} :
          job' = [job EXCEPT ![s].commit = c, ![s].mention = m, ![s].pc = l]
    BY <1>6 DEF Begin
  <2>2. s # Manual => c = job[s].commit
    OBVIOUS
  <2> HIDE DEF c, m
  <2>7. PICK l \in {"skip", "decide"} :
          job' = [job EXCEPT ![s].commit = c, ![s].mention = m, ![s].pc = l]
    BY <2>1
  <2>3. job'[s] = [job[s] EXCEPT !.commit = c, !.mention = m, !.pc = l] /\ OnlyJob(s)
    BY <1>1, <2>7 DEF OnlyJob
  <2>4. /\ job'[s].pc = l /\ job'[s].commit = c /\ job'[s].origin = job[s].origin
        /\ job'[s].count = job[s].count
    BY <1>1, <2>3 DEF Jobs
  <2>5. /\ (job[s].origin = "Manual" <=> s = Manual) /\ (s # Manual => job[s].commit = s)
        /\ job[s].count = 0
    BY <2>1 DEF BInv, Named, Counted, Live, Holding
  <2>6. QED
    BY <1>2, <2>2, <2>3, <2>4, <2>5, QuietBudget DEF Unclaimed, Retrying
<1>10. CASE SkipRead(s) /\ ~End(s)
  <2>1. job[s].pc = "skip" /\ job' = [job EXCEPT ![s].pc = "skipped"]
    BY <1>10 DEF SkipRead, Goto
  <2>2. job'[s] = [job[s] EXCEPT !.pc = "skipped"] /\ OnlyJob(s)
    BY <1>1, <2>1 DEF OnlyJob
  <2>3. /\ job'[s].pc = "skipped" /\ job'[s].commit = job[s].commit
        /\ job'[s].origin = job[s].origin /\ job'[s].count = job[s].count
    BY <1>1, <2>2 DEF Jobs
  <2>4. /\ (job[s].origin = "Manual" <=> s = Manual) /\ (s # Manual => job[s].commit = s)
        /\ job[s].count = 0
    BY <2>1 DEF BInv, Named, Counted, Live, Holding
  <2>5. QED
    BY <1>2, <2>2, <2>3, <2>4, QuietBudget DEF Unclaimed, Retrying
<1>7. CASE Adjust(s)
  <2> DEFINE d == MentionAdjusted(job[s].decision, job[s].mention, record)
  <2>1. job[s].pc = "adjust" /\ AfterDecision(s, d)
    BY <1>7 DEF Adjust
  <2>2. d = "RetryFailed" => job[s].decision = "RetryFailed"
    BY DEF MentionAdjusted
  <2> HIDE DEF d
  <2>3. DecidedAs(s, d)
    BY <2>1, AfterDecisionFields DEF BInv, LInv
  <2>4. /\ (job[s].origin = "Manual" <=> s = Manual) /\ (s # Manual => job[s].commit = s)
        /\ job[s].count = 0
    BY <2>1 DEF BInv, Named, Counted, Live, Holding
  <2>5. Retrying(s)' => Retrying(s)
    BY <2>1, <2>2, <2>3 DEF DecidedAs, Retrying
  <2>6. QED
    BY <1>2, <2>3, <2>4, <2>5, QuietBudget DEF DecidedAs, Unclaimed
<1>8. CASE Count(s)
  <2> DEFINE n == IF record.status = "None" THEN 1 ELSE record.retries + 1
  <2>1. job[s].pc = "count" /\ job' = [job EXCEPT ![s].count = n, ![s].pc = "lock"]
    BY <1>8 DEF Count
  <2> HIDE DEF n
  <2>2. job'[s] = [job[s] EXCEPT !.count = n, !.pc = "lock"] /\ OnlyJob(s)
    BY <1>1, <2>1 DEF OnlyJob
  <2>3. /\ job'[s].pc = "lock" /\ job'[s].decision = job[s].decision
        /\ job'[s].origin = job[s].origin /\ job'[s].commit = job[s].commit
    BY <1>1, <2>2 DEF Jobs
  <2>4. (job[s].origin = "Manual" <=> s = Manual) /\ (s # Manual => job[s].commit = s)
    BY <2>1 DEF BInv, Named
  <2>5. Retrying(s)' => Retrying(s)
    BY <2>1, <2>3 DEF Retrying
  <2>6. job[s].decision = "RetryFailed"
    BY <2>1 DEF BInv, Counted
  <2>7. QED
    BY <1>2, <2>2, <2>3, <2>4, <2>5, <2>6, QuietBudget DEF Unclaimed, Retrying
<1>9. QED
  BY <1>3, <1>4, <1>5, <1>6, <1>7, <1>8, <1>10

(* A skip is written while nobody is at work, with no retries counted.     *)
LEMMA SkipWriteBudget ==
    ASSUME BInv, SkipsAlone, NEW s \in Slots, SkipWrite(s)
    PROVE  Named' /\ Counted' /\ Windows'
<1>1. /\ job[s].pc = "skipped" /\ End(s) /\ UNCHANGED now
      /\ record' = Record("Skipped", job[s].commit, 0, now)
  BY DEF SkipWrite, MarkReviewed
<1>2. job \in [Slots -> Jobs]
  BY DEF BInv, LInv, TypeOK
<1>3. OnlyJob(s) /\ job'[s].pc = "idle" /\ job'[s].count = 0
  BY <1>1, <1>2 DEF End, NoJob, OnlyJob
<1>4. \A t \in Slots \ {s} : job'[t] = job[t]
  BY <1>3 DEF OnlyJob
<1>5. \A t \in Slots : ~Live(t)
  BY <1>1 DEF SkipsAlone
<1>6. ~Live(s)' /\ ~Retrying(s)'
  BY <1>3 DEF Live, Holding, Retrying
<1>7. \A t \in Slots \ {s} : (Retrying(t)' <=> Retrying(t)) /\ ~Live(t)'
  BY <1>4, <1>5 DEF Retrying, Live
<1>8. Named'
  BY <1>3, <1>4 DEF BInv, Named
<1>9. Counted'
  BY <1>3, <1>4, <1>5, <1>6, <1>7 DEF BInv, Counted
<1>10. Windows'
  <2> SUFFICES ASSUME NEW t \in Slots, Retrying(t)'
               PROVE  /\ t # Manual /\ MaxRetries > 0 /\ BudgetLeft(job[t].commit)'
                      /\ \A u \in Slots : Retrying(u)' => u = t
                      /\ \A u \in Slots : Live(u)' => Recent(u)'
    BY DEF Windows
  <2>1. Retrying(t)
    BY <1>6, <1>7
  <2>2. /\ t # Manual /\ MaxRetries > 0
        /\ \A u \in Slots : Retrying(u) => u = t
    BY <2>1 DEF BInv, Windows
  <2>3. BudgetLeft(job[t].commit)'
    BY <1>1 DEF BudgetLeft, Record
  <2>4. QED
    BY <1>6, <1>7, <2>2, <2>3
<1>11. QED
  BY <1>8, <1>9, <1>10

(* The steps of the review at work.                                        *)
LEMMA WorkingBudget ==
    ASSUME BInv, NEW s \in Slots,
           \/ Stage(s) \/ Work(s) \/ BeginDisclosure(s) \/ FindExisting(s) \/ Publish(s)
           \/ FinishDisclosure(s) \/ Complete(s) \/ ReviewFails(s) \/ FinalizationFails(s)
    PROVE  Named' /\ Counted' /\ Windows'
<1>1. job \in [Slots -> Jobs] /\ job[s] \in Jobs /\ DOMAIN job = Slots
  BY DEF BInv, LInv, TypeOK
<1>2. Live(s) /\ UNCHANGED now
  BY DEF Stage, Work, BeginDisclosure, FindExisting, Publish, FinishDisclosure, Complete,
     ReviewFails, FinalizationFails, Live, Holding
<1>3. ASSUME NEW l \in Holding \ {"stage", "work"}, Goto(s, l), UNCHANGED record,
             job[s].pc \notin {"stage", "work"}
      PROVE  Named' /\ Counted' /\ Windows'
  <2>1. job'[s] = [job[s] EXCEPT !.pc = l] /\ OnlyJob(s)
    BY <1>1, <1>3 DEF Goto, OnlyJob
  <2>2. /\ job'[s].pc = l /\ job'[s].commit = job[s].commit /\ job'[s].origin = job[s].origin
        /\ job'[s].since = job[s].since /\ job'[s].count = job[s].count
        /\ job'[s].ended = job[s].ended
    BY <1>1, <2>1 DEF Jobs
  <2>3. QED
    BY <1>2, <1>3, <2>1, <2>2, LiveBudget
<1>4. CASE Stage(s)
  <2>1. /\ job[s].pc = "stage" /\ UNCHANGED record
        /\ job'[s] = [job[s] EXCEPT !.pc = "work", !.target = head] /\ OnlyJob(s)
    BY <1>1, <1>4 DEF Stage, OnlyJob
  <2>2. /\ job'[s].pc = "work" /\ job'[s].commit = job[s].commit
        /\ job'[s].origin = job[s].origin
        /\ job'[s].since = job[s].since /\ job'[s].count = job[s].count
    BY <1>1, <2>1 DEF Jobs
  <2>3. QED
    BY <1>2, <2>1, <2>2, LiveBudget DEF Holding
<1>5. CASE Work(s)
  <2>1. PICK f \in BOOLEAN : job' = [job EXCEPT ![s].pc = "journal", ![s].ended = now,
                                                ![s].findings = f]
    BY <1>5 DEF Work
  <2>2. job[s].pc = "work" /\ UNCHANGED record
    BY <1>5 DEF Work
  <2>3. /\ job'[s] = [job[s] EXCEPT !.pc = "journal", !.ended = now, !.findings = f]
        /\ OnlyJob(s)
    BY <1>1, <2>1 DEF OnlyJob
  <2>4. /\ job'[s].pc = "journal" /\ job'[s].ended = now
        /\ job'[s].commit = job[s].commit /\ job'[s].origin = job[s].origin
        /\ job'[s].since = job[s].since /\ job'[s].count = job[s].count
    BY <1>1, <2>3 DEF Jobs
  <2>5. QED
    BY <1>2, <2>2, <2>3, <2>4, LiveBudget DEF Holding
<1>6. CASE BeginDisclosure(s)
  <2> DEFINE l == IF job[s].findings THEN "history" ELSE "receipt"
             b == (journal[job[s].target] = "publishing")
  <2>1. job[s].pc = "journal" /\ UNCHANGED record
    BY <1>6 DEF BeginDisclosure
  <2>2. CASE Goto(s, "record")
    BY <1>3, <2>1, <2>2 DEF Holding
  <2>3. CASE job' = [job EXCEPT ![s].pc = l, ![s].recovering = b]
    <3>1. l \in {"history", "receipt"}
      OBVIOUS
    <3> HIDE DEF l, b
    <3>2. job'[s] = [job[s] EXCEPT !.pc = l, !.recovering = b] /\ OnlyJob(s)
      BY <1>1, <2>3 DEF OnlyJob
    <3>3. /\ job'[s].pc = l /\ job'[s].ended = job[s].ended
          /\ job'[s].commit = job[s].commit /\ job'[s].origin = job[s].origin
          /\ job'[s].since = job[s].since /\ job'[s].count = job[s].count
      BY <1>1, <3>2 DEF Jobs
    <3>4. QED
      BY <1>2, <2>1, <3>1, <3>2, <3>3, LiveBudget DEF Holding
  <2>4. QED
    BY <1>6, <2>2, <2>3 DEF BeginDisclosure
<1>7. CASE FindExisting(s)
  <2>1. PICK l \in {"receipt", "publish"} : Goto(s, l)
    BY <1>7 DEF FindExisting
  <2>2. job[s].pc = "history" /\ UNCHANGED record
    BY <1>7 DEF FindExisting
  <2>3. QED
    BY <1>3, <2>1, <2>2 DEF Holding
<1>8. CASE FinishDisclosure(s)
  BY <1>3, <1>8 DEF FinishDisclosure, Holding
<1>9. CASE Publish(s) /\ Goto(s, "receipt")
  <2>1. job[s].pc = "publish"
    BY <1>9 DEF Publish
  <2>2. CASE UNCHANGED record
    BY <1>3, <1>9, <2>1, <2>2 DEF Holding
  <2>3. CASE End(s)
    BY <1>1, <1>9, <2>3 DEF Goto, End, NoJob, Jobs
  <2>4. QED
    BY <1>9, <2>2, <2>3 DEF Publish
<1>10. CASE \/ Complete(s) \/ ReviewFails(s) \/ FinalizationFails(s)
            \/ Publish(s) /\ ~Goto(s, "receipt")
  <2>1. /\ End(s)
        /\ \E st \in {"Done", "Failed"}, c \in {job[s].commit, job[s].target},
              n \in {0, job[s].count}, a \in {now, job[s].ended} :
              /\ a = now \/ job[s].pc \notin {"stage", "work"}
              /\ MarkReviewed(Record(st, c, n, a))
    <3>1. CASE ReviewFails(s)
      BY <3>1 DEF ReviewFails
    <3>2. CASE Complete(s)
      BY <3>2 DEF Complete
    <3>3. CASE FinalizationFails(s)
      BY <3>3 DEF FinalizationFails
    <3>4. CASE Publish(s) /\ ~Goto(s, "receipt")
      BY <3>4 DEF Publish
    <3>5. QED
      BY <1>10, <3>1, <3>2, <3>3, <3>4
  <2>2. PICK st \in {"Done", "Failed"}, c \in {job[s].commit, job[s].target},
             n \in {0, job[s].count}, a \in {now, job[s].ended} :
               /\ a = now \/ job[s].pc \notin {"stage", "work"}
               /\ MarkReviewed(Record(st, c, n, a))
    BY <2>1
  <2>3. record' = Record(st, c, n, a)
    BY <2>2 DEF MarkReviewed
  <2>4. QED
    BY <1>2, <2>1, <2>2, <2>3, EndBudget
<1>11. QED
  BY <1>4, <1>5, <1>6, <1>7, <1>8, <1>9, <1>10

LEMMA StepBudget ==
    ASSUME BInv, [Next]_vars, Undisturbed
    PROVE  BInv'
<1>1. LInv'
  BY StepLInv DEF BInv
<1>2. CASE Push \/ Mention \/ Tick \/ Crash \/ Restart
  BY <1>1, <1>2, WorldBudget DEF BInv
<1>3. CASE Discover
  <2>1. PICK s \in Slots : s = head
    BY DEF BInv, LInv, TypeOK, Slots
  <2>2. QED
    BY <1>1, <1>3, <2>1, WaitingBudget DEF BInv
<1>4. CASE RequestManual
  <2>1. Manual \in Slots
    BY DEF Slots
  <2>2. QED
    BY <1>1, <1>4, <2>1, WaitingBudget DEF BInv
<1>5. ASSUME NEW s \in Slots, JobStep(s) \/ Trouble(s)
      PROVE  BInv'
  <2>1. CASE SkipWrite(s)
    BY <1>1, <2>1, SkipWriteBudget DEF BInv, Undisturbed
  <2>2. CASE Begin(s) \/ SkipRead(s) \/ Adjust(s) \/ Count(s) \/ LockRefused(s) \/ Panic(s)
    BY <1>1, <2>2, WaitingBudget DEF BInv
  <2>3. CASE Decide(s) \/ Lock(s)
    BY <1>1, <2>3, DecideBudget, LockBudget DEF BInv, Undisturbed
  <2>4. CASE \/ Stage(s) \/ Work(s) \/ BeginDisclosure(s) \/ FindExisting(s) \/ Publish(s)
             \/ FinishDisclosure(s) \/ Complete(s) \/ ReviewFails(s) \/ FinalizationFails(s)
    BY <1>1, <2>4, WorkingBudget DEF BInv
  <2>5. QED
    BY <1>5, <2>1, <2>2, <2>3, <2>4 DEF JobStep, Trouble
<1>6. CASE UNCHANGED vars
  BY <1>1, <1>6 DEF vars, BInv, Named, Counted, Windows, Retrying, Live, Recent,
     BudgetLeft, Unfinished
<1>7. QED
  BY <1>2, <1>3, <1>4, <1>5, <1>6 DEF Next

(* Only Lock takes a claim.                                                *)
LEMMA TakingIsLocking ==
    ASSUME BInv, Next, NEW s \in Slots, TakesClaim(s)
    PROVE  Lock(s)
<1>1. job \in [Slots -> Jobs] /\ job[s].pc = "lock" /\ job'[s].pc = "stage"
  BY DEF BInv, LInv, TypeOK, TakesClaim
<1>2. ~(Push \/ Mention \/ Tick \/ Crash \/ Restart)
  BY <1>1 DEF Push, Mention, Tick, Crash, Restart, NoJob
<1>3. ~Discover /\ ~RequestManual
  <2>1. ASSUME Discover PROVE FALSE
    <3>1. job[head].pc = "idle" /\ (s # head => job'[s] = job[s])
      BY <1>1, <2>1 DEF Discover
    <3>2. QED
      BY <1>1, <3>1
  <2>2. ASSUME RequestManual PROVE FALSE
    <3>1. job[Manual].pc = "idle" /\ (s # Manual => job'[s] = job[s])
      BY <1>1, <2>2 DEF RequestManual
    <3>2. QED
      BY <1>1, <3>1
  <2>3. QED
    BY <2>1, <2>2
<1>4. PICK t \in Slots : JobStep(t) \/ Trouble(t)
  BY <1>2, <1>3 DEF Next
<1>5. t = s
  <2>1. job'[s] = job[s] \/ t = s
    BY <1>1, <1>4 DEF JobStep, Trouble, Begin, SkipRead, SkipWrite, Decide, Adjust, Count, Lock,
       LockRefused, Stage, Work, BeginDisclosure, FindExisting, Publish, FinishDisclosure,
       Complete, ReviewFails, FinalizationFails, Panic, AfterDecision, Goto, End
  <2>2. QED
    BY <1>1, <2>1
<1>6. ~LockRefused(s) /\ ~Panic(s)
  BY <1>1 DEF LockRefused, Panic, End, NoJob
<1>7. QED
  BY <1>1, <1>4, <1>5, <1>6 DEF JobStep, Trouble, Begin, SkipRead, SkipWrite, Decide, Adjust,
     Count, Stage, Work, BeginDisclosure, FindExisting, Publish, FinishDisclosure, Complete,
     ReviewFails, FinalizationFails

(* The checks of should_review (retry count, delay, age of a claim) and    *)
(* the counting in lock_for_review, two transactions apart, together keep  *)
(* the budget of retries: no retry is claimed beyond it, whatever other    *)
(* jobs, manual requests, panics, crashes and mentions do in between, as   *)
(* long as the behaviour is undisturbed.                                   *)
THEOREM RetriesStayBudgeted == Spec /\ []Undisturbed => RetriesAreBudgeted
<1>1. Init => BInv
  BY InitBudget
<1>2. BInv /\ Undisturbed /\ [Next]_vars => BInv'
  BY StepBudget
<1>3. BInv /\ Undisturbed /\ [Next]_vars =>
        [\A s \in Slots : TakesClaim(s) /\ job[s].decision = "RetryFailed" =>
            record'.retries <= MaxRetries]_vars
  <2> SUFFICES ASSUME BInv, Undisturbed, Next, NEW s \in Slots, TakesClaim(s),
                      job[s].decision = "RetryFailed"
               PROVE  record'.retries <= MaxRetries
    OBVIOUS
  <2>1. Lock(s)
    BY TakingIsLocking
  <2>2. Retrying(s)
    BY <2>1 DEF Lock, Retrying
  <2>3. QED
    BY <2>1, <2>2, LockBudget DEF Undisturbed
<1>4. QED
  BY <1>1, <1>2, <1>3, PTL DEF Spec, RetriesAreBudgeted

-----------------------------------------------------------------------------

(* Instances of the model whose every behaviour is undisturbed: the limit  *)
(* of a review is within the age of a stale claim, and the pull request is *)
(* reviewed without being mentioned, so that nothing writes a skip.        *)

Bounded ==
    /\ \A s \in Slots : Live(s) => now <= job[s].since + ReviewLimit
    /\ \A s \in Slots : job[s].pc \notin {"skip", "skipped"}

(* What a step of job s has to keep.                                       *)
LEMMA BoundedStep ==
    ASSUME TypeOK, Bounded, NEW s \in Slots, OnlyJob(s), UNCHANGED now,
           job'[s].pc \notin {"skip", "skipped"},
           job'[s].pc \in Holding =>
               (job'[s].since = now \/ (Live(s) /\ job'[s].since = job[s].since))
    PROVE  Bounded'
<1>1. \A t \in Slots \ {s} : job'[t] = job[t]
  BY DEF OnlyJob
<1>2. now \in Nat /\ ReviewLimit \in Nat
  BY LifecycleAssumption DEF TypeOK
<1>3. job'[s].pc \in Holding => now <= job'[s].since + ReviewLimit
  BY <1>2 DEF Bounded
<1>4. QED
  BY <1>1, <1>3 DEF Bounded, Live

LEMMA StepBounded ==
    ASSUME TypeOK, Bounded, [Next]_vars, ~Backport
    PROVE  Bounded'
<1>0. job \in [Slots -> Jobs] /\ now \in Nat /\ ReviewLimit \in Nat
  BY LifecycleAssumption DEF TypeOK
<1>1. CASE Push \/ Mention \/ Restart \/ UNCHANGED vars
  BY <1>1 DEF Push, Mention, Restart, vars, Bounded, Live
<1>2. CASE Tick
  <2>1. \A s \in Slots : Live(s) => job[s].since \in Nat
    BY <1>0 DEF Jobs
  <2>2. QED
    BY <1>0, <1>2, <2>1 DEF Tick, Bounded, Live
<1>3. CASE Crash
  BY <1>3 DEF Crash, NoJob, Bounded, Live, Holding
<1>4. CASE Discover \/ RequestManual
  <2>1. PICK s \in Slots : job'[s].pc = "queued" /\ OnlyJob(s)
    BY <1>4, ArrivalJob
  <2>2. QED
    BY <1>4, <2>1, BoundedStep DEF Discover, RequestManual, Holding
<1>5. ASSUME NEW s \in Slots, JobStep(s) \/ Trouble(s)
      PROVE  Bounded'
  <2>0. UNCHANGED now
    BY <1>5 DEF JobStep, Trouble, Begin, SkipRead, SkipWrite, Decide, Adjust, Count, Lock,
       LockRefused, Stage, Work, BeginDisclosure, FindExisting, Publish, FinishDisclosure,
       Complete, ReviewFails, FinalizationFails, Panic
  <2>1. ~SkipRead(s) /\ ~SkipWrite(s)
    BY DEF SkipRead, SkipWrite, Bounded
  <2>2. CASE End(s)
    <3>1. OnlyJob(s) /\ job'[s].pc = "idle"
      BY <2>2, EndJob DEF OnlyJob
    <3>2. QED
      BY <2>0, <3>1, BoundedStep DEF Holding
  <2>3. ASSUME NEW l \in Holding, Goto(s, l), Live(s)
        PROVE  Bounded'
    <3>1. job'[s] = [job[s] EXCEPT !.pc = l] /\ OnlyJob(s)
      BY <2>3, GotoJob DEF OnlyJob
    <3>2. job'[s].pc = l /\ job'[s].since = job[s].since
      BY <1>0, <3>1 DEF Jobs
    <3>3. QED
      BY <2>0, <2>3, <3>1, <3>2, BoundedStep DEF Holding
  <2>4. CASE Begin(s) /\ ~End(s)
    <3>1. OnlyJob(s) /\ job'[s].pc = "decide"
      BY <1>0, <2>4 DEF Begin, OnlyJob, Jobs
    <3>2. QED
      BY <2>0, <3>1, BoundedStep DEF Holding
  <2>5. ASSUME NEW d, AfterDecision(s, d)
        PROVE  Bounded'
    <3>1. DecidedAs(s, d)
      BY <2>5, AfterDecisionFields
    <3>2. QED
      BY <2>0, <3>1, BoundedStep DEF DecidedAs, Holding
  <2>6. CASE Decide(s) \/ Adjust(s)
    <3>1. ASSUME NEW d, job' = [job EXCEPT ![s].decision = d, ![s].pc = "adjust"]
          PROVE  Bounded'
      <4>1. DecidedAs(s, d)
        BY <3>1, DecisionFields
      <4>2. QED
        BY <2>0, <4>1, BoundedStep DEF DecidedAs, Holding
    <3>2. QED
      BY <2>5, <2>6, <3>1 DEF Decide, Adjust
  <2>7. CASE Count(s)
    <3>1. OnlyJob(s) /\ job'[s].pc = "lock"
      BY <1>0, <2>7 DEF Count, OnlyJob, Jobs
    <3>2. QED
      BY <2>0, <3>1, BoundedStep DEF Holding
  <2>8. CASE Lock(s)
    <3>1. OnlyJob(s) /\ job'[s] = [job[s] EXCEPT !.pc = "stage", !.since = now,
                                                  !.decision = "Skip"]
      BY <1>0, <2>8 DEF Lock, OnlyJob
    <3>2. job'[s].pc = "stage" /\ job'[s].since = now
      BY <1>0, <3>1 DEF Jobs
    <3>3. job'[s].pc \notin {"skip", "skipped"}
      BY <3>2
    <3>4. QED
      BY <2>0, <3>1, <3>2, <3>3, BoundedStep
  <2>9. CASE Stage(s)
    <3>1. OnlyJob(s) /\ job'[s] = [job[s] EXCEPT !.pc = "work", !.target = head]
      BY <1>0, <2>9 DEF Stage, OnlyJob
    <3>2. job'[s].pc = "work" /\ job'[s].since = job[s].since /\ Live(s)
      BY <1>0, <2>9, <3>1 DEF Jobs, Stage, Live, Holding
    <3>3. QED
      BY <2>0, <3>1, <3>2, BoundedStep DEF Holding
  <2>10. CASE Work(s)
    <3>1. PICK f \in BOOLEAN : job' = [job EXCEPT ![s].pc = "journal", ![s].ended = now,
                                                  ![s].findings = f]
      BY <2>10 DEF Work
    <3>2. OnlyJob(s) /\ job'[s] = [job[s] EXCEPT !.pc = "journal", !.ended = now,
                                                  !.findings = f]
      BY <1>0, <3>1 DEF OnlyJob
    <3>3. job'[s].pc = "journal" /\ job'[s].since = job[s].since /\ Live(s)
      BY <1>0, <2>10, <3>2 DEF Jobs, Work, Live, Holding
    <3>4. QED
      BY <2>0, <3>2, <3>3, BoundedStep DEF Holding
  <2>11. CASE BeginDisclosure(s)
    <3> DEFINE l == IF job[s].findings THEN "history" ELSE "receipt"
               b == (journal[job[s].target] = "publishing")
    <3>1. Live(s) /\ l \in {"history", "receipt"}
      BY <2>11 DEF BeginDisclosure, Live, Holding
    <3>2. \/ Goto(s, "record")
          \/ job' = [job EXCEPT ![s].pc = l, ![s].recovering = b]
      BY <2>11 DEF BeginDisclosure
    <3> HIDE DEF l, b
    <3>3. CASE job' = [job EXCEPT ![s].pc = l, ![s].recovering = b]
      <4>1. OnlyJob(s) /\ job'[s] = [job[s] EXCEPT !.pc = l, !.recovering = b]
        BY <1>0, <3>3 DEF OnlyJob
      <4>2. job'[s].pc = l /\ job'[s].since = job[s].since
        BY <1>0, <4>1 DEF Jobs
      <4>3. QED
        BY <2>0, <3>1, <4>1, <4>2, BoundedStep
    <3>4. QED
      BY <2>3, <3>1, <3>2, <3>3 DEF Holding
  <2>12. CASE (FindExisting(s) \/ Publish(s) \/ FinishDisclosure(s)) /\ ~End(s)
    <3>1. Live(s) /\ \E l \in Holding : Goto(s, l)
      BY <2>12 DEF FindExisting, Publish, FinishDisclosure, Live, Holding
    <3>2. QED
      BY <2>3, <3>1
  <2>13. CASE Panic(s)
    <3>1. OnlyJob(s) /\ job'[s].pc = "lost"
      BY <1>0, <2>13 DEF Panic, NoJob, OnlyJob
    <3>2. QED
      BY <2>0, <3>1, BoundedStep DEF Holding
  <2>14. QED
    BY <1>5, <2>1, <2>2, <2>4, <2>6, <2>7, <2>8, <2>9, <2>10, <2>11, <2>12, <2>13
       DEF JobStep, Trouble, LockRefused, Complete, ReviewFails, FinalizationFails
<1>6. QED
  BY <1>1, <1>2, <1>3, <1>4, <1>5 DEF Next

(* When the limit of a review is within the age of a stale claim and the   *)
(* pull request is no unmentioned backport, every behaviour is undisturbed:*)
(* the theorems above hold without a condition on the behaviour.           *)
THEOREM UndisturbedInstances ==
    ASSUME ReviewLimit <= StaleAfter, ~Backport
    PROVE  Spec => []Undisturbed
<1>1. Init => Bounded
  BY DEF Init, NoJob, Bounded, Live, Holding
<1>2. TypeOK /\ Bounded /\ [Next]_vars => Bounded'
  BY StepBounded
<1>3. TypeOK /\ Bounded => Undisturbed
  <2> SUFFICES ASSUME TypeOK, Bounded, NEW s \in Slots, Live(s)
               PROVE  now <= job[s].since + StaleAfter /\ SkipsAlone
    BY DEF Undisturbed, OnTime, Bounded, SkipsAlone
  <2>1. job[s].since \in Nat /\ now \in Nat
    BY DEF TypeOK, Jobs
  <2>2. QED
    BY <2>1, LifecycleAssumption DEF Bounded, SkipsAlone
<1>4. QED
  BY <1>1, <1>2, <1>3, LifecycleTypes, PTL DEF Spec

=============================================================================
