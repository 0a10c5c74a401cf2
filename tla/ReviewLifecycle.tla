--------------------------- MODULE ReviewLifecycle ---------------------------
(***************************************************************************)
(* The life of one pull request under one review kind: the durable record  *)
(* the daemon claims and updates (src/src/state.rs), the jobs that work on *)
(* it (process_daemon_job, src/src/daemon.rs) and the publication of their *)
(* result (src/src/finalizer.rs, src/src/disclose.rs).                     *)
(*                                                                         *)
(* The scheduler runs one job for each target at a time; a target names a  *)
(* commit, or nothing yet for a manual request, so jobs for several        *)
(* commits of the pull request and a manual one overlap.  Every read and   *)
(* write of the database is a step of its own, and so is every call to the *)
(* forge that others can see.  The daemon may crash between any two steps. *)
(*                                                                         *)
(* Time is in units of the first retry delay (300 s); jitter and the       *)
(* staggered delay of migrated records are left out.                       *)
(***************************************************************************)
EXTENDS Integers, FiniteSets, Sequences

CONSTANTS
    MaxCommit,   \* commits 1..MaxCommit are pushed in this order
    Origins,     \* who asks for reviews of a commit: "Poll", "Generated"
    MaxRetries,  \* --max-review-retries
    DelayCap,    \* the retry delay stops doubling here: 72 in the code
    StaleAfter,  \* age from which a claim counts as abandoned
    ReviewLimit, \* longest time a job holds its claim
    MentionMode, \* trigger_mention is configured
    Backport,    \* the pull request is a backport, excluded unless mentioned
    MaxCrashes, MaxPanics, MaxManual, MaxMentions, MaxFailures \* bounds

ASSUME LifecycleAssumption ==
    /\ MaxCommit \in Nat \ {0}
    /\ Origins \subseteq {"Poll", "Generated"}
    /\ MaxRetries \in Nat /\ DelayCap \in 1..72
    /\ StaleAfter \in Nat /\ ReviewLimit \in Nat
    /\ MentionMode \in BOOLEAN /\ Backport \in BOOLEAN

VARIABLES
    record,   \* the PR_STATE record
    reviewed, \* commits whose COMMIT_STATE record is a completed review
    journal,  \* commit -> DISCLOSURE_STATE record
    posts,    \* commit -> marked reviews on the pull request
    head,     \* head commit of the pull request
    mention,  \* time of the newest trusted mention, 0 when there is none
    now,
    up,       \* the daemon runs
    job,      \* target -> the job of that target
    used      \* how much of each bound is spent

vars == <<record, reviewed, journal, posts, head, mention, now, up, job, used>>

Commits == 1..MaxCommit
Manual == 0
Slots == Commits \cup {Manual}

NoRecord == [status |-> "None", commit |-> 0, retries |-> 0, at |-> 0]
NoJob == [pc |-> "idle", origin |-> "Poll", commit |-> Manual, mention |-> 0,
          decision |-> "Skip", count |-> 0, since |-> 0, target |-> Manual, ended |-> 0,
          findings |-> FALSE, recovering |-> FALSE]

Spend(b) == used' = [used EXCEPT ![b] = @ + 1]

Goto(s, l) == job' = [job EXCEPT ![s].pc = l]
End(s) == job' = [job EXCEPT ![s] = NoJob]

(* A job that holds the claim.                                             *)
Holding == {"stage", "work", "journal", "history", "publish", "receipt", "record"}
Live(s) == job[s].pc \in Holding

-----------------------------------------------------------------------------

(* Decisions on the record (state.rs).                                     *)

(* review_retry_delay_secs: it doubles with each retry up to its cap, six  *)
(* hours, which cuts off all but the first seven powers.                   *)
Powers == <<1, 2, 4, 8, 16, 32, 64>>

RetryDelay(retries) ==
    IF retries < Len(Powers) /\ Powers[retries + 1] < DelayCap THEN Powers[retries + 1]
                                                              ELSE DelayCap

(* Mutant: a claim is stale one unit early. *)
FreshClaimTooShort(r) == r.status = "InProgress" /\ now - r.at < StaleAfter

FreshClaim(r) == r.status = "InProgress" /\ now - r.at <= StaleAfter

Unfinished(r) == r.status \in {"Failed", "InProgress"}

(* Mutant: one retry too many. *)
MayRetryOnceMore(r) == r.retries <= MaxRetries /\ now >= r.at + RetryDelay(r.retries)

MayRetry(r) == r.retries < MaxRetries /\ now >= r.at + RetryDelay(r.retries)

(* Mutant: a failed review hides the commits after its own. *)
DecisionBlocked(r, c, limited) ==
    CASE r.status = "None" -> "FirstReview"
      [] r.status \in {"Done", "Skipped"} /\ r.commit # c -> "ReReview"
      [] ~FreshClaim(r) /\ r.commit = c /\ Unfinished(r)
           /\ (limited => MayRetry(r)) -> "RetryFailed"
      [] OTHER -> "Skip"

(* should_review_inner; limited when called with a retry limit.            *)
Decision(r, c, limited) ==
    CASE r.status = "None" -> "FirstReview"
      [] FreshClaim(r) -> "Skip"
      [] ~FreshClaim(r) /\ r.status # "None" /\ r.commit # c -> "ReReview"
      [] ~FreshClaim(r) /\ r.commit = c /\ Unfinished(r)
           /\ (limited => MayRetry(r)) -> "RetryFailed"
      [] OTHER -> "Skip"

(* Mutant: a mention only takes reviews away. *)
MentionOnlySkips(d, m, r) ==
    IF d = "ReReview" /\ ~(r.status = "None" \/ m > r.at) THEN "Skip" ELSE d

MentionAdjusted(d, m, r) ==
    LET fresh == r.status = "None" \/ m > r.at IN
    CASE d \in {"Skip", "RetryFailed"} /\ fresh -> "ReReview"
      [] d = "ReReview" /\ ~fresh -> "Skip"
      [] OTHER -> d

Record(s, c, r, t) == [status |-> s, commit |-> c, retries |-> r, at |-> t]

(* mark_reviewed overwrites the record and the record of the commit,       *)
(* whatever they hold.                                                     *)
MarkReviewed(r) ==
    /\ record' = r
    /\ reviewed' = IF r.status = "Done" THEN reviewed \cup {r.commit}
                                        ELSE reviewed \ {r.commit}

-----------------------------------------------------------------------------

(* The world: pushes, mentions, jobs entering the scheduler, time.         *)

Push ==
    /\ head < MaxCommit
    /\ head' = head + 1
    /\ UNCHANGED <<record, reviewed, journal, posts, mention, now, up, job, used>>

Mention ==
    /\ MentionMode /\ used.mentions < MaxMentions
    /\ mention < now
    /\ mention' = now
    /\ Spend("mentions")
    /\ UNCHANGED <<record, reviewed, journal, posts, head, now, up, job>>

Discover ==
    /\ up
    /\ job[head].pc = "idle"
    /\ \E o \in Origins : job' = [job EXCEPT ![head].pc = "queued", ![head].origin = o,
                                            ![head].commit = head]
    /\ UNCHANGED <<record, reviewed, journal, posts, head, mention, now, up, used>>

RequestManual ==
    /\ up /\ used.manual < MaxManual
    /\ job[Manual].pc = "idle"
    /\ job' = [job EXCEPT ![Manual].pc = "queued", ![Manual].origin = "Manual"]
    /\ Spend("manual")
    /\ UNCHANGED <<record, reviewed, journal, posts, head, mention, now, up>>

(* Time passes only while something depends on it.  A job gives up its     *)
(* claim within ReviewLimit, and what it decided from the record it acts   *)
(* upon at once: a unit is minutes, and only database calls lie between.   *)
Deciding == {"skipped", "adjust", "count", "lock"}

TimeMatters ==
    \/ record.status = "InProgress" /\ now <= record.at + StaleAfter
    \/ record.status = "Failed" /\ now < record.at + RetryDelay(record.retries)
    \/ MentionMode /\ used.mentions < MaxMentions /\ now <= record.at

Tick ==
    /\ TimeMatters
    /\ \A s \in Slots : /\ Live(s) => now < job[s].since + ReviewLimit
                        /\ job[s].pc \notin Deciding
    /\ now' = now + 1
    /\ UNCHANGED <<record, reviewed, journal, posts, head, mention, up, job, used>>

-----------------------------------------------------------------------------

(* process_daemon_job up to the claim.                                     *)

(* The handler of a queued job: a generated one is dropped unless its      *)
(* commit is still the head, a manual one takes the head it finds.  Then   *)
(* the gates, with the mention they read.                                  *)
Begin(s) ==
    /\ job[s].pc = "queued"
    /\ LET origin == job[s].origin
           commit == IF s = Manual THEN head ELSE job[s].commit
           gated == origin = "Poll" /\ MentionMode
           seen == IF gated THEN mention ELSE 0
           dropped == (origin = "Generated" /\ commit # head) \/ (gated /\ mention = 0)
       IN  \/ dropped /\ End(s)
           \/ /\ ~dropped
              /\ job' = [job EXCEPT
                    ![s].commit = commit, ![s].mention = seen,
                    ![s].pc = IF Backport /\ origin # "Generated" /\ seen = 0
                                THEN "skip" ELSE "decide"]
    /\ UNCHANGED <<record, reviewed, journal, posts, head, mention, now, up, used>>

(* mark_skipped_if_needed reads in one transaction, writes in another.     *)
SkipRead(s) ==
    /\ job[s].pc = "skip"
    /\ IF Decision(record, job[s].commit, FALSE) = "Skip" THEN End(s) ELSE Goto(s, "skipped")
    /\ UNCHANGED <<record, reviewed, journal, posts, head, mention, now, up, used>>

SkipWrite(s) ==
    /\ job[s].pc = "skipped"
    /\ MarkReviewed(Record("Skipped", job[s].commit, 0, now))
    /\ End(s)
    /\ UNCHANGED <<journal, posts, head, mention, now, up, used>>

(* The decision, adjusted for a manual request at once, for a mention      *)
(* after a second read of the record.                                      *)
AfterDecision(s, d) ==
    IF d = "Skip" THEN End(s)
    ELSE job' = [job EXCEPT ![s].decision = d,
                            ![s].pc = IF d = "RetryFailed" THEN "count" ELSE "lock"]

Decide(s) ==
    /\ job[s].pc = "decide"
    /\ LET d == Decision(record, job[s].commit, TRUE) IN
        \/ /\ job[s].origin = "Manual"
           /\ AfterDecision(s, IF d = "FirstReview" THEN d ELSE "ReReview")
        \/ /\ job[s].origin # "Manual" /\ job[s].mention # 0
           /\ job' = [job EXCEPT ![s].decision = d, ![s].pc = "adjust"]
        \/ /\ job[s].origin # "Manual" /\ job[s].mention = 0
           /\ AfterDecision(s, d)
    /\ UNCHANGED <<record, reviewed, journal, posts, head, mention, now, up, used>>

Adjust(s) ==
    /\ job[s].pc = "adjust"
    /\ AfterDecision(s, MentionAdjusted(job[s].decision, job[s].mention, record))
    /\ UNCHANGED <<record, reviewed, journal, posts, head, mention, now, up, used>>

Count(s) ==
    /\ job[s].pc = "count"
    /\ job' = [job EXCEPT ![s].count = IF record.status = "None" THEN 1 ELSE record.retries + 1,
                          ![s].pc = "lock"]
    /\ UNCHANGED <<record, reviewed, journal, posts, head, mention, now, up, used>>

ClaimedRetries(c) ==
    IF record.commit = c /\ Unfinished(record) THEN record.retries + 1 ELSE 0

Lock(s) ==
    /\ job[s].pc = "lock"
    /\ ~FreshClaim(record)
    /\ LET c == job[s].commit IN
        record' = Record("InProgress", c, ClaimedRetries(c), now)
    /\ job' = [job EXCEPT ![s].pc = "stage", ![s].since = now, ![s].decision = "Skip"]
    /\ UNCHANGED <<reviewed, journal, posts, head, mention, now, up, used>>

LockRefused(s) ==
    /\ job[s].pc = "lock"
    /\ FreshClaim(record)
    /\ End(s)
    /\ UNCHANGED <<record, reviewed, journal, posts, head, mention, now, up, used>>

-----------------------------------------------------------------------------

(* The review and its finalization.                                        *)

(* workspace::prepare checks out the pull request, at whatever commit it   *)
(* is by then.                                                             *)
Stage(s) ==
    /\ job[s].pc = "stage"
    /\ job' = [job EXCEPT ![s].pc = "work", ![s].target = head]
    /\ UNCHANGED <<record, reviewed, journal, posts, head, mention, now, up, used>>

Work(s) ==
    /\ job[s].pc = "work"
    /\ \E f \in BOOLEAN : job' = [job EXCEPT ![s].pc = "journal", ![s].ended = now,
                                             ![s].findings = f]
    /\ UNCHANGED <<record, reviewed, journal, posts, head, mention, now, up, used>>

(* The executor fails, at any moment of preparation or review.             *)
ReviewFails(s) ==
    /\ job[s].pc \in {"stage", "work"} /\ used.failures < MaxFailures
    /\ MarkReviewed(Record("Failed", job[s].commit, job[s].count, now))
    /\ End(s)
    /\ Spend("failures")
    /\ UNCHANGED <<journal, posts, head, mention, now, up>>

(* begin_disclosure.                                                       *)
BeginDisclosure(s) ==
    /\ job[s].pc = "journal"
    /\ LET c == job[s].target IN
        \/ /\ journal[c] = "published"
           /\ Goto(s, "record")
           /\ UNCHANGED journal
        \/ /\ journal[c] # "published"
           /\ journal' = [journal EXCEPT ![c] = "publishing"]
           /\ job' = [job EXCEPT ![s].pc = IF job[s].findings THEN "history" ELSE "receipt",
                                 ![s].recovering = (journal[c] = "publishing")]
    /\ UNCHANGED <<record, reviewed, posts, head, mention, now, up, used>>

(* Mutant: a history that cannot be read counts as empty. *)
FindExistingTrusting(s) ==
    /\ job[s].pc = "history"
    /\ \/ Goto(s, IF posts[job[s].target] > 0 THEN "receipt" ELSE "publish")
       \/ Goto(s, "publish")
    /\ UNCHANGED <<record, reviewed, journal, posts, head, mention, now, up, used>>

(* find_existing_disclosure: a marked review is reused; if the history     *)
(* cannot be read only a first publication goes on.                        *)
FindExisting(s) ==
    /\ job[s].pc = "history"
    /\ \/ Goto(s, IF posts[job[s].target] > 0 THEN "receipt" ELSE "publish")
       \/ ~job[s].recovering /\ Goto(s, "publish")
    /\ UNCHANGED <<record, reviewed, journal, posts, head, mention, now, up, used>>

(* publish_review; the answer of a review that was posted may get lost.    *)
Publish(s) ==
    /\ job[s].pc = "publish"
    /\ posts' = [posts EXCEPT ![job[s].target] = @ + 1]
    /\ \/ Goto(s, "receipt") /\ UNCHANGED <<record, reviewed, used>>
       \/ /\ used.failures < MaxFailures /\ Spend("failures")
          /\ MarkReviewed(Record("Failed", job[s].target, job[s].count, job[s].ended))
          /\ End(s)
    /\ UNCHANGED <<journal, head, mention, now, up>>

(* finish_disclosure.                                                      *)
FinishDisclosure(s) ==
    /\ job[s].pc = "receipt"
    /\ journal' = [journal EXCEPT ![job[s].target] = "published"]
    /\ Goto(s, "record")
    /\ UNCHANGED <<record, reviewed, posts, head, mention, now, up, used>>

(* The retry count of a finished review is left out: nothing reads it.     *)
Complete(s) ==
    /\ job[s].pc = "record"
    /\ MarkReviewed(Record("Done", job[s].target, 0, job[s].ended))
    /\ End(s)
    /\ UNCHANGED <<journal, posts, head, mention, now, up, used>>

(* Any step of the finalizer returns an error.                             *)
FinalizationFails(s) ==
    /\ job[s].pc \in {"journal", "history", "publish", "receipt", "record"}
    /\ used.failures < MaxFailures
    /\ MarkReviewed(Record("Failed", job[s].target, job[s].count, job[s].ended))
    /\ End(s)
    /\ Spend("failures")
    /\ UNCHANGED <<journal, posts, head, mention, now, up>>

(* The handler panics: the scheduler forgets its task and keeps its target.*)
Panic(s) ==
    /\ job[s].pc \notin {"idle", "queued", "lost"} /\ used.panics < MaxPanics
    /\ job' = [job EXCEPT ![s] = [NoJob EXCEPT !.pc = "lost"]]
    /\ Spend("panics")
    /\ UNCHANGED <<record, reviewed, journal, posts, head, mention, now, up>>

-----------------------------------------------------------------------------

Crash ==
    /\ up /\ used.crashes < MaxCrashes
    /\ up' = FALSE
    /\ job' = [s \in Slots |-> NoJob]
    /\ Spend("crashes")
    /\ UNCHANGED <<record, reviewed, journal, posts, head, mention, now>>

(* Startup: recover_interrupted, before any job.                           *)
Restart ==
    /\ ~up
    /\ up' = TRUE
    /\ record' = IF record.status = "InProgress"
                   THEN [record EXCEPT !.status = "Failed", !.at = now] ELSE record
    /\ UNCHANGED <<reviewed, journal, posts, head, mention, now, job, used>>

-----------------------------------------------------------------------------

Init ==
    /\ record = NoRecord
    /\ reviewed = {}
    /\ journal = [c \in Commits |-> "none"]
    /\ posts = [c \in Commits |-> 0]
    /\ head = 1
    /\ mention = 0
    /\ now = 1
    /\ up = TRUE
    /\ job = [s \in Slots |-> NoJob]
    /\ used = [crashes |-> 0, panics |-> 0, manual |-> 0, mentions |-> 0, failures |-> 0]

JobStep(s) ==
    \/ Begin(s) \/ SkipRead(s) \/ SkipWrite(s)
    \/ Decide(s) \/ Adjust(s) \/ Count(s) \/ Lock(s) \/ LockRefused(s)
    \/ Stage(s) \/ Work(s) \/ BeginDisclosure(s) \/ FindExisting(s) \/ Publish(s)
    \/ FinishDisclosure(s) \/ Complete(s)

Trouble(s) == ReviewFails(s) \/ FinalizationFails(s) \/ Panic(s)

Next ==
    \/ Push \/ Mention \/ Discover \/ RequestManual \/ Tick \/ Crash \/ Restart
    \/ \E s \in Slots : JobStep(s) \/ Trouble(s)

Spec == Init /\ [][Next]_vars

(* The poll loop runs every interval, started jobs go on, systemd restarts *)
(* the daemon, time passes.                                                *)
Fairness ==
    /\ WF_vars(Discover) /\ WF_vars(Restart) /\ WF_vars(Tick)
    /\ \A s \in Slots : WF_vars(JobStep(s))

FairSpec == Spec /\ Fairness

-----------------------------------------------------------------------------

Records == [status : {"None", "InProgress", "Failed", "Skipped", "Done"},
            commit : Slots, retries : Nat, at : Nat]
Jobs == [pc : Holding \cup {"idle", "queued", "skip", "skipped", "decide", "adjust",
                            "count", "lock", "lost"},
         origin : {"Poll", "Generated", "Manual"}, commit : Slots, mention : Nat,
         decision : {"Skip", "FirstReview", "ReReview", "RetryFailed"}, count : Nat,
         since : Nat, target : Slots, ended : Nat, findings : BOOLEAN,
         recovering : BOOLEAN]

TypeOK ==
    /\ record \in Records
    /\ reviewed \subseteq Slots
    /\ journal \in [Commits -> {"none", "publishing", "published"}]
    /\ posts \in [Commits -> Nat]
    /\ head \in Commits /\ mention \in Nat /\ now \in Nat \ {0} /\ up \in BOOLEAN
    /\ job \in [Slots -> Jobs]

(* A review at work owns the record: it is InProgress, for the commit and  *)
(* from the time of that review's claim.  So two reviews of a pull request *)
(* never run at once, whatever jobs for other commits and manual requests  *)
(* do, and nothing but the review's own end changes its claim (the doc of  *)
(* claim_stale_after_secs, review.rs:462).                                 *)
ClaimIsHeld ==
    \A s \in Slots : Live(s) =>
        /\ record.status = "InProgress"
        /\ record.commit = job[s].commit /\ record.at = job[s].since

OneLiveReview == \A s, t \in Slots : Live(s) /\ Live(t) => s = t

(* Both rest on what the code assumes of the rest of the daemon and does   *)
(* not enforce: a review gives its claim up before others may call it      *)
(* stale (cloning and finalization are outside the hard timeout,           *)
(* daemon.rs:1893), and no job is about to overwrite the record with a     *)
(* skip while one is at work (mark_skipped_if_needed reads and writes in   *)
(* two transactions, daemon.rs:1002).                                      *)
OnTime == \A s \in Slots : Live(s) => now <= job[s].since + StaleAfter

SkipsAlone == \A s, t \in Slots : Live(s) => job[t].pc # "skipped"

Undisturbed == OnTime /\ SkipsAlone

(* A commit gets one marked review, across lost answers of the forge,      *)
(* failed finalizations, crashes between posting and its receipt, stale    *)
(* and manual jobs (README.md:830).                                        *)
AtMostOnePost == \A c \in Commits : posts[c] <= 1

(* A retry claims its commit only while the record has retries left, also  *)
(* when crashes, stale jobs, manual or mentioned attempts changed it after *)
(* the job decided (state.rs:559 checks, state.rs:730 counts).             *)
TakesClaim(s) == job[s].pc = "lock" /\ job'[s].pc = "stage"

RetriesAreBudgeted ==
    [][\A s \in Slots : TakesClaim(s) /\ job[s].decision = "RetryFailed" =>
         record'.retries <= MaxRetries]_vars

(* The head of the pull request is settled once it is reviewed, or its     *)
(* retries are spent.  Pushes, failures, crashes and restarts eventually   *)
(* leave it that way for good.                                             *)
HeadIsSettled ==
    \/ head \in reviewed
    \/ record.status = "Failed" /\ record.commit = head /\ record.retries >= MaxRetries
    \/ \E s \in Slots : job[s].pc = "lost"

HeadEventuallySettled == <>[]HeadIsSettled

(* A trusted mention gets a review of its own (README.md:30 and 880-882):  *)
(* a mention newer than the last attempt, made or left while no review is  *)
(* at work, is followed by the claim of a review that begins after it,     *)
(* whatever attempts failed, were cut by a crash or recorded before, and   *)
(* though the retries are spent.  Two ways in which the code lets a        *)
(* mention go by are named: one made while the record is claimed is older  *)
(* than the record the claim leaves (daemon.rs:771, state.rs:1034), and a  *)
(* manual request on a backport dates the record it writes to skip it.     *)
Unanswered ==
    /\ mention > record.at /\ record.status # "InProgress"
    /\ \A s \in Slots : ~Live(s)

ReviewedSince == \E s \in Slots : Live(s) /\ job[s].since >= mention

SkipInTheWay == \E s \in Slots : job[s].pc = "skipped"

MentionIsReviewed == Unanswered ~> (ReviewedSince \/ SkipInTheWay)

=============================================================================
