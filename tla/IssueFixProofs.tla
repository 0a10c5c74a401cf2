--------------------------- MODULE IssueFixProofs ---------------------------
(***************************************************************************)
(* Proofs about IssueFix, for any number of mentions, commands, attempts,  *)
(* meddling people and interrupted passes: a run is paid for once, no      *)
(* commit of others is replaced, the journals know the tip of the branch,  *)
(* a review that is owed stays owed, and a status comment is true.         *)
(***************************************************************************)
EXTENDS IssueFix, TLAPS, WellFoundedInduction

(* The newest of some comment ids is one of them, and none is newer.       *)
LEMMA MaxOfBounded ==
    ASSUME NEW n \in Nat, NEW S \in SUBSET (0..n), S # {}
    PROVE  Max(S) \in S /\ \A y \in S : y <= Max(S)
<1> DEFINE T == {n - x : x \in S}
<1>0. \A x \in S : x \in Int /\ n - x \in Nat
  OBVIOUS
<1>1. T \subseteq Nat /\ T # {}
  BY <1>0
<1>2. PICK m \in T : \A y \in T : ~ (<<y, m>> \in OpToRel(<, Nat))
  BY <1>1, NatLessThanWellFounded, WFMin
<1>3. \A y \in T : ~ (y < m)
  BY <1>1, <1>2 DEF OpToRel
<1>4. PICK x \in S : m = n - x
  BY <1>2
<1>5. \A y \in S : x >= y
  <2>1. SUFFICES ASSUME NEW y \in S PROVE x >= y
    OBVIOUS
  <2>2. n - y \in T
    OBVIOUS
  <2>3. ~ (n - y < n - x)
    BY <2>2, <1>3, <1>4
  <2>4. x \in Int /\ y \in Int
    BY <1>0
  <2>5. QED
    BY <2>3, <2>4
<1>6. PICK k \in S : k = Max(S) /\ \A y \in S : k >= y
  BY <1>5 DEF Max
<1>7. QED
  BY <1>0, <1>6

LEMMA NewestIsNat ==
    ASSUME NEW n \in Nat, NEW S \in SUBSET (1..n)
    PROVE  Newest(S) \in 0..n
<1>1. CASE S = {}
  BY <1>1 DEF Newest
<1>2. CASE S # {}
  BY <1>2, MaxOfBounded, S \in SUBSET (0..n) DEF Newest
<1>3. QED
  BY <1>1, <1>2

-----------------------------------------------------------------------------

(* The inductive invariant.  Memory: what the pass holds of the iteration  *)
(* agrees with its journal, up to the notice, and a push under way is      *)
(* journalled.  Publishing: the same for the issue's record, and which     *)
(* steps know that there is a pull request, or that nothing is tracked.    *)
(* Tip: which journal names the host's commit on the branch.  Owed: the    *)
(* review of the recorded head.  Paid: runs started against ids consumed.  *)

Journalled == {"fetch", "notice", "post", "posted", "review", "command", "revise",
               "coding", "recheck", "push", "pushed", "failed"}
Recorded == {"pending", "open", "track", "clear", "issue", "triaged", "investigate",
             "fixing", "verify", "create", "mark"}

Settled == {"review", "command", "revise", "coding", "recheck"}
Notifying == {"notice", "post", "posted"}
Attempting == {"revise", "coding", "recheck", "push", "pushed"}
Unpublished == {"investigate", "fixing", "verify"}

Foreign(c) == commits[c].author = People

SameJournal(s, t) ==
    /\ s.head = t.head /\ s.attempts = t.attempts /\ s.last = t.last
    /\ s.pending = t.pending /\ s.review = t.review

Memory ==
    /\ pc \in Journalled \cup Recorded \cup {"idle", "trigger"}
    /\ pc \in Journalled =>
         /\ iter.head # 0
         /\ SameJournal(mem, iter)
    /\ pc \in Settled => mem.pending = 0
    /\ pc \in Notifying =>
         /\ look.next \in {"review", "trigger", "idle"}
         /\ look.next # "idle" => mem.pending = 0
    /\ pc \in {"post", "posted", "failed"} => mem.notice # "none"
    /\ pc = "failed" => look.next = "idle"
    /\ pc \in Attempting => look.next = "trigger"
    /\ pc = "push" =>
         /\ mem.pending \in 1..Len(commits)
         /\ commits[mem.pending].parent = mem.head
    /\ pc = "pushed" =>
         /\ mem.pending # 0 /\ branch # 0
         /\ branch = mem.pending \/ Foreign(branch)

Publishing ==
    /\ iter.head = 0 => iter = NoState
    /\ iter.head # 0 => record.pr \/ record.pending.commit # 0
    /\ pc \in Recorded =>
         /\ rec.last = record.last /\ rec.pending = record.pending
         /\ record.pr => rec.pr
    /\ pc \in {"pending", "open", "track", "clear"} =>
         rec.pending.commit # 0 /\ look.next \in {"issue", "mark"}
    /\ pc \in {"track", "clear"} => rec.pr
    /\ pc = "clear" => iter.head # 0
    /\ pc \in Unpublished => ~ rec.pr /\ rec.pending.commit = 0
    /\ pc = "create" =>
         /\ iter.head = 0 /\ look.next = "mark"
         /\ rec.pending.commit \in 1..Len(commits)
         /\ commits[rec.pending.commit].parent = 0

Tip ==
    branch # 0 /\ ~ Foreign(branch) =>
        IF iter.head # 0 THEN branch \in {iter.head, iter.pending}
                         ELSE branch = record.pending.commit

Owed ==
    /\ iter.review \in {0, iter.head}
    /\ iter.head # 0 /\ iter.head \notin reviewed => iter.review = iter.head

Paid ==
    /\ Increasing(ran) /\ Increasing(investigated)
    /\ \A i \in DOMAIN ran : ran[i] <= iter.last
    /\ Len(ran) <= iter.attempts
    /\ \A i \in DOMAIN investigated : investigated[i] <= record.last
    /\ pc = "revise" =>
         /\ \A i \in DOMAIN ran : ran[i] < iter.last
         /\ Len(ran) < iter.attempts
    /\ pc = "investigate" =>
         /\ rec.last = look.trigger
         /\ \A i \in DOMAIN investigated : investigated[i] < look.trigger

(* The types of what the host keeps and holds, and of everything else.     *)
Stores ==
    /\ record \in Records /\ rec \in Records
    /\ iter \in States /\ mem \in States /\ look \in Looks

World ==
    /\ mentions \subseteq 1..used.mentions /\ commands \subseteq 1..used.commands
    /\ edits \in Nat /\ issueOpen \in BOOLEAN
    /\ commits \in Seq([parent : Nat, author : Int]) /\ branch \in 0..Len(commits)
    /\ pr \in {"none", "open", "closed"} /\ prAuthor \in {Host, People}
    /\ status \in [1..MaxCommands -> Seq(Texts)]
    /\ investigated \in Seq(Nat) /\ ran \in Seq(Nat) /\ prs \in Nat
    /\ used \in [mentions : 0..MaxMentions, commands : 0..MaxCommands,
                 meddling : 0..MaxMeddling, faults : 0..MaxFaults]

IInv == Stores /\ World /\ Memory /\ Publishing /\ Tip /\ Owed /\ Paid

-----------------------------------------------------------------------------

(* What the updates of a record keep and set.                              *)

Notices == Texts \cup {"none"}

LEMMA NoticeKinds ==
    Texts \subseteq Notices /\ "none" \in Notices
BY DEF Notices

LEMMA NoStateIsState == NoState \in States /\ NoState.attempts = 0
BY IssueAssumption DEF NoState, States

LEMMA NoRecordIsRecord == NoRecord \in Records /\ NoPublication.commit = 0
BY DEF NoRecord, Records, NoPublication, NoContent, Contents

LEMMA NoLookIsLook == NoLook \in Looks /\ NoLook.trigger = 0
BY DEF NoLook, Looks, NoContent, Contents

LEMMA NewStateFields ==
    ASSUME NEW c \in Nat
    PROVE  /\ NewState(c) \in States
           /\ NewState(c).head = c /\ NewState(c).review = c
           /\ NewState(c).pending = 0 /\ NewState(c).last = 0
           /\ NewState(c).attempts = 0
BY NoStateIsState DEF NewState, States, NoState

LEMMA NoticeFields ==
    ASSUME NEW s \in States, NEW x \in Notices
    PROVE  /\ [s EXCEPT !.notice = x] \in States
           /\ [s EXCEPT !.notice = x].notice = x
           /\ SameJournal([s EXCEPT !.notice = x], s)
BY DEF States, Notices, SameJournal

LEMMA ReviewedFields ==
    ASSUME NEW s \in States
    PROVE  /\ [s EXCEPT !.review = 0] \in States
           /\ [s EXCEPT !.review = 0].notice = s.notice
           /\ [s EXCEPT !.review = 0].head = s.head
           /\ [s EXCEPT !.review = 0].attempts = s.attempts
           /\ [s EXCEPT !.review = 0].last = s.last
           /\ [s EXCEPT !.review = 0].pending = s.pending
           /\ [s EXCEPT !.review = 0].review = 0
BY DEF States

LEMMA PendingFields ==
    ASSUME NEW s \in States, NEW c \in Nat
    PROVE  /\ [s EXCEPT !.pending = c] \in States
           /\ [s EXCEPT !.pending = c].notice = s.notice
           /\ [s EXCEPT !.pending = c].head = s.head
           /\ [s EXCEPT !.pending = c].attempts = s.attempts
           /\ [s EXCEPT !.pending = c].last = s.last
           /\ [s EXCEPT !.pending = c].pending = c
           /\ [s EXCEPT !.pending = c].review = s.review
BY DEF States

LEMMA AttemptFields ==
    ASSUME NEW s \in States, NEW k \in Nat, s.attempts < MaxAttempts
    PROVE  /\ [s EXCEPT !.last = k, !.attempts = @ + 1] \in States
           /\ [s EXCEPT !.last = k, !.attempts = @ + 1].head = s.head
           /\ [s EXCEPT !.last = k, !.attempts = @ + 1].attempts = s.attempts + 1
           /\ [s EXCEPT !.last = k, !.attempts = @ + 1].last = k
           /\ [s EXCEPT !.last = k, !.attempts = @ + 1].pending = s.pending
           /\ [s EXCEPT !.last = k, !.attempts = @ + 1].review = s.review
<1>1. s.attempts + 1 \in 0..MaxAttempts /\ s.attempts + 1 \in Nat
  BY IssueAssumption DEF States
<1>2. QED
  BY <1>1 DEF States

LEMMA LimitFields ==
    ASSUME NEW s \in States, NEW k \in Nat
    PROVE  /\ [s EXCEPT !.last = k, !.notice = "limit"] \in States
           /\ [s EXCEPT !.last = k, !.notice = "limit"].head = s.head
           /\ [s EXCEPT !.last = k, !.notice = "limit"].attempts = s.attempts
           /\ [s EXCEPT !.last = k, !.notice = "limit"].last = k
           /\ [s EXCEPT !.last = k, !.notice = "limit"].pending = s.pending
           /\ [s EXCEPT !.last = k, !.notice = "limit"].review = s.review
BY DEF States, Texts

(* Reconciliation keeps the attempts, leaves nothing pending, and moves    *)
(* the head only to a commit that was pending, whose review it asks for.   *)
LEMMA ReconciledFields ==
    ASSUME NEW s \in States, NEW tip \in Nat
    PROVE  /\ Reconciled(s, tip) \in States
           /\ Reconciled(s, tip).attempts = s.attempts
           /\ Reconciled(s, tip).last = s.last
           /\ Reconciled(s, tip).pending = 0
           /\ IF s.pending # 0 /\ s.pending = tip
                THEN Reconciled(s, tip).head = tip /\ Reconciled(s, tip).review = tip
                ELSE /\ Reconciled(s, tip).head = s.head
                     /\ Reconciled(s, tip).review = s.review
<1>0. "pushed" \in Notices /\ "unpublished" \in Notices
  BY DEF Notices, Texts
<1>1. CASE s.pending = 0
  <2>1. Reconciled(s, tip) = s
    BY <1>1 DEF Reconciled
  <2>2. QED
    BY <1>1, <2>1
<1>2. ASSUME s.pending # 0, s.pending = tip, NEW x \in Notices, NEW r,
             r = [s EXCEPT !.head = tip, !.pending = 0, !.review = tip, !.notice = x]
      PROVE  /\ r \in States /\ r.attempts = s.attempts /\ r.last = s.last
             /\ r.pending = 0 /\ r.head = tip /\ r.review = tip
  BY <1>2 DEF States, Notices
<1>3. ASSUME s.pending # 0, s.pending # tip, NEW x \in Notices, NEW r,
             r = [s EXCEPT !.pending = 0, !.notice = x]
      PROVE  /\ r \in States /\ r.attempts = s.attempts /\ r.last = s.last
             /\ r.pending = 0 /\ r.head = s.head /\ r.review = s.review
  BY <1>3 DEF States, Notices
<1>4. CASE s.pending # 0 /\ s.pending = tip
  BY <1>0, <1>2, <1>4 DEF Reconciled
<1>5. CASE s.pending # 0 /\ s.pending # tip
  BY <1>0, <1>3, <1>5 DEF Reconciled
<1>6. QED
  BY <1>1, <1>4, <1>5

LEMMA PrFields ==
    ASSUME NEW r \in Records
    PROVE  /\ [r EXCEPT !.pr = TRUE] \in Records
           /\ [r EXCEPT !.pr = TRUE].pr
           /\ [r EXCEPT !.pr = TRUE].last = r.last
           /\ [r EXCEPT !.pr = TRUE].pending = r.pending
BY DEF Records

LEMMA PublicationFields ==
    ASSUME NEW r \in Records, NEW p \in [commit : Nat, content : Contents]
    PROVE  /\ [r EXCEPT !.pending = p] \in Records
           /\ [r EXCEPT !.pending = p].pr = r.pr
           /\ [r EXCEPT !.pending = p].last = r.last
           /\ [r EXCEPT !.pending = p].pending = p
BY DEF Records

LEMMA MentionFields ==
    ASSUME NEW r \in Records, NEW k \in Nat
    PROVE  /\ [r EXCEPT !.last = k] \in Records
           /\ [r EXCEPT !.last = k].pr = r.pr
           /\ [r EXCEPT !.last = k].last = k
           /\ [r EXCEPT !.last = k].pending = r.pending
BY DEF Records

LEMMA FingerprintFields ==
    ASSUME NEW r \in Records, NEW f \in Contents \X Nat
    PROVE  /\ [r EXCEPT !.fingerprint = f] \in Records
           /\ [r EXCEPT !.fingerprint = f].pr = r.pr
           /\ [r EXCEPT !.fingerprint = f].last = r.last
           /\ [r EXCEPT !.fingerprint = f].pending = r.pending
BY DEF Records

Goals == {"idle", "review", "trigger", "issue", "mark"}

LEMMA LookNextFields ==
    ASSUME NEW v \in Looks, NEW l \in Goals
    PROVE  /\ [v EXCEPT !.next = l] \in Looks
           /\ [v EXCEPT !.next = l].next = l
           /\ [v EXCEPT !.next = l].trigger = v.trigger
BY DEF Looks, Goals

LEMMA LookHeadFields ==
    ASSUME NEW v \in Looks, NEW c \in Nat, NEW l \in Goals
    PROVE  /\ [v EXCEPT !.head = c, !.next = l] \in Looks
           /\ [v EXCEPT !.head = c, !.next = l].next = l
BY DEF Looks, Goals

LEMMA LookCommandsFields ==
    ASSUME NEW v \in Looks, NEW k \in SUBSET Nat, NEW l \in Goals
    PROVE  /\ [v EXCEPT !.commands = k, !.next = l] \in Looks
           /\ [v EXCEPT !.commands = k, !.next = l].next = l
BY DEF Looks, Goals

LEMMA LookContentFields ==
    ASSUME NEW v \in Looks, NEW c \in Contents
    PROVE  /\ [v EXCEPT !.content = c] \in Looks
           /\ [v EXCEPT !.content = c].next = v.next
           /\ [v EXCEPT !.content = c].trigger = v.trigger
BY DEF Looks

LEMMA LookTriggerFields ==
    ASSUME NEW k \in Nat
    PROVE  /\ [NoLook EXCEPT !.trigger = k, !.next = "issue"] \in Looks
           /\ [NoLook EXCEPT !.trigger = k, !.next = "issue"].next = "issue"
           /\ [NoLook EXCEPT !.trigger = k, !.next = "issue"].trigger = k
BY NoLookIsLook DEF Looks

-----------------------------------------------------------------------------

(* What a step leaves alone.                                               *)

LEMMA TypesSplit == TypeOK <=> Stores /\ World
BY DEF TypeOK, Stores, World

LEMMA WorldFrame ==
    ASSUME World, UNCHANGED <<people, forge, history, used>>
    PROVE  World'
BY DEF World, people, forge, history

LEMMA BranchMoves ==
    ASSUME World, UNCHANGED people, pr' = pr, prAuthor' = prAuthor, status' = status,
           investigated' = investigated, ran' = ran, prs' = prs,
           commits' \in Seq([parent : Nat, author : Int]), branch' \in 0..Len(commits'),
           used' \in [mentions : 0..MaxMentions, commands : 0..MaxCommands,
                      meddling : 0..MaxMeddling, faults : 0..MaxFaults],
           used'.mentions = used.mentions, used'.commands = used.commands
    PROVE  World'
<1>1. mentions' \subseteq 1..used'.mentions /\ commands' \subseteq 1..used'.commands
  BY DEF World, people
<1>2. edits' \in Nat /\ issueOpen' \in BOOLEAN
  BY DEF World, people
<1>3. /\ pr' \in {"none", "open", "closed"} /\ prAuthor' \in {Host, People}
      /\ status' \in [1..MaxCommands -> Seq(Texts)]
  BY DEF World
<1>4. investigated' \in Seq(Nat) /\ ran' \in Seq(Nat) /\ prs' \in Nat
  BY DEF World
<1>5. QED
  BY <1>1, <1>2, <1>3, <1>4 DEF World

(* ... and nothing of it is counted.                                       *)
LEMMA BranchMovesFree ==
    ASSUME World, UNCHANGED <<people, pr, prAuthor, status, investigated, ran, prs, used>>,
           commits' \in Seq([parent : Nat, author : Int]), branch' \in 0..Len(commits')
    PROVE  World'
<1>1. used \in [mentions : 0..MaxMentions, commands : 0..MaxCommands,
                meddling : 0..MaxMeddling, faults : 0..MaxFaults]
  BY DEF World
<1>2. QED
  BY <1>1, BranchMoves

LEMMA DurableFrame ==
    ASSUME IInv, UNCHANGED <<durable, branch, commits, reviewed, ran, investigated>>,
           pc' \notin {"revise", "investigate"}
    PROVE  Tip' /\ Owed' /\ Paid'
BY DEF IInv, Tip, Owed, Paid, Foreign, durable, Increasing

LEMMA TipFrame ==
    ASSUME Tip, UNCHANGED <<branch, commits>>, iter'.head = iter.head,
           iter'.pending = iter.pending, record'.pending = record.pending
    PROVE  Tip'
BY DEF Tip, Foreign

LEMMA OwedFrame ==
    ASSUME Owed, iter'.head = iter.head, iter'.review = iter.review,
           reviewed \subseteq reviewed'
    PROVE  Owed'
BY DEF Owed

LEMMA PaidFrame ==
    ASSUME Paid, UNCHANGED <<ran, investigated>>, iter'.last = iter.last,
           iter'.attempts = iter.attempts, record'.last = record.last,
           pc' \notin {"revise", "investigate"}
    PROVE  Paid'
BY DEF Paid, Increasing

LEMMA PassEnds ==
    ASSUME IInv, EndPass, UNCHANGED <<durable, branch, commits, reviewed, ran, investigated>>,
           World'
    PROVE  IInv'
<1>1. Stores' /\ pc' = "idle"
  BY NoStateIsState, NoRecordIsRecord, NoLookIsLook DEF EndPass, IInv, Stores, durable
<1>2. Memory'
  BY <1>1 DEF Memory, Journalled, Recorded, Settled, Notifying, Attempting
<1>3. Publishing'
  BY <1>1 DEF IInv, Publishing, Recorded, Unpublished, durable
<1>4. Tip' /\ Owed' /\ Paid'
  BY <1>1, DurableFrame
<1>5. QED
  BY <1>1, <1>2, <1>3, <1>4 DEF IInv

(* A sequence of ids grows by a newer one.                                 *)
LEMMA NewerId ==
    ASSUME NEW s \in Seq(Nat), NEW k \in Nat, Increasing(s),
           \A i \in DOMAIN s : s[i] < k
    PROVE  /\ Append(s, k) \in Seq(Nat) /\ Increasing(Append(s, k))
           /\ Len(Append(s, k)) = Len(s) + 1
           /\ \A i \in DOMAIN Append(s, k) : Append(s, k)[i] <= k
<1>1. Append(s, k) \in Seq(Nat) /\ Len(Append(s, k)) = Len(s) + 1
  OBVIOUS
<1>2. DOMAIN Append(s, k) = 1..(Len(s) + 1) /\ DOMAIN s = 1..Len(s) /\ Len(s) \in Nat
  OBVIOUS
<1>3. \A i \in 1..Len(s) : Append(s, k)[i] = s[i] /\ s[i] \in Nat
  OBVIOUS
<1>4. Append(s, k)[Len(s) + 1] = k
  OBVIOUS
<1>5. \A i \in 1..(Len(s) + 1) : i \in 1..Len(s) \/ i = Len(s) + 1
  BY <1>2
<1>6. \A i \in DOMAIN Append(s, k) : Append(s, k)[i] <= k
  BY <1>2, <1>3, <1>4, <1>5
<1>7. ASSUME NEW i \in DOMAIN Append(s, k), NEW j \in DOMAIN Append(s, k), i < j
      PROVE  Append(s, k)[i] < Append(s, k)[j]
  <2>1. i \in 1..Len(s)
    BY <1>2, <1>7
  <2>2. CASE j \in 1..Len(s)
    BY <1>2, <1>3, <1>7, <2>1, <2>2 DEF Increasing
  <2>3. CASE j = Len(s) + 1
    BY <1>2, <1>3, <1>4, <2>1, <2>3
  <2>4. QED
    BY <1>2, <1>5, <2>2, <2>3
<1>8. Increasing(Append(s, k))
  BY <1>7 DEF Increasing
<1>9. QED
  BY <1>1, <1>6, <1>8

(* A commit is added: the others stay what they are.                       *)
LEMMA CommitAdded ==
    ASSUME World, NEW p \in Nat, NEW a \in Int, NewCommit(p, a)
    PROVE  /\ commits' \in Seq([parent : Nat, author : Int])
           /\ Len(commits') = Len(commits) + 1 /\ Len(commits) \in Nat
           /\ commits'[Len(commits')].parent = p /\ commits'[Len(commits')].author = a
           /\ \A c \in 1..Len(commits) : commits'[c] = commits[c]
<1>1. commits \in Seq([parent : Nat, author : Int])
  BY DEF World
<1>2. [parent |-> p, author |-> a] \in [parent : Nat, author : Int]
  OBVIOUS
<1>3. commits' = Append(commits, [parent |-> p, author |-> a])
  BY DEF NewCommit
<1>4. QED
  BY <1>1, <1>2, <1>3

LEMMA InitIInv == Init => IInv
<1> SUFFICES ASSUME Init PROVE IInv
  OBVIOUS
<1>1. Stores
  BY NoStateIsState, NoRecordIsRecord, NoLookIsLook DEF Init, Stores
<1>2. World
  BY IssueAssumption DEF Init, World, Host, People
<1>3. Memory
  BY DEF Init, Memory, Journalled, Recorded, Settled, Notifying, Attempting
<1>4. Publishing /\ Tip /\ Owed
  BY DEF Init, Publishing, Tip, Owed, Recorded, Unpublished, NoState
<1>5. Paid
  BY DEF Init, Paid, Increasing, NoState
<1>6. QED
  BY <1>1, <1>2, <1>3, <1>4, <1>5 DEF IInv

-----------------------------------------------------------------------------

(* The iteration half of a pass.                                           *)

LEMMA StartPassStep ==
    ASSUME IInv, StartPass
    PROVE  IInv'
<1>1. Stores' /\ World'
  BY WorldFrame DEF IInv, Stores, StartPass, durable
<1>2. Memory'
  BY DEF StartPass, Goto, Memory, SameJournal, durable, Journalled, Recorded, Settled,
         Notifying, Attempting
<1>3. Publishing'
  BY DEF IInv, StartPass, Goto, Publishing, Recorded, Unpublished, durable
<1>4. Tip' /\ Owed' /\ Paid'
  BY DurableFrame DEF StartPass, Goto, durable, forge, reviews, history
<1>5. QED
  BY <1>1, <1>2, <1>3, <1>4 DEF IInv

LEMMA FetchPrStep ==
    ASSUME IInv, FetchPr
    PROVE  IInv'
<1> USE DEF FetchPr
<1>1. World' /\ UNCHANGED <<branch, commits, reviewed, ran, investigated>>
  BY WorldFrame DEF IInv, forge, reviews, history
<1>2. CASE Goto("trigger") /\ UNCHANGED <<iter, mem, rec, look>>
  <2>1. Stores' /\ Memory'
    BY <1>2 DEF IInv, Stores, Goto, Memory, Journalled, Recorded, Settled, Notifying,
                Attempting
  <2>2. Publishing'
    BY <1>2 DEF IInv, Goto, Publishing, Recorded, Unpublished
  <2>3. Tip' /\ Owed' /\ Paid'
    BY <1>1, <1>2, DurableFrame DEF Goto, durable
  <2>4. QED
    BY <1>1, <2>1, <2>2, <2>3 DEF IInv
<1>3. CASE /\ Reconcilable(mem, branch) /\ Saved(Reconciled(mem, branch)) /\ Goto("notice")
           /\ look' = [look EXCEPT !.head = branch, !.next = "review"] /\ UNCHANGED rec
  <2>1. mem \in States /\ branch \in Nat /\ look \in Looks
    BY DEF IInv, Stores, World
  <2>2. /\ iter' = mem' /\ mem' \in States /\ mem'.pending = 0 /\ mem'.head = branch
        /\ mem'.attempts = mem.attempts /\ mem'.last = mem.last
        /\ (mem'.head = mem.head /\ mem'.review = mem.review) \/ mem'.review = branch
    BY <1>3, <2>1, ReconciledFields DEF Saved, Reconcilable
  <2>3. look' \in Looks /\ look'.next = "review"
    BY <1>3, <2>1, LookHeadFields DEF Goals
  <2>4. iter.head # 0 /\ SameJournal(mem, iter)
    BY DEF IInv, Memory, Journalled
  <2>5. branch # 0
    BY <1>3, <2>4 DEF Reconcilable, SameJournal
  <2>6. Stores'
    BY <1>3, <2>2, <2>3 DEF IInv, Stores
  <2>7. Memory'
    BY <1>3, <2>2, <2>3, <2>5 DEF Goto, Memory, SameJournal, Journalled, Recorded, Settled,
                                  Notifying, Attempting
  <2>8. Publishing'
    BY <1>3, <2>2, <2>4, <2>5 DEF IInv, Goto, Publishing, Recorded, Unpublished
  <2>9. Tip' /\ Owed'
    BY <1>1, <2>2, <2>4, <2>5 DEF IInv, Tip, Owed, Foreign, SameJournal
  <2>10. Paid'
    BY <1>1, <1>3, <2>2, <2>4, PaidFrame DEF IInv, Goto, SameJournal
  <2>11. QED
    BY <1>1, <2>6, <2>7, <2>8, <2>9, <2>10 DEF IInv
<1>4. CASE EndPass /\ UNCHANGED iter
  BY <1>1, <1>4, PassEnds DEF durable
<1>5. QED
  BY <1>2, <1>3, <1>4

LEMMA CheckNoticeStep ==
    ASSUME IInv, CheckNotice
    PROVE  IInv'
<1> USE DEF CheckNotice
<1>1. World' /\ UNCHANGED <<durable, branch, commits, reviewed, ran, investigated>>
  BY WorldFrame DEF IInv, forge, reviews, history
<1>2. CASE Goto(look.next) /\ UNCHANGED <<mem, rec, look>>
  <2>1. look.next \in {"review", "trigger", "idle"}
    BY DEF IInv, Memory, Notifying
  <2>2. Stores' /\ Memory'
    BY <1>1, <1>2, <2>1 DEF IInv, Stores, Goto, Memory, SameJournal, Journalled, Recorded,
                            Settled, Notifying, Attempting, durable
  <2>3. Publishing'
    BY <1>1, <1>2, <2>1 DEF IInv, Goto, Publishing, Recorded, Unpublished, durable
  <2>4. Tip' /\ Owed' /\ Paid'
    BY <1>1, <1>2, <2>1, DurableFrame DEF Goto
  <2>5. QED
    BY <1>1, <2>2, <2>3, <2>4 DEF IInv
<1>3. CASE mem.notice # "none" /\ Goto("post") /\ UNCHANGED <<mem, rec, look>>
  <2>1. Stores' /\ Memory'
    BY <1>1, <1>3 DEF IInv, Stores, Goto, Memory, SameJournal, Journalled, Recorded,
                      Settled, Notifying, Attempting, durable
  <2>2. Publishing'
    BY <1>1, <1>3 DEF IInv, Goto, Publishing, Recorded, Unpublished, durable
  <2>3. Tip' /\ Owed' /\ Paid'
    BY <1>1, <1>3, DurableFrame DEF Goto
  <2>4. QED
    BY <1>1, <2>1, <2>2, <2>3 DEF IInv
<1>4. CASE EndPass
  BY <1>1, <1>4, PassEnds
<1>5. QED
  BY <1>2, <1>3, <1>4

LEMMA PostNoticeStep ==
    ASSUME IInv, PostNotice
    PROVE  IInv'
<1> USE DEF PostNotice
<1>1. mem.notice \in Texts
  BY DEF IInv, Stores, States, Memory
<1>2. status' \in [1..MaxCommands -> Seq(Texts)]
  <2>1. ASSUME NEW q \in Seq(Texts), NEW x \in Texts
        PROVE  (IF q = <<>> THEN <<x>> ELSE [q EXCEPT ![1] = x]) \in Seq(Texts)
    OBVIOUS
  <2>2. status \in [1..MaxCommands -> Seq(Texts)]
    BY DEF IInv, World
  <2>3. QED
    BY <1>1, <2>1, <2>2 DEF PutStatus
<1>3. World'
  BY <1>2 DEF IInv, World, people, history
<1>4. Stores' /\ Memory'
  BY DEF IInv, Stores, Goto, Memory, SameJournal, Journalled, Recorded,
         Settled, Notifying, Attempting, durable
<1>5. Publishing'
  BY DEF IInv, Goto, Publishing, Recorded, Unpublished, durable
<1>6. Tip' /\ Owed' /\ Paid'
  BY DurableFrame DEF Goto, reviews, history
<1>7. QED
  BY <1>3, <1>4, <1>5, <1>6 DEF IInv

LEMMA SaveNoticeStep ==
    ASSUME IInv, SaveNotice
    PROVE  IInv'
<1> USE DEF SaveNotice
<1>1. World' /\ UNCHANGED <<record, branch, commits, reviewed, ran, investigated>>
  BY WorldFrame DEF IInv, forge, reviews, history
<1>2. iter' \in States /\ SameJournal(iter', mem)
  BY NoticeFields, NoticeKinds DEF IInv, Stores
<1>3. iter.head # 0 /\ SameJournal(iter', iter)
  BY <1>2 DEF IInv, Memory, SameJournal, Journalled
<1>4. look.next \in {"review", "trigger", "idle"} /\ (look.next # "idle" => mem.pending = 0)
  BY DEF IInv, Memory, Notifying
<1>5. pc' \in {"review", "trigger", "idle"}
  BY <1>4 DEF EndPass, Goto
<1>6. Stores'
  BY <1>1, <1>2, NoStateIsState, NoRecordIsRecord, NoLookIsLook
     DEF IInv, Stores, EndPass, Goto
<1>7. Memory'
  <2>1. pc' = "review" => mem' = iter' /\ look.next # "idle"
    BY DEF EndPass, Goto
  <2>2. QED
    BY <1>2, <1>3, <1>4, <1>5, <2>1
       DEF Memory, SameJournal, Journalled, Recorded, Settled, Notifying, Attempting
<1>8. Publishing'
  BY <1>1, <1>3, <1>5 DEF IInv, Publishing, SameJournal, Recorded, Unpublished
<1>9. Tip' /\ Owed' /\ Paid'
  BY <1>1, <1>3, <1>5, TipFrame, OwedFrame, PaidFrame DEF IInv, SameJournal
<1>10. QED
  BY <1>1, <1>6, <1>7, <1>8, <1>9 DEF IInv

LEMMA FaultSpent ==
    ASSUME World, used.faults < MaxFaults, Spend("faults"),
           UNCHANGED <<people, forge, history>>
    PROVE  World'
<1>1. used' \in [mentions : 0..MaxMentions, commands : 0..MaxCommands,
                 meddling : 0..MaxMeddling, faults : 0..MaxFaults]
  <2>1. used.faults + 1 \in 0..MaxFaults
    BY IssueAssumption DEF World
  <2>2. QED
    BY <2>1 DEF World, Spend
<1>2. used'.mentions = used.mentions /\ used'.commands = used.commands
  BY DEF World, Spend
<1>3. QED
  BY <1>1, <1>2 DEF World, people, forge, history

LEMMA RequestReviewStep ==
    ASSUME IInv, RequestReview
    PROVE  IInv'
<1> USE DEF RequestReview
<1>1. UNCHANGED <<record, rec, look, branch, commits, reviewed, ran, investigated>> /\ pc' = "command"
  BY DEF forge, history, Goto
<1>2. World'
  <2>1. CASE UNCHANGED used
    BY <2>1, WorldFrame DEF IInv
  <2>2. CASE used.faults < MaxFaults /\ Spend("faults")
    BY <2>2, FaultSpent DEF IInv
  <2>3. QED
    BY <2>1, <2>2
<1>3. SameJournal(mem, iter) /\ iter.head # 0 /\ mem.pending = 0 /\ mem \in States
  BY DEF IInv, Stores, Memory, Journalled, Settled
<1>4. CASE UNCHANGED <<iter, mem>>
  <2>1. Stores' /\ Memory' /\ Publishing'
    BY <1>1, <1>4 DEF IInv, Stores, Memory, SameJournal, Journalled, Recorded, Settled,
                      Notifying, Attempting, Publishing, Unpublished
  <2>2. Tip' /\ Owed' /\ Paid'
    BY <1>1, <1>4, DurableFrame DEF durable
  <2>3. QED
    BY <1>2, <2>1, <2>2 DEF IInv
<1>5. CASE mem.review \in reviewed /\ mem.review = look.head
           /\ Saved([mem EXCEPT !.review = 0])
  <2>1. /\ iter' = mem' /\ mem' \in States /\ mem'.head = mem.head /\ mem'.review = 0
        /\ mem'.attempts = mem.attempts /\ mem'.last = mem.last /\ mem'.pending = mem.pending
    BY <1>3, <1>5, ReviewedFields DEF Saved
  <2>2. Stores' /\ Memory' /\ Publishing'
    BY <1>1, <1>3, <2>1 DEF IInv, Stores, Memory, SameJournal, Journalled, Recorded, Settled,
                            Notifying, Attempting, Publishing, Unpublished
  <2>3. Tip' /\ Paid'
    BY <1>1, <1>3, <2>1, TipFrame, PaidFrame DEF IInv, SameJournal
  <2>4. Owed'
    BY <1>1, <1>3, <1>5, <2>1 DEF IInv, Owed, SameJournal
  <2>5. QED
    BY <1>2, <2>2, <2>3, <2>4 DEF IInv
<1>6. QED
  BY <1>4, <1>5

LEMMA ReadCommandStep ==
    ASSUME IInv, ReadCommand
    PROVE  IInv'
<1> DEFINE k == Newest(commands)
<1>1. World' /\ UNCHANGED <<record, rec, branch, commits, reviewed, ran, investigated>>
  BY WorldFrame DEF IInv, forge, reviews, history, ReadCommand
<1>2. k \in Nat /\ commands \in SUBSET Nat
  <2>1. used.commands \in Nat /\ commands \in SUBSET (1..used.commands)
    BY IssueAssumption DEF IInv, World
  <2>2. QED
    BY <2>1, NewestIsNat
<1>3. /\ SameJournal(mem, iter) /\ iter.head # 0 /\ mem.pending = 0 /\ mem \in States
      /\ look \in Looks
  BY DEF IInv, Stores, Memory, Journalled, Settled, ReadCommand
<1> HIDE DEF k
<1>4. CASE Goto("trigger") /\ UNCHANGED <<iter, mem, look>>
  <2>1. Stores' /\ Memory' /\ Publishing'
    BY <1>1, <1>4 DEF IInv, Goto, Stores, Memory, SameJournal, Journalled, Recorded, Settled,
                      Notifying, Attempting, Publishing, Unpublished
  <2>2. Tip' /\ Owed' /\ Paid'
    BY <1>1, <1>4, DurableFrame DEF Goto, durable
  <2>3. QED
    BY <1>1, <2>1, <2>2 DEF IInv
<1>5. CASE /\ IsNewCommand(k) /\ MayAttempt
           /\ Saved([mem EXCEPT !.last = k, !.attempts = @ + 1])
           /\ look' = [look EXCEPT !.commands = commands, !.next = "trigger"]
           /\ Goto("revise")
  <2>1. /\ iter' = mem' /\ mem' \in States /\ mem'.head = mem.head
        /\ mem'.review = mem.review /\ mem'.pending = mem.pending
        /\ mem'.attempts = mem.attempts + 1 /\ mem'.last = k
    BY <1>2, <1>3, <1>5, AttemptFields DEF Saved, MayAttempt
  <2>2. look' \in Looks /\ look'.next = "trigger"
    BY <1>2, <1>3, <1>5, LookCommandsFields DEF Goals
  <2>3. k > iter.last /\ iter.last \in Nat /\ iter.attempts \in Nat
    BY <1>3, <1>5 DEF IsNewCommand, SameJournal, States
  <2>4. Stores' /\ Memory' /\ Publishing'
    BY <1>1, <1>3, <1>5, <2>1, <2>2
       DEF IInv, Goto, Stores, Memory, SameJournal, Journalled, Recorded, Settled,
           Notifying, Attempting, Publishing, Unpublished
  <2>5. Tip' /\ Owed'
    BY <1>1, <1>3, <2>1, TipFrame, OwedFrame DEF IInv, SameJournal
  <2>6. Paid'
    <3>1. pc' = "revise"
      BY <1>5 DEF Goto
    <3>2. \A i \in DOMAIN ran : ran[i] < k /\ ran[i] \in Nat
      BY <1>2, <2>3, SMTT(30) DEF IInv, Paid, World
    <3>3. Len(ran) < iter.attempts + 1 /\ Len(ran) \in Nat
      BY <2>3 DEF IInv, Paid, World
    <3>4. /\ iter'.last = k /\ iter'.attempts = iter.attempts + 1 /\ record'.last = record.last
          /\ UNCHANGED <<ran, investigated>>
      BY <1>1, <1>3, <2>1 DEF SameJournal
    <3>5. QED
      BY <1>2, <2>3, <3>1, <3>2, <3>3, <3>4 DEF IInv, Paid, Increasing
  <2>7. QED
    BY <1>1, <2>4, <2>5, <2>6 DEF IInv
<1>6. CASE /\ IsNewCommand(k) /\ Saved([mem EXCEPT !.last = k, !.notice = "limit"])
           /\ look' = [look EXCEPT !.next = "trigger"]
           /\ Goto("notice")
  <2>1. /\ iter' = mem' /\ mem' \in States /\ mem'.head = mem.head
        /\ mem'.review = mem.review /\ mem'.pending = mem.pending
        /\ mem'.attempts = mem.attempts /\ mem'.last = k
    BY <1>2, <1>3, <1>6, LimitFields DEF Saved
  <2>2. look' \in Looks /\ look'.next = "trigger"
    BY <1>3, <1>6, LookNextFields DEF Goals
  <2>3. k > iter.last /\ iter.last \in Nat
    BY <1>3, <1>6 DEF IsNewCommand, SameJournal, States
  <2>4. Stores' /\ Memory' /\ Publishing'
    BY <1>1, <1>3, <1>6, <2>1, <2>2
       DEF IInv, Goto, Stores, Memory, SameJournal, Journalled, Recorded, Settled,
           Notifying, Attempting, Publishing, Unpublished
  <2>5. Tip' /\ Owed'
    BY <1>1, <1>3, <2>1, TipFrame, OwedFrame DEF IInv, SameJournal
  <2>6. Paid'
    <3>1. \A i \in DOMAIN ran : ran[i] <= k /\ ran[i] \in Nat
      BY <1>2, <2>3 DEF IInv, Paid, World
    <3>2. QED
      BY <1>1, <1>3, <1>6, <2>1, <3>1 DEF IInv, Goto, Paid, Increasing, SameJournal
  <2>7. QED
    BY <1>1, <2>4, <2>5, <2>6 DEF IInv
<1>7. QED
  BY <1>4, <1>5, <1>6 DEF ReadCommand, k

LEMMA ContentIsContent ==
    ASSUME World
    PROVE  Content \in Contents
<1>1. used.mentions \in Nat
  BY IssueAssumption DEF World
<1>2. mentions \in SUBSET Nat /\ edits \in Nat
  BY <1>1 DEF World
<1>3. QED
  BY <1>2 DEF Content, Contents

LEMMA StartRevisionStep ==
    ASSUME IInv, StartRevision
    PROVE  IInv'
<1> USE DEF StartRevision
<1>1. look' \in Looks /\ look'.next = look.next
  BY ContentIsContent, LookContentFields DEF IInv, Stores
<1>2. /\ SameJournal(mem, iter) /\ iter.head # 0 /\ mem.pending = 0 /\ mem \in States
      /\ look.next = "trigger" /\ mem.last = iter.last
  BY DEF IInv, Stores, Memory, SameJournal, Journalled, Settled, Attempting
<1>3. iter.last \in Nat /\ iter.attempts \in Nat /\ ran \in Seq(Nat) /\ Len(ran) \in Nat
  BY DEF IInv, Stores, States, World
<1>4. /\ ran' \in Seq(Nat) /\ Increasing(ran') /\ Len(ran') = Len(ran) + 1
      /\ \A i \in DOMAIN ran' : ran'[i] <= iter.last
  BY <1>2, <1>3, NewerId DEF IInv, Paid
<1>5. World'
  BY <1>4 DEF IInv, World, people, forge
<1>6. Stores' /\ Memory' /\ Publishing'
  BY <1>1, <1>2 DEF IInv, Goto, Stores, Memory, SameJournal, Journalled, Recorded, Settled,
                    Notifying, Attempting, Publishing, Unpublished, durable
<1>7. Tip' /\ Owed'
  BY TipFrame, OwedFrame DEF IInv, durable, forge, reviews
<1>8. Paid'
  <2>1. Len(ran') <= iter.attempts
    BY <1>3, <1>4 DEF IInv, Paid
  <2>2. QED
    BY <1>4, <2>1 DEF IInv, Goto, Paid, Increasing, durable
<1>9. QED
  BY <1>5, <1>6, <1>7, <1>8 DEF IInv

LEMMA EndRevisionStep ==
    ASSUME IInv, EndRevision
    PROVE  IInv'
<1> USE DEF EndRevision
<1>1. World' /\ UNCHANGED <<durable, rec, look, branch, commits, reviewed, ran, investigated>>
  BY WorldFrame DEF IInv, forge, reviews, history
<1>2. pc' \in {"recheck", "notice"}
  BY DEF Goto
<1>3. mem' \in States /\ SameJournal(mem', mem)
  <2>1. CASE UNCHANGED mem
    BY <2>1 DEF IInv, Stores, SameJournal
  <2>2. CASE mem' = [mem EXCEPT !.notice = "blocked"]
    BY <2>2, NoticeFields, NoticeKinds DEF IInv, Stores, Texts
  <2>3. QED
    BY <2>1, <2>2
<1>4. Stores' /\ Memory' /\ Publishing'
  BY <1>1, <1>2, <1>3
     DEF IInv, Stores, Memory, SameJournal, Journalled, Recorded, Settled,
         Notifying, Attempting, Publishing, Unpublished, durable
<1>5. Tip' /\ Owed' /\ Paid'
  BY <1>1, <1>2, DurableFrame
<1>6. QED
  BY <1>1, <1>4, <1>5 DEF IInv

LEMMA RecheckStep ==
    ASSUME IInv, Recheck
    PROVE  IInv'
<1> USE DEF Recheck
<1>1. UNCHANGED <<record, rec, look, branch, reviewed, ran, investigated>> /\ pc' = "push"
  BY DEF Goto, reviews, history
<1>2. /\ SameJournal(mem, iter) /\ iter.head # 0 /\ mem.pending = 0 /\ mem \in States
      /\ look.next = "trigger" /\ mem.head \in Nat /\ mem.last \in Int
  BY DEF IInv, Stores, Memory, Journalled, Settled, Attempting, States
<1>3. /\ commits' \in Seq([parent : Nat, author : Int])
      /\ Len(commits') = Len(commits) + 1 /\ Len(commits) \in Nat
      /\ commits'[Len(commits')].parent = mem.head
      /\ \A c \in 1..Len(commits) : commits'[c] = commits[c]
  BY <1>2, CommitAdded DEF IInv
<1>4. branch \in 0..Len(commits)
  BY DEF IInv, World
<1>5. /\ iter' = mem' /\ mem' \in States /\ mem'.head = mem.head /\ mem'.review = mem.review
      /\ mem'.attempts = mem.attempts /\ mem'.last = mem.last
      /\ mem'.pending = Len(commits')
  <2>1. Len(commits') \in Nat
    BY <1>3
  <2>2. mem' = [mem EXCEPT !.pending = Len(commits')] /\ iter' = mem'
    BY DEF Saved
  <2>3. QED
    BY <1>2, <2>1, <2>2, PendingFields
<1>6. World'
  <2>1. branch' \in 0..Len(commits')
    BY <1>1, <1>3, <1>4
  <2>2. UNCHANGED <<people, pr, prAuthor, status, investigated, ran, prs, used>>
    BY DEF people, history
  <2>3. QED
    BY <1>3, <2>1, <2>2, BranchMovesFree DEF IInv
<1>7. Stores' /\ Memory' /\ Publishing'
  BY <1>1, <1>2, <1>3, <1>5
     DEF IInv, Stores, Memory, SameJournal, Journalled, Recorded, Settled,
         Notifying, Attempting, Publishing, Unpublished
<1>8. Tip'
  <2>1. branch # 0 => commits'[branch] = commits[branch]
    BY <1>3, <1>4
  <2>2. QED
    BY <1>1, <1>2, <1>5, <2>1 DEF IInv, Tip, Foreign, SameJournal
<1>9. Owed' /\ Paid'
  BY <1>1, <1>2, <1>5, OwedFrame, PaidFrame DEF IInv, SameJournal
<1>10. QED
  BY <1>6, <1>7, <1>8, <1>9 DEF IInv

LEMMA PushRevisionStep ==
    ASSUME IInv, PushRevision
    PROVE  IInv'
<1> USE DEF PushRevision
<1>1. /\ UNCHANGED <<durable, mem, rec, look, commits, reviewed, ran, investigated>>
      /\ pc' = "pushed" /\ branch' = mem.pending
  BY DEF Goto, reviews
<1>2. SameJournal(mem, iter) /\ iter.head # 0 /\ mem.pending \in 1..Len(commits)
  BY DEF IInv, Memory, Journalled
<1>3. World'
  <2>1. branch' \in 0..Len(commits')
    BY <1>1, <1>2
  <2>2. UNCHANGED <<people, pr, prAuthor, status, investigated, ran, prs, used>>
    BY DEF people
  <2>3. commits' \in Seq([parent : Nat, author : Int])
    BY <1>1 DEF IInv, World
  <2>4. QED
    BY <2>1, <2>2, <2>3, BranchMovesFree DEF IInv
<1>4. Stores' /\ Memory' /\ Publishing'
  BY <1>1, <1>2
     DEF IInv, Stores, Memory, SameJournal, Journalled, Recorded, Settled,
         Notifying, Attempting, Publishing, Unpublished, durable
<1>5. Tip'
  BY <1>1, <1>2 DEF Tip, SameJournal, durable
<1>6. Owed' /\ Paid'
  BY <1>1, OwedFrame, PaidFrame DEF IInv, durable
<1>7. QED
  BY <1>3, <1>4, <1>5, <1>6 DEF IInv

LEMMA SavePushStep ==
    ASSUME IInv, SavePush
    PROVE  IInv'
<1> USE DEF SavePush
<1>1. /\ UNCHANGED <<record, rec, look, branch, commits, reviewed, ran, investigated>>
      /\ pc' = "notice" /\ World'
  BY WorldFrame DEF IInv, Goto, forge, reviews, history
<1>2. /\ SameJournal(mem, iter) /\ iter.head # 0 /\ mem.pending # 0 /\ branch # 0
      /\ branch = mem.pending \/ Foreign(branch)
      /\ mem \in States /\ look.next = "trigger" /\ mem.pending \in Nat
  BY DEF IInv, Stores, Memory, Journalled, Attempting, States
<1>3. /\ iter' = mem' /\ mem' \in States /\ mem'.pending = 0 /\ mem'.head = mem.pending
      /\ mem'.review = mem.pending /\ mem'.attempts = mem.attempts /\ mem'.last = mem.last
  BY <1>2, ReconciledFields DEF Saved
<1>4. Stores' /\ Memory' /\ Publishing'
  BY <1>1, <1>2, <1>3
     DEF IInv, Stores, Memory, SameJournal, Journalled, Recorded, Settled,
         Notifying, Attempting, Publishing, Unpublished
<1>5. Tip' /\ Owed'
  BY <1>1, <1>2, <1>3 DEF Tip, Owed, Foreign
<1>6. Paid'
  BY <1>1, <1>2, <1>3, PaidFrame DEF IInv, SameJournal
<1>7. QED
  BY <1>1, <1>4, <1>5, <1>6 DEF IInv

LEMMA AttemptFailsStep ==
    ASSUME IInv, AttemptFails
    PROVE  IInv'
<1> USE DEF AttemptFails
<1>1. /\ UNCHANGED <<record, rec, branch, commits, reviewed, ran, investigated>>
      /\ pc' = "failed" /\ World'
  BY WorldFrame DEF IInv, Goto, forge, reviews, history
<1>2. SameJournal(mem, iter) /\ iter.head # 0 /\ mem \in States /\ look \in Looks
  BY DEF IInv, Stores, Memory, Journalled
<1>3. iter' = mem' /\ mem' \in States /\ mem'.notice = "stopped" /\ SameJournal(mem', mem)
  BY <1>2, NoticeFields, NoticeKinds DEF Saved, Texts
<1>4. look' \in Looks /\ look'.next = "idle"
  BY <1>2, LookNextFields DEF Goals
<1>5. Stores' /\ Memory' /\ Publishing'
  BY <1>1, <1>2, <1>3, <1>4
     DEF IInv, Stores, Memory, SameJournal, Journalled, Recorded, Settled,
         Notifying, Attempting, Publishing, Unpublished
<1>6. Tip' /\ Owed' /\ Paid'
  BY <1>1, <1>2, <1>3, TipFrame, OwedFrame, PaidFrame DEF IInv, SameJournal
<1>7. QED
  BY <1>1, <1>5, <1>6 DEF IInv

LEMMA ReportFailureStep ==
    ASSUME IInv, ReportFailure
    PROVE  IInv'
<1> USE DEF ReportFailure
<1>1. World' /\ UNCHANGED <<durable, branch, commits, reviewed, ran, investigated>>
  BY WorldFrame DEF IInv, forge, reviews, history
<1>2. CASE Goto("notice") /\ UNCHANGED <<mem, rec, look>>
  <2>1. Stores' /\ Memory' /\ Publishing'
    BY <1>1, <1>2
       DEF IInv, Goto, Stores, Memory, SameJournal, Journalled, Recorded, Settled,
           Notifying, Attempting, Publishing, Unpublished, durable
  <2>2. Tip' /\ Owed' /\ Paid'
    BY <1>1, <1>2, DurableFrame DEF Goto
  <2>3. QED
    BY <1>1, <2>1, <2>2 DEF IInv
<1>3. CASE EndPass
  BY <1>1, <1>3, PassEnds
<1>4. QED
  BY <1>2, <1>3

-----------------------------------------------------------------------------

(* The issue half of a pass.                                               *)

LEMMA NewestMention ==
    ASSUME World
    PROVE  Newest(mentions) \in Nat
<1>1. used.mentions \in Nat /\ mentions \in SUBSET (1..used.mentions)
  BY IssueAssumption DEF World
<1>2. QED
  BY <1>1, NewestIsNat

LEMMA ReadTriggerStep ==
    ASSUME IInv, ReadTrigger
    PROVE  IInv'
<1> USE DEF ReadTrigger
<1>1. World' /\ UNCHANGED <<durable, branch, commits, reviewed, ran, investigated>>
  BY WorldFrame DEF IInv, forge, reviews, history
<1>2. CASE EndPass
  BY <1>1, <1>2, PassEnds
<1>3. CASE /\ look' = [NoLook EXCEPT !.trigger = Newest(mentions), !.next = "issue"]
           /\ rec' = record /\ mem' = NoState
           /\ Goto(IF record.pending.commit # 0 THEN "pending" ELSE "issue")
  <2>1. look' \in Looks /\ look'.next = "issue"
    BY <1>3, NewestMention, LookTriggerFields DEF IInv
  <2>2. Stores' /\ Memory' /\ Publishing'
    BY <1>1, <1>3, <2>1, NoStateIsState
       DEF IInv, Goto, Stores, Memory, Journalled, Recorded, Settled, Notifying,
           Attempting, Publishing, Unpublished, durable
  <2>3. Tip' /\ Owed' /\ Paid'
    BY <1>1, <1>3, DurableFrame DEF Goto
  <2>4. QED
    BY <1>1, <2>2, <2>3 DEF IInv
<1>4. QED
  BY <1>2, <1>3

LEMMA ResumePublicationStep ==
    ASSUME IInv, ResumePublication
    PROVE  IInv'
<1> USE DEF ResumePublication
<1>1. World' /\ UNCHANGED <<durable, branch, commits, reviewed, ran, investigated>>
  BY WorldFrame DEF IInv, forge, reviews, history
<1>2. rec \in Records
  BY DEF IInv, Stores
<1>3. CASE rec' = [rec EXCEPT !.pr = TRUE] /\ Goto("track") /\ UNCHANGED <<mem, look>>
  <2>1. rec' \in Records /\ rec'.pr /\ rec'.last = rec.last /\ rec'.pending = rec.pending
    BY <1>2, <1>3, PrFields
  <2>2. Stores' /\ Memory' /\ Publishing'
    BY <1>1, <1>3, <2>1
       DEF IInv, Goto, Stores, Memory, Journalled, Recorded, Settled, Notifying,
           Attempting, Publishing, Unpublished, durable
  <2>3. Tip' /\ Owed' /\ Paid'
    BY <1>1, <1>3, DurableFrame DEF Goto
  <2>4. QED
    BY <1>1, <2>2, <2>3 DEF IInv
<1>4. CASE Goto("open") /\ UNCHANGED <<mem, rec, look>>
  <2>1. Stores' /\ Memory' /\ Publishing'
    BY <1>1, <1>4
       DEF IInv, Goto, Stores, Memory, Journalled, Recorded, Settled, Notifying,
           Attempting, Publishing, Unpublished, durable
  <2>2. Tip' /\ Owed' /\ Paid'
    BY <1>1, <1>4, DurableFrame DEF Goto
  <2>3. QED
    BY <1>1, <2>1, <2>2 DEF IInv
<1>5. CASE EndPass
  BY <1>1, <1>5, PassEnds
<1>6. QED
  BY <1>3, <1>4, <1>5

LEMMA OpenPrStep ==
    ASSUME IInv, OpenPr
    PROVE  IInv'
<1> USE DEF OpenPr
<1>1. UNCHANGED <<durable, branch, commits, reviewed, ran, investigated>>
  BY DEF reviews
<1>2. World'
  <2>1. pr' \in {"none", "open", "closed"} /\ prAuthor' \in {Host, People} /\ prs' \in Nat
    BY DEF IInv, World
  <2>2. QED
    BY <2>1 DEF IInv, World, people
<1>3. CASE rec' = [rec EXCEPT !.pr = TRUE] /\ Goto("track") /\ UNCHANGED <<mem, look>>
  <2>1. rec' \in Records /\ rec'.pr /\ rec'.last = rec.last /\ rec'.pending = rec.pending
    BY <1>3, PrFields DEF IInv, Stores
  <2>2. Stores' /\ Memory' /\ Publishing'
    BY <1>1, <1>3, <2>1
       DEF IInv, Goto, Stores, Memory, Journalled, Recorded, Settled, Notifying,
           Attempting, Publishing, Unpublished, durable
  <2>3. Tip' /\ Owed' /\ Paid'
    BY <1>1, <1>3, DurableFrame DEF Goto
  <2>4. QED
    BY <1>2, <2>2, <2>3 DEF IInv
<1>4. CASE EndPass
  BY <1>1, <1>2, <1>4, PassEnds
<1>5. QED
  BY <1>3, <1>4

LEMMA TrackStep ==
    ASSUME IInv, Track
    PROVE  IInv'
<1> USE DEF Track
<1>1. /\ World' /\ pc' = "clear"
      /\ UNCHANGED <<record, mem, rec, look, branch, commits, reviewed, ran, investigated>>
  BY WorldFrame DEF IInv, Goto, forge, reviews, history
<1>2. /\ rec.pending.commit # 0 /\ rec.pending = record.pending /\ rec.pr
      /\ rec.pending.commit \in Nat
  BY DEF IInv, Stores, Records, Publishing, Recorded
<1>3. CASE iter.head # 0
  <2>1. iter' = iter
    BY <1>3
  <2>2. Stores' /\ Memory' /\ Publishing'
    BY <1>1, <1>2, <1>3, <2>1
       DEF IInv, Stores, Memory, Journalled, Recorded, Settled, Notifying,
           Attempting, Publishing, Unpublished
  <2>3. Tip' /\ Owed' /\ Paid'
    BY <1>1, <2>1, DurableFrame DEF durable
  <2>4. QED
    BY <1>1, <2>2, <2>3 DEF IInv
<1>4. CASE iter.head = 0
  <2>1. /\ iter' \in States /\ iter'.head = record.pending.commit
        /\ iter'.review = iter'.head /\ iter'.pending = 0 /\ iter'.last = 0 /\ iter'.attempts = 0
    BY <1>2, <1>4, NewStateFields
  <2>2. iter.last = 0 /\ iter.attempts = 0
    BY <1>4 DEF IInv, Publishing, NoState
  <2>3. Stores' /\ Memory' /\ Publishing'
    BY <1>1, <1>2, <2>1
       DEF IInv, Stores, Memory, Journalled, Recorded, Settled, Notifying,
           Attempting, Publishing, Unpublished
  <2>4. Tip' /\ Owed'
    BY <1>1, <1>2, <1>4, <2>1 DEF IInv, Tip, Owed, Foreign
  <2>5. Paid'
    BY <1>1, <2>1, <2>2, PaidFrame DEF IInv
  <2>6. QED
    BY <1>1, <2>3, <2>4, <2>5 DEF IInv
<1>5. QED
  BY <1>3, <1>4

LEMMA ClearPublicationStep ==
    ASSUME IInv, ClearPublication
    PROVE  IInv'
<1> USE DEF ClearPublication
<1>1. World' /\ UNCHANGED <<iter, mem, look, branch, commits, reviewed, ran, investigated>>
  BY WorldFrame DEF IInv, forge, reviews, history
<1>2. /\ rec.pr /\ rec.last = record.last /\ iter.head # 0 /\ rec \in Records
      /\ pc' \in {"issue", "mark"}
  BY DEF IInv, Stores, Goto, Publishing, Recorded
<1>3. NoPublication \in [commit : Nat, content : Contents]
  BY DEF NoPublication, NoContent, Contents
<1>4. /\ record' = rec' /\ rec' \in Records /\ rec'.pr /\ rec'.last = rec.last
  BY <1>2, <1>3, PublicationFields
<1>5. Stores' /\ Memory' /\ Publishing'
  BY <1>1, <1>2, <1>4
     DEF IInv, Stores, Memory, Journalled, Recorded, Settled, Notifying,
         Attempting, Publishing, Unpublished
<1>6. Tip' /\ Owed'
  BY <1>1, <1>2, OwedFrame DEF IInv, Tip, Foreign
<1>7. Paid'
  BY <1>1, <1>2, <1>4, PaidFrame DEF IInv
<1>8. QED
  BY <1>1, <1>5, <1>6, <1>7 DEF IInv

LEMMA ReadIssueStep ==
    ASSUME IInv, ReadIssue
    PROVE  IInv'
<1> USE DEF ReadIssue
<1>1. World' /\ UNCHANGED <<durable, branch, commits, reviewed, ran, investigated>>
  BY WorldFrame DEF IInv, forge, reviews, history
<1>2. CASE look' = [look EXCEPT !.content = Content] /\ Goto("triaged") /\ UNCHANGED <<mem, rec>>
  <2>1. look' \in Looks
    BY <1>2, ContentIsContent, LookContentFields DEF IInv, Stores
  <2>2. Stores' /\ Memory' /\ Publishing'
    BY <1>1, <1>2, <2>1
       DEF IInv, Goto, Stores, Memory, Journalled, Recorded, Settled, Notifying,
           Attempting, Publishing, Unpublished, durable
  <2>3. Tip' /\ Owed' /\ Paid'
    BY <1>1, <1>2, DurableFrame DEF Goto
  <2>4. QED
    BY <1>1, <2>2, <2>3 DEF IInv
<1>3. CASE EndPass
  BY <1>1, <1>3, PassEnds
<1>4. QED
  BY <1>2, <1>3

LEMMA AuthorizeStep ==
    ASSUME IInv, Authorize
    PROVE  IInv'
<1> USE DEF Authorize
<1>1. World' /\ UNCHANGED <<iter, branch, commits, reviewed, ran, investigated>>
  BY WorldFrame DEF IInv, forge, reviews, history
<1>2. CASE Goto("mark") /\ UNCHANGED <<record, mem, rec, look>>
  <2>1. Stores' /\ Memory' /\ Publishing'
    BY <1>1, <1>2
       DEF IInv, Goto, Stores, Memory, Journalled, Recorded, Settled, Notifying,
           Attempting, Publishing, Unpublished
  <2>2. Tip' /\ Owed' /\ Paid'
    BY <1>1, <1>2, DurableFrame DEF Goto, durable
  <2>3. QED
    BY <1>1, <2>1, <2>2 DEF IInv
<1>3. CASE /\ ~ rec.pr /\ rec.pending.commit = 0 /\ look.trigger > rec.last
           /\ rec' = [rec EXCEPT !.last = look.trigger] /\ record' = rec'
           /\ Goto("investigate") /\ UNCHANGED <<mem, look>>
  <2>1. rec \in Records /\ record \in Records /\ look.trigger \in Nat /\ record.last \in Nat
    BY DEF IInv, Stores, Looks, Records
  <2>2. rec.last = record.last /\ rec.pending = record.pending /\ ~ record.pr
    BY <1>3 DEF IInv, Publishing, Recorded
  <2>3. /\ rec' \in Records /\ rec'.pr = rec.pr /\ rec'.last = look.trigger
        /\ rec'.pending = rec.pending
    BY <1>3, <2>1, MentionFields
  <2>4. Stores' /\ Memory' /\ Publishing'
    BY <1>1, <1>3, <2>2, <2>3
       DEF IInv, Goto, Stores, Memory, Journalled, Recorded, Settled, Notifying,
           Attempting, Publishing, Unpublished
  <2>5. Tip' /\ Owed'
    BY <1>1, <1>3, <2>2, <2>3, TipFrame, OwedFrame DEF IInv
  <2>6. \A i \in DOMAIN investigated :
            investigated[i] < look.trigger /\ investigated[i] <= look.trigger
    <3>1. \A i \in DOMAIN investigated : investigated[i] \in Nat
      BY DEF IInv, World
    <3>2. \A i \in DOMAIN investigated : investigated[i] <= record.last
      BY DEF IInv, Paid
    <3>3. look.trigger > record.last
      BY <1>3, <2>2
    <3>4. QED
      BY <2>1, <3>1, <3>2, <3>3
  <2>7. Paid'
    <3>1. /\ pc' = "investigate" /\ record'.last = look.trigger
          /\ rec'.last = look.trigger /\ look' = look
      BY <1>3, <2>3 DEF Goto
    <3>2. Paid
      BY DEF IInv
    <3>3. QED
      BY <1>1, <2>6, <3>1, <3>2 DEF Paid, Increasing
  <2>8. QED
    BY <1>1, <2>4, <2>5, <2>7 DEF IInv
<1>4. CASE EndPass /\ UNCHANGED record
  BY <1>1, <1>4, PassEnds DEF durable
<1>5. QED
  BY <1>2, <1>3, <1>4

LEMMA StartFixStep ==
    ASSUME IInv, StartFix
    PROVE  IInv'
<1> USE DEF StartFix
<1>1. /\ UNCHANGED <<durable, mem, rec, look, branch, commits, reviewed, ran>>
      /\ pc' = "fixing"
  BY DEF Goto, forge, reviews
<1>2. /\ look.trigger \in Nat /\ rec.last = look.trigger /\ record.last = rec.last
      /\ investigated \in Seq(Nat)
  BY DEF IInv, Stores, Looks, Paid, Publishing, Recorded, World
<1>3. /\ investigated' \in Seq(Nat) /\ Increasing(investigated')
      /\ \A i \in DOMAIN investigated' : investigated'[i] <= look.trigger
  BY <1>2, NewerId DEF IInv, Paid
<1>4. World'
  BY <1>3 DEF IInv, World, people, forge
<1>5. Stores' /\ Memory' /\ Publishing'
  BY <1>1
     DEF IInv, Stores, Memory, Journalled, Recorded, Settled, Notifying,
         Attempting, Publishing, Unpublished, durable
<1>6. Tip' /\ Owed'
  BY <1>1, TipFrame, OwedFrame DEF IInv, durable
<1>7. Paid'
  BY <1>1, <1>2, <1>3 DEF IInv, Paid, Increasing, durable
<1>8. QED
  BY <1>4, <1>5, <1>6, <1>7 DEF IInv

LEMMA EndFixStep ==
    ASSUME IInv, EndFix
    PROVE  IInv'
<1>1. /\ World' /\ pc' \in {"mark", "verify"} /\ pc = "fixing"
      /\ UNCHANGED <<durable, mem, rec, look, branch, commits, reviewed, ran, investigated>>
  BY WorldFrame DEF IInv, EndFix, Goto, forge, reviews, history
<1>2. Stores' /\ Memory' /\ Publishing'
  BY <1>1
     DEF IInv, Stores, Memory, Journalled, Recorded, Settled, Notifying,
         Attempting, Publishing, Unpublished, durable
<1>3. Tip' /\ Owed' /\ Paid'
  BY <1>1, DurableFrame
<1>4. QED
  BY <1>1, <1>2, <1>3 DEF IInv

LEMMA VerifyFixStep ==
    ASSUME IInv, VerifyFix
    PROVE  IInv'
<1>1. /\ UNCHANGED <<iter, branch, reviewed, ran, investigated>> /\ pc = "verify"
      /\ UNCHANGED <<people, pr, prAuthor, status, landed, prs, used>>
  BY DEF VerifyFix, reviews, history
<1>2. rec \in Records /\ look \in Looks
  BY DEF IInv, Stores
<1>3. CASE /\ Goto("mark") /\ UNCHANGED <<record, mem, look, commits>>
           /\ UNCHANGED rec \/ rec' = [rec EXCEPT !.pr = TRUE]
  <2>1. /\ rec' \in Records /\ rec'.last = rec.last /\ rec'.pending = rec.pending
        /\ rec.pr => rec'.pr
    BY <1>2, <1>3, PrFields
  <2>2. World'
    BY <1>1, <1>3 DEF IInv, World, people
  <2>3. Stores' /\ Memory' /\ Publishing'
    BY <1>1, <1>3, <2>1
       DEF IInv, Goto, Stores, Memory, Journalled, Recorded, Settled, Notifying,
           Attempting, Publishing, Unpublished
  <2>4. Tip' /\ Owed' /\ Paid'
    BY <1>1, <1>3, DurableFrame DEF Goto, durable
  <2>5. QED
    BY <2>2, <2>3, <2>4 DEF IInv
<1>4. CASE /\ NewCommit(0, Host)
           /\ rec' = [rec EXCEPT !.pending = [commit |-> Len(commits'), content |-> Content]]
           /\ record' = rec'
           /\ look' = [look EXCEPT !.next = "mark"]
           /\ Goto("create") /\ UNCHANGED mem
  <2>1. /\ commits' \in Seq([parent : Nat, author : Int])
        /\ Len(commits') = Len(commits) + 1 /\ Len(commits) \in Nat
        /\ commits'[Len(commits')].parent = 0
        /\ \A c \in 1..Len(commits) : commits'[c] = commits[c]
    <3>1. Host \in Int /\ 0 \in Nat
      BY DEF Host
    <3>2. QED
      BY <1>4, <3>1, CommitAdded DEF IInv
  <2>2. branch \in 0..Len(commits)
    BY DEF IInv, World
  <2>3. World'
    <3>1. branch' \in 0..Len(commits')
      BY <1>1, <2>1, <2>2
    <3>2. QED
      BY <1>1, <2>1, <3>1, BranchMovesFree DEF IInv, people
  <2>4. /\ ~ rec.pr /\ rec.pending.commit = 0 /\ rec.last = record.last
        /\ rec.pending = record.pending /\ ~ record.pr /\ iter.head = 0
    BY <1>1 DEF IInv, Publishing, Recorded, Unpublished
  <2>5. [commit |-> Len(commits'), content |-> Content] \in [commit : Nat, content : Contents]
    BY <2>1, ContentIsContent DEF IInv
  <2>6. /\ rec' \in Records /\ rec'.last = rec.last
        /\ rec'.pending.commit = Len(commits')
    BY <1>2, <1>4, <2>5, PublicationFields
  <2>7. look' \in Looks /\ look'.next = "mark"
    BY <1>2, <1>4, LookNextFields DEF Goals
  <2>8. Stores' /\ Memory' /\ Publishing'
    BY <1>1, <1>4, <2>1, <2>4, <2>6, <2>7
       DEF IInv, Goto, Stores, Memory, Journalled, Recorded, Settled, Notifying,
           Attempting, Publishing, Unpublished
  <2>9. Tip'
    <3>1. branch # 0 => commits'[branch] = commits[branch]
      BY <2>1, <2>2
    <3>2. branch # 0 => Foreign(branch)
      BY <2>4 DEF IInv, Tip
    <3>3. QED
      BY <1>1, <3>1, <3>2 DEF Tip, Foreign
  <2>10. Owed' /\ Paid'
    BY <1>1, <1>4, <2>4, <2>6, OwedFrame, PaidFrame DEF IInv, Goto
  <2>11. QED
    BY <2>3, <2>8, <2>9, <2>10 DEF IInv
<1>5. CASE EndPass /\ UNCHANGED <<record, commits>>
  <2>1. World'
    BY <1>1, <1>5 DEF IInv, World, people
  <2>2. QED
    BY <1>1, <1>5, <2>1, PassEnds DEF durable
<1>6. QED
  BY <1>3, <1>4, <1>5 DEF VerifyFix

LEMMA CreateBranchStep ==
    ASSUME IInv, CreateBranch
    PROVE  IInv'
<1> USE DEF CreateBranch
<1>1. UNCHANGED <<durable, commits, reviewed, ran, investigated>>
  BY DEF reviews
<1>2. CASE branch' = rec.pending.commit /\ Goto("open") /\ UNCHANGED <<mem, rec, look>>
  <2>1. /\ rec.pending = record.pending /\ rec.pending.commit \in 1..Len(commits)
        /\ iter.head = 0 /\ look.next = "mark"
    BY DEF IInv, Publishing, Recorded
  <2>2. World'
    <3>1. commits' \in Seq([parent : Nat, author : Int]) /\ branch' \in 0..Len(commits')
      BY <1>1, <1>2, <2>1 DEF IInv, World
    <3>2. UNCHANGED <<people, pr, prAuthor, status, investigated, ran, prs, used>>
      BY DEF people
    <3>3. QED
      BY <3>1, <3>2, BranchMovesFree DEF IInv
  <2>3. Stores' /\ Memory' /\ Publishing'
    BY <1>1, <1>2, <2>1
       DEF IInv, Goto, Stores, Memory, Journalled, Recorded, Settled, Notifying,
           Attempting, Publishing, Unpublished, durable
  <2>4. Tip'
    BY <1>1, <1>2, <2>1 DEF Tip, durable
  <2>5. Owed' /\ Paid'
    BY <1>1, <1>2, OwedFrame, PaidFrame DEF IInv, Goto, durable
  <2>6. QED
    BY <2>2, <2>3, <2>4, <2>5 DEF IInv
<1>3. CASE EndPass /\ UNCHANGED <<branch, landed>>
  <2>1. World'
    BY <1>3 DEF IInv, World, people
  <2>2. QED
    BY <1>1, <1>3, <2>1, PassEnds
<1>4. QED
  BY <1>2, <1>3

LEMMA MarkStep ==
    ASSUME IInv, Mark
    PROVE  IInv'
<1> USE DEF Mark
<1>1. World' /\ UNCHANGED <<iter, branch, commits, reviewed, ran, investigated>>
  BY WorldFrame DEF IInv, forge, reviews, history
<1>2. CASE UNCHANGED record
  BY <1>1, <1>2, PassEnds DEF durable
<1>3. CASE record' = [rec EXCEPT !.fingerprint = <<look.content, look.trigger>>]
  <2>1. rec \in Records /\ <<look.content, look.trigger>> \in Contents \X Nat
    BY DEF IInv, Stores, Looks
  <2>2. rec.last = record.last /\ rec.pending = record.pending /\ (record.pr => rec.pr)
    BY DEF IInv, Publishing, Recorded
  <2>3. /\ record' \in Records /\ record'.last = record.last /\ record'.pending = record.pending
        /\ record.pr => record'.pr
    BY <1>3, <2>1, <2>2, FingerprintFields
  <2>4. Stores' /\ pc' = "idle"
    BY <1>1, <2>3, NoStateIsState, NoRecordIsRecord, NoLookIsLook DEF EndPass, IInv, Stores
  <2>5. Memory' /\ Publishing'
    BY <1>1, <2>3, <2>4
       DEF IInv, Memory, Journalled, Recorded, Settled, Notifying, Attempting, Publishing,
           Unpublished
  <2>6. Tip' /\ Owed' /\ Paid'
    BY <1>1, <2>3, <2>4, TipFrame, OwedFrame, PaidFrame DEF IInv
  <2>7. QED
    BY <1>1, <2>4, <2>5, <2>6 DEF IInv
<1>4. QED
  BY <1>2, <1>3

-----------------------------------------------------------------------------

(* The world around the pass.                                              *)

LEMMA PeopleFrame ==
    ASSUME IInv, UNCHANGED <<durable, pass, branch, commits, ran, investigated>>,
           reviewed \subseteq reviewed', World'
    PROVE  IInv'
<1>1. Stores'
  BY DEF IInv, Stores, durable, pass
<1>2. Memory'
  BY DEF IInv, Memory, SameJournal, Foreign, durable, pass
<1>3. Publishing'
  BY DEF IInv, Publishing, durable, pass
<1>4. Tip' /\ Owed'
  BY TipFrame, OwedFrame DEF IInv, durable
<1>5. Paid'
  BY DEF IInv, Paid, Increasing, durable, pass
<1>6. QED
  BY <1>1, <1>2, <1>3, <1>4, <1>5 DEF IInv

LEMMA InterruptedStep ==
    ASSUME IInv, Interrupted
    PROVE  IInv'
<1>1. World'
  BY FaultSpent DEF IInv, Interrupted
<1>2. QED
  BY <1>1, PassEnds DEF Interrupted, forge, history

LEMMA ReviewCompletesStep ==
    ASSUME IInv, NEW c \in requested, ReviewCompletes(c)
    PROVE  IInv'
<1>1. World'
  BY WorldFrame DEF IInv, ReviewCompletes
<1>2. QED
  BY <1>1, PeopleFrame DEF ReviewCompletes, forge, history

LEMMA UsedFields ==
    ASSUME World, NEW b \in {"mentions", "commands", "meddling"}, Spend(b),
           b = "mentions" => used.mentions < MaxMentions,
           b = "commands" => used.commands < MaxCommands,
           b = "meddling" => used.meddling < MaxMeddling
    PROVE  /\ used' \in [mentions : 0..MaxMentions, commands : 0..MaxCommands,
                         meddling : 0..MaxMeddling, faults : 0..MaxFaults]
           /\ used.mentions \in Nat /\ used.commands \in Nat
           /\ used'.mentions = IF b = "mentions" THEN used.mentions + 1 ELSE used.mentions
           /\ used'.commands = IF b = "commands" THEN used.commands + 1 ELSE used.commands
<1>1. used \in [mentions : 0..MaxMentions, commands : 0..MaxCommands,
                meddling : 0..MaxMeddling, faults : 0..MaxFaults]
  BY DEF World
<1>2. CASE b = "mentions"
  <2>1. used.mentions + 1 \in 0..MaxMentions
    BY <1>1, <1>2, IssueAssumption
  <2>2. QED
    BY <1>1, <1>2, <2>1, IssueAssumption DEF Spend
<1>3. CASE b = "commands"
  <2>1. used.commands + 1 \in 0..MaxCommands
    BY <1>1, <1>3, IssueAssumption
  <2>2. QED
    BY <1>1, <1>3, <2>1, IssueAssumption DEF Spend
<1>4. CASE b = "meddling"
  <2>1. used.meddling + 1 \in 0..MaxMeddling
    BY <1>1, <1>4, IssueAssumption
  <2>2. QED
    BY <1>1, <1>4, <2>1, IssueAssumption DEF Spend
<1>5. QED
  BY <1>2, <1>3, <1>4

LEMMA CommentStep ==
    ASSUME IInv, PostMention \/ PostCommand
    PROVE  IInv'
<1>1. CASE PostMention
  <2>1. /\ used' \in [mentions : 0..MaxMentions, commands : 0..MaxCommands,
                      meddling : 0..MaxMeddling, faults : 0..MaxFaults]
        /\ used'.mentions = used.mentions + 1 /\ used'.commands = used.commands
        /\ used.mentions \in Nat
    BY <1>1, UsedFields DEF IInv, PostMention
  <2>2. mentions' \subseteq 1..used'.mentions
    <3>1. mentions \subseteq 1..used.mentions /\ mentions' = mentions \cup {used.mentions + 1}
      BY <1>1, <2>1 DEF IInv, World, PostMention
    <3>2. /\ \A x \in 1..used.mentions : x \in 1..(used.mentions + 1)
          /\ used.mentions + 1 \in 1..(used.mentions + 1)
      BY <2>1
    <3>3. QED
      BY <2>1, <3>1, <3>2
  <2>3. World'
    BY <1>1, <2>1, <2>2 DEF IInv, World, PostMention, forge, history
  <2>4. QED
    BY <1>1, <2>3, PeopleFrame DEF PostMention, forge, reviews, history
<1>2. CASE PostCommand
  <2>1. /\ used' \in [mentions : 0..MaxMentions, commands : 0..MaxCommands,
                      meddling : 0..MaxMeddling, faults : 0..MaxFaults]
        /\ used'.commands = used.commands + 1 /\ used'.mentions = used.mentions
        /\ used.commands \in Nat
    BY <1>2, UsedFields DEF IInv, PostCommand
  <2>2. commands' \subseteq 1..used'.commands
    <3>1. commands \subseteq 1..used.commands /\ commands' = commands \cup {used.commands + 1}
      BY <1>2, <2>1 DEF IInv, World, PostCommand
    <3>2. /\ \A x \in 1..used.commands : x \in 1..(used.commands + 1)
          /\ used.commands + 1 \in 1..(used.commands + 1)
      BY <2>1
    <3>3. QED
      BY <2>1, <3>1, <3>2
  <2>3. World'
    BY <1>2, <2>1, <2>2 DEF IInv, World, PostCommand, forge, history
  <2>4. QED
    BY <1>2, <2>3, PeopleFrame DEF PostCommand, forge, reviews, history
<1>3. QED
  BY <1>1, <1>2

LEMMA MeddleFields ==
    ASSUME World, Meddle
    PROVE  /\ used' \in [mentions : 0..MaxMentions, commands : 0..MaxCommands,
                         meddling : 0..MaxMeddling, faults : 0..MaxFaults]
           /\ used'.mentions = used.mentions /\ used'.commands = used.commands
BY UsedFields DEF Meddle

LEMMA MeddlingStep ==
    ASSUME IInv, DeleteComment \/ EditIssue \/ ChangePr
    PROVE  IInv'
<1>1. CASE DeleteComment
  <2>1. World'
    BY <1>1, MeddleFields DEF IInv, World, DeleteComment, forge, history
  <2>2. QED
    BY <1>1, <2>1, PeopleFrame DEF DeleteComment, forge, reviews, history
<1>2. CASE EditIssue
  <2>1. edits' \in Nat /\ issueOpen' \in BOOLEAN
    <3>1. edits \in Nat /\ issueOpen \in BOOLEAN
      BY DEF IInv, World
    <3>2. edits' \in Nat
      BY <1>2, <3>1 DEF EditIssue
    <3>3. issueOpen' \in BOOLEAN
      BY <1>2, <3>1, Zenon DEF EditIssue
    <3>4. QED
      BY <3>2, <3>3
  <2>2. World'
    BY <1>2, <2>1, MeddleFields DEF IInv, World, EditIssue, forge, history
  <2>3. QED
    BY <1>2, <2>2, PeopleFrame DEF EditIssue, forge, reviews, history
<1>3. CASE ChangePr
  <2>1. pr' \in {"none", "open", "closed"} /\ prAuthor' \in {Host, People} /\ prs' \in Nat
    BY <1>3 DEF IInv, World, ChangePr
  <2>2. World'
    BY <1>3, <2>1, MeddleFields DEF IInv, World, ChangePr, people
  <2>3. QED
    BY <1>3, <2>2, PeopleFrame DEF ChangePr, reviews
<1>4. QED
  BY <1>1, <1>2, <1>3

LEMMA ForeignPushStep ==
    ASSUME IInv, ForeignPush
    PROVE  IInv' /\ branch' \in 1..Len(commits') /\ commits'[branch'].author = People
<1>1. branch \in 0..Len(commits) /\ Len(commits) \in Nat
  BY DEF IInv, World
<1>2. /\ commits' \in Seq([parent : Nat, author : Int])
      /\ Len(commits') = Len(commits) + 1 /\ branch' = Len(commits')
      /\ commits'[branch'].author = People
      /\ \A c \in 1..Len(commits) : commits'[c] = commits[c]
  BY <1>1, CommitAdded DEF IInv, ForeignPush, People
<1>3. branch' \in 1..Len(commits')
  BY <1>1, <1>2
<1>4. UNCHANGED <<durable, pass, reviewed, ran, investigated>>
  BY DEF ForeignPush, reviews
<1>5. World'
  <2>1. branch' \in 0..Len(commits') /\ Meddle
    BY <1>1, <1>2 DEF ForeignPush
  <2>2. /\ UNCHANGED people /\ pr' = pr /\ prAuthor' = prAuthor /\ status' = status
        /\ investigated' = investigated /\ ran' = ran /\ prs' = prs
    BY DEF ForeignPush
  <2>3. /\ used' \in [mentions : 0..MaxMentions, commands : 0..MaxCommands,
                       meddling : 0..MaxMeddling, faults : 0..MaxFaults]
        /\ used'.mentions = used.mentions /\ used'.commands = used.commands
    BY <2>1, MeddleFields DEF IInv
  <2>4. World /\ commits' \in Seq([parent : Nat, author : Int])
    BY <1>2 DEF IInv
  <2>5. QED
    BY <2>1, <2>2, <2>3, <2>4, BranchMoves
<1>6. Stores'
  BY <1>4 DEF IInv, Stores, durable, pass
<1>7. Publishing'
  <2>1. pc = "create" => /\ rec.pending.commit \in 1..Len(commits')
                         /\ commits'[rec.pending.commit].parent = 0
    <3>1. \A c \in 1..Len(commits) : c \in 1..Len(commits') /\ commits'[c] = commits[c]
      BY <1>1, <1>2
    <3>2. pc = "create" => /\ rec.pending.commit \in 1..Len(commits)
                           /\ commits[rec.pending.commit].parent = 0
      BY DEF IInv, Publishing
    <3>3. QED
      BY <3>1, <3>2
  <2>2. QED
    BY <1>4, <2>1 DEF IInv, Publishing, durable, pass
<1>8. Memory'
  BY <1>1, <1>2, <1>3, <1>4 DEF IInv, Memory, SameJournal, Foreign, durable, pass
<1>9. Tip' /\ Owed'
  BY <1>2, <1>4, OwedFrame DEF IInv, Tip, Foreign, durable
<1>10. Paid'
  BY <1>4 DEF IInv, Paid, Increasing, durable, pass
<1>11. QED
  BY <1>2, <1>3, <1>5, <1>6, <1>7, <1>8, <1>9, <1>10 DEF IInv

-----------------------------------------------------------------------------

LEMMA NextIInv == IInv /\ [Next]_vars => IInv'
<1> SUFFICES ASSUME IInv, [Next]_vars
             PROVE  IInv'
  OBVIOUS
<1>1. CASE PassStep
  BY <1>1, StartPassStep, FetchPrStep, CheckNoticeStep, PostNoticeStep, SaveNoticeStep,
     RequestReviewStep, ReadCommandStep, StartRevisionStep, EndRevisionStep, RecheckStep,
     PushRevisionStep, SavePushStep, AttemptFailsStep, ReportFailureStep, ReadTriggerStep,
     ResumePublicationStep, OpenPrStep, TrackStep, ClearPublicationStep, ReadIssueStep,
     AuthorizeStep, StartFixStep, EndFixStep, VerifyFixStep, CreateBranchStep, MarkStep
     DEF PassStep, IterationStep, IssueStep
<1>2. CASE Interrupted
  BY <1>2, InterruptedStep
<1>3. CASE \E c \in requested : ReviewCompletes(c)
  BY <1>3, ReviewCompletesStep
<1>4. CASE PeopleStep
  BY <1>4, CommentStep, MeddlingStep, ForeignPushStep DEF PeopleStep
<1>5. CASE UNCHANGED vars
  <2>1. World' /\ UNCHANGED <<durable, pass, branch, commits, reviewed, ran, investigated>>
    BY <1>5, WorldFrame DEF IInv, vars, forge, reviews, history
  <2>2. QED
    BY <2>1, PeopleFrame
<1>6. QED
  BY <1>1, <1>2, <1>3, <1>4, <1>5 DEF Next

(* The inductive invariant holds in every reachable state: what a pass     *)
(* holds agrees with the two journals of the issue store, which know the   *)
(* commit the host left on the branch and the review it is owed.           *)
THEOREM IssueInvariance == Spec => []IInv
<1>1. Init => IInv
  BY InitIInv
<1>2. IInv /\ [Next]_vars => IInv'
  BY NextIInv
<1>3. QED
  BY <1>1, <1>2, PTL DEF Spec

(* The types of the records, the pass, the forge and the bounds.           *)
THEOREM IssueTypes == Spec => []TypeOK
<1>1. IInv => TypeOK
  BY TypesSplit DEF IInv
<1>2. QED
  BY <1>1, IssueInvariance, PTL

(* A mention and a command pay for one run each, never an older one after  *)
(* a newer one, and revisions keep to max_attempts (workflow.rs:624,       *)
(* iterations.rs:305).                                                     *)
THEOREM RunsPaidOnce == Spec => []RunsArePaidOnce
<1>1. IInv => RunsArePaidOnce
  <2> SUFFICES ASSUME IInv PROVE RunsArePaidOnce
    OBVIOUS
  <2>1. Len(ran) \in Nat /\ iter.attempts \in 0..MaxAttempts /\ MaxAttempts \in Nat
    BY IssueAssumption DEF IInv, World, Stores, States
  <2>2. QED
    BY <2>1 DEF IInv, Paid, RunsArePaidOnce
<1>2. QED
  BY <1>1, IssueInvariance, PTL

(* Whenever the daemon stops, it finds the commit it left on the branch in *)
(* one of its journals (workflow.rs:727, iterations.rs:445).               *)
THEOREM TipIsJournalled == Spec => []JournalKnowsTip
<1>1. IInv => JournalKnowsTip
  BY DEF IInv, Tip, Foreign, JournalKnowsTip
<1>2. QED
  BY <1>1, IssueInvariance, PTL

(* The review of the recorded head is owed until it is complete, whatever  *)
(* the queue refuses and a restart forgets (ISSUES.md:370).                *)
THEOREM ReviewStaysOwed == Spec => []ReviewIsOwed
<1>1. IInv => ReviewIsOwed
  BY DEF IInv, Owed, ReviewIsOwed
<1>2. QED
  BY <1>1, IssueInvariance, PTL

(* No push of the host replaces somebody's commit, though the branch may   *)
(* move between the last check and the push (iterations.rs:449).           *)
THEOREM NobodyIsOverwritten == Spec => PushesExtend
<1>1. ASSUME IInv, [Next]_vars, branch' # branch
      PROVE  commits'[branch'].parent = branch \/ commits'[branch'].author = People
  <2>1. CASE PushRevision
    <3>1. /\ commits' = commits /\ branch' = mem.pending /\ branch = mem.head
          /\ commits[mem.pending].parent = mem.head
      BY <1>1, <2>1 DEF IInv, Memory, PushRevision, Lease
    <3>2. QED
      BY <3>1
  <2>2. CASE CreateBranch
    <3>1. /\ commits' = commits /\ branch' = rec.pending.commit /\ branch = 0
          /\ commits[rec.pending.commit].parent = 0
      BY <1>1, <2>2 DEF IInv, Publishing, CreateBranch, Lease
    <3>2. QED
      BY <3>1
  <2>3. CASE ForeignPush
    BY <1>1, <2>3, ForeignPushStep
  <2>4. CASE StartPass \/ (IterationStep /\ ~ PushRevision)
    BY <1>1, <2>4 DEF StartPass, IterationStep, FetchPr, CheckNotice, PostNotice, SaveNotice,
       RequestReview, ReadCommand, StartRevision, EndRevision, Recheck, SavePush,
       AttemptFails, ReportFailure, forge
  <2>5. CASE IssueStep /\ ~ CreateBranch
    BY <1>1, <2>5 DEF IssueStep, ReadTrigger, ResumePublication, OpenPr, Track,
       ClearPublication, ReadIssue, Authorize, StartFix, EndFix, VerifyFix, Mark, forge
  <2>6. CASE Interrupted \/ \E c \in requested : ReviewCompletes(c)
    BY <1>1, <2>6 DEF Interrupted, ReviewCompletes, forge
  <2>7. CASE PeopleStep /\ ~ ForeignPush
    BY <1>1, <2>7 DEF PeopleStep, PostMention, PostCommand, DeleteComment, EditIssue,
       ChangePr, forge
  <2>8. CASE UNCHANGED vars
    BY <1>1, <2>8 DEF vars, forge
  <2>9. QED
    BY <1>1, <2>1, <2>2, <2>3, <2>4, <2>5, <2>6, <2>7, <2>8 DEF Next, PassStep, IterationStep,
       IssueStep, PeopleStep
<1>2. QED
  BY <1>1, IssueInvariance, PTL DEF Spec, PushesExtend

(* A branch gets one pull request, whoever opens it first and however      *)
(* often its publication is interrupted (github.rs:412).                   *)
OnePr == prs \in {0, 1} /\ (pr = "none" => prs = 0)

THEOREM SinglePullRequest == Spec => []OnePullRequest
<1>1. Init => OnePr
  BY DEF Init, OnePr
<1>2. OnePr /\ [Next]_vars => OnePr'
  <2> SUFFICES ASSUME OnePr, [Next]_vars PROVE OnePr'
    OBVIOUS
  <2>1. CASE OpenPr
    BY <2>1 DEF OpenPr, OnePr
  <2>2. CASE ChangePr
    BY <2>2 DEF ChangePr, OnePr
  <2>3. CASE StartPass \/ IterationStep
    BY <2>3 DEF OnePr, StartPass, IterationStep, FetchPr, CheckNotice, PostNotice, SaveNotice,
       RequestReview, ReadCommand, StartRevision, EndRevision, Recheck, PushRevision, SavePush,
       AttemptFails, ReportFailure, forge, history
  <2>4. CASE IssueStep /\ ~ OpenPr
    BY <2>4 DEF OnePr, IssueStep, ReadTrigger, ResumePublication, Track, ClearPublication,
       ReadIssue, Authorize, StartFix, EndFix, VerifyFix, CreateBranch, Mark, forge, history
  <2>5. CASE Interrupted \/ \E c \in requested : ReviewCompletes(c)
    BY <2>5 DEF OnePr, Interrupted, ReviewCompletes, forge, history
  <2>6. CASE PeopleStep /\ ~ ChangePr
    BY <2>6 DEF OnePr, PeopleStep, PostMention, PostCommand, DeleteComment, EditIssue,
       ForeignPush, forge, history
  <2>7. CASE UNCHANGED vars
    BY <2>7 DEF OnePr, vars, forge, history
  <2>8. QED
    BY <2>1, <2>2, <2>3, <2>4, <2>5, <2>6, <2>7 DEF Next, PassStep, PeopleStep
<1>3. OnePr => OnePullRequest
  BY DEF OnePr, OnePullRequest
<1>4. QED
  BY <1>1, <1>2, <1>3, PTL DEF Spec

(* A command has at most one status comment, which later news edit         *)
(* (iterations.rs:481).                                                    *)
THEOREM SingleStatus == Spec => []OneStatusPerCommand
<1>1. Init => OneStatusPerCommand
  BY DEF Init, OneStatusPerCommand
<1>2. OneStatusPerCommand /\ IInv /\ [Next]_vars => OneStatusPerCommand'
  <2> SUFFICES ASSUME OneStatusPerCommand, IInv, [Next]_vars
               PROVE  OneStatusPerCommand'
    OBVIOUS
  <2>1. CASE PostNotice
    <3>1. ASSUME NEW q \in Seq(Texts), NEW x \in Texts, Len(q) <= 1
          PROVE  Len(IF q = <<>> THEN <<x>> ELSE [q EXCEPT ![1] = x]) <= 1
      BY <3>1
    <3>2. status \in [1..MaxCommands -> Seq(Texts)] /\ mem.notice \in Texts
      BY <2>1 DEF IInv, Stores, World, States, Memory, PostNotice
    <3>3. QED
      BY <2>1, <3>1, <3>2 DEF PostNotice, PutStatus, OneStatusPerCommand
  <2>2. CASE UNCHANGED status
    BY <2>2 DEF OneStatusPerCommand
  <2>3. CASE StartPass \/ (IterationStep /\ ~ PostNotice)
    BY <2>2, <2>3 DEF StartPass, IterationStep, FetchPr, CheckNotice, SaveNotice,
       RequestReview, ReadCommand, StartRevision, EndRevision, Recheck, PushRevision, SavePush,
       AttemptFails, ReportFailure, forge
  <2>4. CASE IssueStep
    BY <2>2, <2>4 DEF IssueStep, ReadTrigger, ResumePublication, OpenPr, Track,
       ClearPublication, ReadIssue, Authorize, StartFix, EndFix, VerifyFix, CreateBranch, Mark,
       forge
  <2>5. CASE Interrupted \/ \E c \in requested : ReviewCompletes(c)
    BY <2>2, <2>5 DEF Interrupted, ReviewCompletes, forge
  <2>6. CASE PeopleStep
    BY <2>2, <2>6 DEF PeopleStep, PostMention, PostCommand, DeleteComment, EditIssue,
       ChangePr, ForeignPush, forge
  <2>7. CASE UNCHANGED vars
    BY <2>2, <2>7 DEF vars, forge
  <2>8. QED
    BY <2>1, <2>3, <2>4, <2>5, <2>6, <2>7 DEF Next, PassStep, IterationStep
<1>3. QED
  BY <1>1, <1>2, IssueInvariance, PTL DEF Spec

-----------------------------------------------------------------------------

(* What the status comments say, and why it is true.  Built: what has been *)
(* the tip was built, and the recorded heads were.  Authored: nothing has  *)
(* been built for a command that was not read, nor for the one whose       *)
(* revision is under way.  Awaited: a journalled commit is the only one of *)
(* its command, newer than the head; once it has landed the branch never   *)
(* shows an older tip.  Told: what a comment says, or a notice will, fits  *)
(* what was delivered, and denies no delivery that may yet come.           *)

Unbuilt == {"revise", "coding", "recheck"}
Denials == {"unpublished", "blocked", "limit"}

Built ==
    /\ landed \subseteq 1..Len(commits)
    /\ branch # 0 => branch \in landed
    /\ iter.head <= Len(commits) /\ record.pending.commit <= Len(commits)

Authored ==
    /\ \A c \in 1..Len(commits) : commits[c].author <= iter.last
    /\ pc \in Unbuilt =>
         /\ iter.last > 0
         /\ \A c \in 1..Len(commits) : commits[c].author # iter.last

Awaited ==
    /\ iter.pending # 0 =>
         /\ iter.last > 0 /\ iter.pending \in 1..Len(commits) /\ iter.head < iter.pending
         /\ \A c \in 1..Len(commits) : commits[c].author = iter.last <=> c = iter.pending
         /\ iter.pending \in landed => iter.pending <= branch
    /\ pc = "push" => mem.pending \notin landed
    /\ pc = "pushed" => mem.pending \in landed

Agrees(k, x) ==
    /\ x = "pushed" => Delivered(k)
    /\ x \in Denials => ~ Delivered(k)

Undecided == iter.pending # 0 \/ pc \in Unbuilt

Fits(k, x) ==
    /\ Agrees(k, x)
    /\ k = iter.last /\ Undecided => x \notin Denials

Unsaid == {iter.notice} \cup (IF pc \in Journalled THEN {mem.notice} ELSE {})

Said(k) == {status[k][i] : i \in DOMAIN status[k]}

Told ==
    /\ \A k \in DOMAIN status : status[k] # <<>> => k <= iter.last
    /\ \A k \in DOMAIN status : \A x \in Said(k) : Fits(k, x)
    /\ \A k \in {iter.last} \ {0} : \A x \in Unsaid : Fits(k, x)
    /\ pc \in {"review", "command"} => mem.notice = "none"

Reporting == Built /\ Authored /\ Awaited /\ Told

LEMMA NumberTypes ==
    ASSUME IInv
    PROVE  /\ iter.last \in Nat /\ iter.head \in Nat /\ iter.pending \in Nat
           /\ record.pending.commit \in Nat /\ Len(commits) \in Nat
           /\ branch \in Nat /\ branch <= Len(commits)
           /\ \A c \in 1..Len(commits) : commits[c].author \in Int
           /\ DOMAIN status = 1..MaxCommands /\ MaxCommands \in Nat
<1>1. commits \in Seq([parent : Nat, author : Int])
  BY DEF IInv, World
<1>2. \A c \in 1..Len(commits) : commits[c].author \in Int
  <2>1. ASSUME NEW S, NEW s \in Seq(S), NEW c \in 1..Len(s)
        PROVE  s[c] \in S
    OBVIOUS
  <2>2. \A c \in 1..Len(commits) : commits[c] \in [parent : Nat, author : Int]
    BY <1>1, <2>1
  <2>3. QED
    BY <2>2
<1>3. iter.last \in Nat /\ iter.head \in Nat /\ iter.pending \in Nat /\ record.pending.commit \in Nat
  BY DEF IInv, Stores, States, Records
<1>4. branch \in Nat /\ branch <= Len(commits) /\ Len(commits) \in Nat
  BY <1>1 DEF IInv, World
<1>5. DOMAIN status = 1..MaxCommands /\ MaxCommands \in Nat
  BY IssueAssumption DEF IInv, World
<1>6. QED
  BY <1>2, <1>3, <1>4, <1>5

(* A comment that fits goes on to fit while the command of the journal is  *)
(* the same, it does not become undecided, and nothing lands for it.       *)
LEMMA StillFits ==
    ASSUME NEW k, NEW x, Fits(k, x), Delivered(k)' = Delivered(k),
           k = iter'.last /\ Undecided' => k = iter.last /\ Undecided
    PROVE  Fits(k, x)'
BY DEF Fits, Agrees

LEMMA NeutralFits ==
    ASSUME NEW k, NEW x \in {"none", "stopped"}
    PROVE  Fits(k, x)
BY DEF Fits, Agrees, Denials

LEMMA DeliveredStays ==
    ASSUME NEW k, UNCHANGED <<commits, landed>>
    PROVE  Delivered(k)' = Delivered(k)
BY DEF Delivered

(* Steps that neither build, push, post nor reconcile.                     *)
LEMMA ReportingFrame ==
    ASSUME IInv, Reporting, UNCHANGED <<commits, landed, branch, status>>,
           iter'.head = iter.head, iter'.last = iter.last, iter'.pending = iter.pending,
           record'.pending.commit \in {record.pending.commit, 0},
           pc' \in Unbuilt => pc \in Unbuilt,
           pc' \in {"push", "pushed"} => pc' = pc /\ mem'.pending = mem.pending,
           pc' \in {"review", "command"} => mem'.notice = "none",
           Unsaid' \subseteq Unsaid \cup {"none", "stopped"}
    PROVE  Reporting'
<1>1. Built' /\ Authored' /\ Awaited'
  BY NumberTypes DEF Reporting, Built, Authored, Awaited
<1>2. Undecided' => Undecided
  BY DEF Undecided
<1>3. ASSUME NEW k, NEW x, Fits(k, x)
      PROVE  Fits(k, x)'
  BY <1>2, <1>3, StillFits, DeliveredStays
<1>4. ASSUME NEW k \in DOMAIN status', NEW x \in Said(k)'
      PROVE  Fits(k, x)'
  BY <1>3, <1>4 DEF Reporting, Told, Said
<1>5. ASSUME NEW k \in {iter'.last} \ {0}, NEW x \in Unsaid'
      PROVE  Fits(k, x)'
  <2>1. Fits(k, x)
    BY <1>5, NeutralFits DEF Reporting, Told
  <2>2. QED
    BY <1>3, <2>1
<1>6. Told'
  <2>1. \A k \in DOMAIN status' : status'[k] # <<>> => k <= iter'.last
    BY DEF Reporting, Told
  <2>2. QED
    BY <1>4, <1>5, <2>1 DEF Told
<1>7. QED
  BY <1>1, <1>6 DEF Reporting

LEMMA InitReporting == Init => Reporting
<1> SUFFICES ASSUME Init PROVE Reporting
  OBVIOUS
<1>1. Built /\ Authored /\ Awaited
  BY DEF Init, Built, Authored, Awaited, Unbuilt, NoState, NoRecord, NoPublication
<1>2. Told
  BY DEF Init, Told, Said, NoState
<1>3. QED
  BY <1>1, <1>2 DEF Reporting

(* The steps of a pass that neither build, push, post nor reconcile.       *)

LEMMA PassEndsReporting ==
    ASSUME IInv, Reporting, EndPass, UNCHANGED <<durable, commits, landed, branch, status>>
    PROVE  Reporting'
<1>1. Unsaid' \subseteq Unsaid
  BY DEF EndPass, Unsaid, durable, Journalled
<1>2. QED
  BY <1>1, ReportingFrame DEF EndPass, durable, Unbuilt

LEMMA QuietIteration ==
    ASSUME IInv, Reporting,
           \/ StartPass \/ CheckNotice \/ SaveNotice \/ RequestReview \/ StartRevision
           \/ AttemptFails \/ ReportFailure
    PROVE  Reporting'
<1>1. CASE StartPass
  <2>1. Unsaid' \subseteq Unsaid
    BY <1>1 DEF StartPass, Unsaid, durable
  <2>2. QED
    BY <1>1, <2>1, ReportingFrame DEF StartPass, Goto, durable, forge, history, Unbuilt
<1>2. CASE CheckNotice
  <2>1. look.next \in {"review", "trigger", "idle"}
    BY <1>2 DEF IInv, Memory, Notifying, CheckNotice
  <2>2. Unsaid' \subseteq Unsaid
    BY <1>2, <2>1 DEF CheckNotice, Unsaid, EndPass, Goto, Journalled, durable
  <2>3. QED
    BY <1>2, <2>1, <2>2, ReportingFrame
       DEF CheckNotice, EndPass, Goto, durable, forge, history, Unbuilt
<1>3. CASE SaveNotice
  <2>1. look.next \in {"review", "trigger", "idle"}
    BY <1>3 DEF IInv, Memory, Notifying, SaveNotice
  <2>2. SameJournal(iter', iter) /\ iter'.notice = "none"
    BY <1>3, NoticeFields, NoticeKinds DEF IInv, Stores, Memory, SameJournal, Journalled, SaveNotice
  <2>3. pc' \in {"review", "trigger", "idle"} /\ (pc' # "idle" => mem' = iter')
    BY <1>3, <2>1 DEF SaveNotice, EndPass, Goto
  <2>4. Unsaid' \subseteq Unsaid \cup {"none", "stopped"}
    BY <2>2, <2>3 DEF Unsaid, Journalled
  <2>5. QED
    BY <1>3, <2>2, <2>3, <2>4, ReportingFrame DEF SaveNotice, SameJournal, forge, history, Unbuilt
<1>4. CASE RequestReview
  <2>1. SameJournal(mem, iter) /\ mem \in States
    BY <1>4 DEF IInv, Stores, Memory, Journalled, RequestReview
  <2>2. mem.notice = "none"
    BY <1>4 DEF Reporting, Told, RequestReview
  <2>3. /\ iter'.head = iter.head /\ iter'.last = iter.last /\ iter'.pending = iter.pending
        /\ iter'.notice \in {iter.notice, "none"} /\ mem'.notice = "none"
    BY <1>4, <2>1, <2>2, ReviewedFields DEF RequestReview, Saved, SameJournal
  <2>4. Unsaid' \subseteq Unsaid \cup {"none", "stopped"}
    BY <2>3 DEF Unsaid
  <2>5. QED
    BY <1>4, <2>3, <2>4, ReportingFrame DEF RequestReview, Goto, forge, history, Unbuilt
<1>5. CASE StartRevision
  <2>1. Unsaid' \subseteq Unsaid
    BY <1>5 DEF StartRevision, Goto, Unsaid, durable, Journalled
  <2>2. QED
    BY <1>5, <2>1, ReportingFrame DEF StartRevision, Goto, durable, forge, Unbuilt
<1>6. CASE AttemptFails
  <2>1. SameJournal(mem, iter) /\ mem \in States
    BY <1>6 DEF IInv, Stores, Memory, Journalled, AttemptFails
  <2>2. iter' = mem' /\ mem'.notice = "stopped" /\ SameJournal(mem', iter)
    BY <1>6, <2>1, NoticeFields, NoticeKinds DEF AttemptFails, Saved, Texts, SameJournal
  <2>3. Unsaid' \subseteq Unsaid \cup {"none", "stopped"}
    BY <2>2 DEF Unsaid
  <2>4. QED
    BY <1>6, <2>2, <2>3, ReportingFrame
       DEF AttemptFails, Goto, SameJournal, forge, history, Unbuilt
<1>7. CASE ReportFailure
  <2>1. CASE Goto("notice") /\ UNCHANGED <<mem, rec, look>>
    <3>1. Unsaid' \subseteq Unsaid
      BY <1>7, <2>1 DEF ReportFailure, Goto, Unsaid, durable, Journalled
    <3>2. QED
      BY <1>7, <2>1, <3>1, ReportingFrame DEF ReportFailure, Goto, durable, forge, history, Unbuilt
  <2>2. CASE EndPass
    BY <1>7, <2>2, PassEndsReporting DEF ReportFailure, forge, history
  <2>3. QED
    BY <1>7, <2>1, <2>2 DEF ReportFailure
<1>8. QED
  BY <1>1, <1>2, <1>3, <1>4, <1>5, <1>6, <1>7

(* Nothing is built for a command whose worker is blocked.                 *)
LEMMA EndRevisionReporting ==
    ASSUME IInv, Reporting, EndRevision
    PROVE  Reporting'
<1>1. /\ UNCHANGED <<durable, commits, landed, branch, status>> /\ pc = "coding"
      /\ mem.pending = 0 /\ SameJournal(mem, iter) /\ mem \in States
  BY DEF EndRevision, forge, history, IInv, Stores, Memory, Settled, Journalled
<1>2. CASE Goto("recheck") /\ UNCHANGED mem
  <2>1. Unsaid' \subseteq Unsaid
    BY <1>1, <1>2 DEF Goto, Unsaid, durable, Journalled
  <2>2. QED
    BY <1>1, <1>2, <2>1, ReportingFrame DEF Goto, durable, Unbuilt
<1>3. CASE Goto("notice") /\ mem' = [mem EXCEPT !.notice = "blocked"]
  <2>1. Built' /\ Authored' /\ Awaited'
    BY <1>1, <1>3 DEF Reporting, Built, Authored, Awaited, Goto, durable, Unbuilt
  <2>2. ~ Undecided' /\ ~ Delivered(iter.last)
    BY <1>1, <1>3 DEF Undecided, Goto, durable, SameJournal, Unbuilt, Delivered, Reporting,
                      Built, Authored
  <2>3. ASSUME NEW k, NEW x, Fits(k, x)
        PROVE  Fits(k, x)'
    BY <1>1, <2>2, <2>3, StillFits, DeliveredStays DEF durable
  <2>4. ASSUME NEW k \in {iter.last}
        PROVE  Fits(k, "blocked")'
    <3>1. ~ Delivered(k)'
      BY <1>1, <2>2, <2>4, DeliveredStays
    <3>2. QED
      BY <2>2, <3>1 DEF Fits, Agrees
  <2>5. Unsaid' \subseteq Unsaid \cup {"blocked"}
    BY <1>1, <1>3, NoticeFields, NoticeKinds DEF Unsaid, durable, Texts
  <2>6. Told'
    BY <1>1, <1>3, <2>3, <2>4, <2>5 DEF Reporting, Told, Said, Goto, durable
  <2>7. QED
    BY <2>1, <2>6 DEF Reporting
<1>4. QED
  BY <1>2, <1>3 DEF EndRevision

(* A command is read: nothing has been built for it, or said about it.     *)
LEMMA ReadCommandReporting ==
    ASSUME IInv, Reporting, ReadCommand
    PROVE  Reporting'
<1> DEFINE n == Newest(commands)
<1>1. /\ UNCHANGED <<record, commits, landed, branch, status>> /\ pc = "command"
      /\ mem.pending = 0 /\ SameJournal(mem, iter) /\ mem \in States /\ mem.notice = "none"
  BY DEF ReadCommand, forge, history, IInv, Stores, Memory, Settled, Journalled, Reporting, Told
<1>2. n \in Nat
  <2>1. used.commands \in Nat /\ commands \in SUBSET (1..used.commands)
    BY IssueAssumption DEF IInv, World
  <2>2. QED
    BY <2>1, NewestIsNat
<1> HIDE DEF n
<1>3. CASE Goto("trigger") /\ UNCHANGED <<iter, mem, look>>
  <2>1. Unsaid' \subseteq Unsaid
    BY <1>1, <1>3 DEF Goto, Unsaid, Journalled
  <2>2. QED
    BY <1>1, <1>3, <2>1, ReportingFrame DEF Goto, Unbuilt
<1>4. ASSUME IsNewCommand(n), iter' = mem', mem'.head = mem.head, mem'.last = n,
             mem'.pending = 0, mem'.notice \in {"none", "limit"},
             pc' = IF mem'.notice = "none" THEN "revise" ELSE "notice"
      PROVE  Reporting'
  <2>1. n > iter.last /\ iter.last \in Nat /\ mem'.head = iter.head /\ n > 0
    BY <1>1, <1>2, <1>4, NumberTypes DEF IsNewCommand, SameJournal
  <2>2. Built'
    BY <1>1, <1>4, <2>1 DEF Reporting, Built
  <2>3. \A c \in 1..Len(commits) : commits[c].author < n
    BY <1>2, <2>1, NumberTypes DEF Reporting, Authored
  <2>4. Authored' /\ Awaited'
    BY <1>1, <1>2, <1>4, <2>1, <2>3, NumberTypes DEF Authored, Awaited
  <2>5. ~ Delivered(n)
    BY <1>2, <2>3, NumberTypes DEF Delivered, Reporting, Built
  <2>6. \A k \in DOMAIN status : status[k] # <<>> => k # n /\ k <= n
    BY <1>2, <2>1, NumberTypes DEF Reporting, Told
  <2>7. ASSUME NEW k \in DOMAIN status, NEW x \in Said(k)
        PROVE  Fits(k, x)'
    <3>1. Fits(k, x) /\ status[k] # <<>>
      BY <2>7 DEF Reporting, Told, Said
    <3>2. k # n
      BY <2>6, <2>7, <3>1
    <3>3. QED
      BY <1>1, <1>4, <3>1, <3>2, StillFits, DeliveredStays
  <2>8. Unsaid' \subseteq {"none", "limit"} /\ ("limit" \in Unsaid' => ~ Undecided')
    BY <1>4 DEF Unsaid, Undecided, Unbuilt
  <2>9. ASSUME NEW k \in {n}, NEW x \in Unsaid'
        PROVE  Fits(k, x)'
    <3>1. ~ Delivered(k)'
      BY <1>1, <2>5, <2>9, DeliveredStays
    <3>2. QED
      BY <2>8, <2>9, <3>1 DEF Fits, Agrees, Denials
  <2>10. Told'
    BY <1>1, <1>4, <2>6, <2>7, <2>9 DEF Told, Said
  <2>11. QED
    BY <2>2, <2>4, <2>10 DEF Reporting
<1>5. CASE /\ IsNewCommand(n) /\ MayAttempt
           /\ Saved([mem EXCEPT !.last = n, !.attempts = @ + 1])
           /\ Goto("revise")
  BY <1>1, <1>2, <1>4, <1>5, AttemptFields DEF Saved, MayAttempt, Goto, States
<1>6. CASE /\ IsNewCommand(n) /\ Saved([mem EXCEPT !.last = n, !.notice = "limit"])
           /\ Goto("notice")
  <2>1. [mem EXCEPT !.last = n, !.notice = "limit"].notice = "limit"
    BY <1>1 DEF States
  <2>2. QED
    BY <1>1, <1>2, <1>4, <1>6, <2>1, LimitFields DEF Saved, Goto
<1>7. QED
  BY <1>3, <1>5, <1>6 DEF ReadCommand, n

(* Deliveries only grow, by what lands.                                    *)
LEMMA DeliveriesGrow ==
    ASSUME Built, Len(commits) \in Nat, NEW c,
           \A d \in 1..Len(commits) : commits'[d] = commits[d],
           landed' \in {landed, landed \cup {c}}, NEW k
    PROVE  /\ Delivered(k) => Delivered(k)'
           /\ commits'[c].author # k => Delivered(k)' = Delivered(k)
<1>1. \A d \in landed : d \in landed' /\ commits'[d] = commits[d]
  BY DEF Built
<1>2. \A d \in landed' : d \in landed \/ d = c
  OBVIOUS
<1>3. QED
  BY <1>1, <1>2 DEF Delivered

(* The commit of the command is journalled; nothing was built for it yet.  *)
LEMMA RecheckReporting ==
    ASSUME IInv, Reporting, Recheck
    PROVE  Reporting'
<1>1. /\ UNCHANGED <<record, landed, branch, status>> /\ pc = "recheck" /\ pc' = "push"
      /\ SameJournal(mem, iter) /\ mem \in States /\ mem.pending = 0
  BY DEF Recheck, Goto, history, IInv, Stores, Memory, Settled, Journalled
<1>2. mem.head \in Nat /\ mem.last = iter.last /\ iter.last \in Int /\ mem.head = iter.head
  BY <1>1, NumberTypes DEF SameJournal
<1>3. NewCommit(mem.head, mem.last)
  BY DEF Recheck
<1>4. /\ Len(commits') = Len(commits) + 1 /\ Len(commits) \in Nat
      /\ commits'[Len(commits')].author = iter.last
      /\ \A c \in 1..Len(commits) : commits'[c] = commits[c]
  BY <1>2, <1>3, CommitAdded DEF IInv
<1>5. /\ iter' = mem' /\ mem'.head = iter.head /\ mem'.last = iter.last
      /\ mem'.pending = Len(commits') /\ mem'.notice = mem.notice
  <2>1. Len(commits') \in Nat /\ mem' = [mem EXCEPT !.pending = Len(commits')] /\ iter' = mem'
    BY <1>4 DEF Recheck, Saved
  <2>2. QED
    BY <1>1, <1>2, <2>1, PendingFields
<1>6. Built'
  BY <1>1, <1>4, <1>5, NumberTypes DEF Reporting, Built
<1>7. \A c \in 1..Len(commits') : c \in 1..Len(commits) \/ c = Len(commits')
  BY <1>4
<1>8. Authored'
  BY <1>1, <1>4, <1>5, <1>7, NumberTypes DEF Reporting, Authored, Unbuilt
<1>9. \A c \in 1..Len(commits) : commits[c].author # iter.last
  BY <1>1 DEF Reporting, Authored, Unbuilt
<1>10. Len(commits') \notin landed /\ iter.head < Len(commits')
  BY <1>4, NumberTypes DEF Reporting, Built
<1>11. Awaited'
  <2>1. \A c \in 1..Len(commits') : commits'[c].author = iter.last <=> c = Len(commits')
    BY <1>4, <1>7, <1>9
  <2>2. iter.last > 0 /\ Len(commits') \in 1..Len(commits')
    BY <1>1, <1>4 DEF Reporting, Authored, Unbuilt
  <2>3. QED
    BY <1>1, <1>5, <1>10, <2>1, <2>2 DEF Awaited
<1>12. Undecided
  BY <1>1 DEF Undecided, Unbuilt
<1>13. ASSUME NEW k, NEW x, Fits(k, x)
       PROVE  Fits(k, x)'
  <2>1. \A d \in landed : commits'[d] = commits[d]
    BY <1>4 DEF Reporting, Built
  <2>2. Delivered(k)' = Delivered(k)
    BY <1>1, <2>1 DEF Delivered
  <2>3. QED
    BY <1>5, <1>12, <1>13, <2>2, StillFits
<1>14. Unsaid' \subseteq Unsaid
  BY <1>1, <1>5 DEF Unsaid, Journalled
<1>15. Told'
  BY <1>1, <1>5, <1>13, <1>14 DEF Reporting, Told, Said
<1>16. QED
  BY <1>6, <1>8, <1>11, <1>15 DEF Reporting

(* The push delivers the command of the journal, which nothing denies.     *)
LEMMA PushReporting ==
    ASSUME IInv, Reporting, PushRevision
    PROVE  Reporting'
<1>1. /\ UNCHANGED <<durable, mem, commits, status>> /\ pc = "push" /\ pc' = "pushed"
      /\ branch' = iter.pending /\ landed' = landed \cup {iter.pending}
      /\ mem.pending = iter.pending /\ iter.pending \in 1..Len(commits)
  BY DEF PushRevision, Goto, IInv, Memory, SameJournal, Journalled
<1>2. iter.pending # 0 /\ Undecided
  BY <1>1, NumberTypes DEF Undecided
<1>3. Built' /\ Authored' /\ Awaited'
  <2>1. Built'
    BY <1>1 DEF Reporting, Built, durable
  <2>2. Authored'
    BY <1>1 DEF Reporting, Authored, durable, Unbuilt
  <2>3. iter.pending \in landed' /\ iter.pending <= branch'
    BY <1>1, NumberTypes
  <2>4. Awaited'
    BY <1>1, <1>2, <2>3 DEF Reporting, Awaited, durable
  <2>5. QED
    BY <2>1, <2>2, <2>4
<1>4. ASSUME NEW k, NEW x, Fits(k, x)
      PROVE  Fits(k, x)'
  <2>1. Delivered(k) => Delivered(k)'
    BY <1>1, DeliveriesGrow, NumberTypes DEF Reporting
  <2>2. CASE k # iter.last
    <3>1. commits'[iter.pending].author # k
      BY <1>1, <1>2, <2>2 DEF Reporting, Awaited
    <3>2. Delivered(k)' = Delivered(k)
      BY <1>1, <3>1, DeliveriesGrow, NumberTypes DEF Reporting
    <3>3. QED
      BY <1>1, <1>4, <2>2, <3>2, StillFits DEF durable
  <2>3. CASE k = iter.last
    BY <1>1, <1>2, <1>4, <2>1, <2>3 DEF Fits, Agrees, durable
  <2>4. QED
    BY <2>2, <2>3
<1>5. Unsaid' \subseteq Unsaid
  BY <1>1 DEF Unsaid, durable, Journalled
<1>6. Told'
  BY <1>1, <1>4, <1>5 DEF Reporting, Told, Said, durable
<1>7. QED
  BY <1>3, <1>6 DEF Reporting

(* Reconciliation reports a pending commit as pushed exactly when it is    *)
(* the tip.                                                                *)
LEMMA ReconciledNotice ==
    ASSUME NEW s \in States, NEW tip \in Nat
    PROVE  Reconciled(s, tip).notice =
             IF s.pending = 0 THEN s.notice
             ELSE IF s.pending = tip THEN "pushed" ELSE "unpublished"
<1>1. CASE s.pending = 0
  BY <1>1 DEF Reconciled
<1>2. CASE s.pending # 0 /\ s.pending = tip
  BY <1>2 DEF Reconciled, States
<1>3. CASE s.pending # 0 /\ s.pending # tip
  BY <1>3 DEF Reconciled, States
<1>4. QED
  BY <1>1, <1>2, <1>3

LEMMA ReconciledReporting ==
    ASSUME IInv, Reporting, UNCHANGED <<record, commits, landed, branch, status>>,
           SameJournal(mem, iter), mem \in States, mem.pending # 0, NEW tip \in Nat,
           Saved(Reconciled(mem, tip)), Goto("notice"),
           tip = mem.pending <=> mem.pending \in landed
    PROVE  Reporting'
<1>1. /\ iter' = mem' /\ mem'.last = iter.last /\ mem'.pending = 0
      /\ mem'.head \in {iter.head, iter.pending}
      /\ mem'.notice = IF tip = mem.pending THEN "pushed" ELSE "unpublished"
  BY ReconciledFields, ReconciledNotice DEF Saved, SameJournal
<1>2. iter.pending = mem.pending /\ pc' = "notice"
  BY DEF SameJournal, Goto
<1>3. /\ iter.last > 0 /\ iter.pending \in 1..Len(commits)
      /\ \A c \in 1..Len(commits) : commits[c].author = iter.last <=> c = iter.pending
  BY <1>2 DEF Reporting, Awaited
<1>4. Built' /\ Authored' /\ Awaited'
  <2>1. Built'
    <3>1. iter'.head <= Len(commits)
      BY <1>1, <1>3, NumberTypes DEF Reporting, Built
    <3>2. QED
      BY <3>1 DEF Reporting, Built
  <2>2. Authored' /\ Awaited'
    BY <1>1, <1>2 DEF Reporting, Authored, Awaited, Unbuilt
  <2>3. QED
    BY <2>1, <2>2
<1>5. ~ Undecided'
  BY <1>1, <1>2 DEF Undecided, Unbuilt
<1>6. Delivered(iter.last) <=> tip = mem.pending
  BY <1>2, <1>3 DEF Delivered, Reporting, Built
<1>7. ASSUME NEW k, NEW x, Fits(k, x)
      PROVE  Fits(k, x)'
  BY <1>5, <1>7, StillFits, DeliveredStays
<1>8. ASSUME NEW k \in {iter.last}, NEW x \in Unsaid'
      PROVE  Fits(k, x)'
  <2>1. x = IF tip = mem.pending THEN "pushed" ELSE "unpublished"
    BY <1>1, <1>8 DEF Unsaid
  <2>2. Delivered(k)' <=> tip = mem.pending
    BY <1>6, <1>8, DeliveredStays
  <2>3. QED
    BY <1>5, <2>1, <2>2 DEF Fits, Agrees, Denials
<1>9. Told'
  BY <1>1, <1>2, <1>7, <1>8 DEF Reporting, Told, Said
<1>10. QED
  BY <1>4, <1>9 DEF Reporting

LEMMA SavePushReporting ==
    ASSUME IInv, Reporting, SavePush
    PROVE  Reporting'
<1>1. /\ UNCHANGED <<record, commits, landed, branch, status>>
      /\ SameJournal(mem, iter) /\ mem \in States /\ mem.pending # 0 /\ mem.pending \in Nat
      /\ mem.pending \in landed
  BY DEF SavePush, forge, history, IInv, Stores, Memory, Journalled, States, Reporting, Awaited
<1>2. QED
  BY <1>1, ReconciledReporting DEF SavePush

(* A pass finds the branch at the head or at the pending commit: at the    *)
(* head, nothing has landed on top of it.                                  *)
LEMMA FetchPrReporting ==
    ASSUME IInv, Reporting, FetchPr
    PROVE  Reporting'
<1>1. /\ UNCHANGED <<record, commits, landed, branch, status>> /\ pc = "fetch"
      /\ SameJournal(mem, iter) /\ mem \in States /\ iter.head # 0
  BY DEF FetchPr, forge, history, IInv, Stores, Memory, Journalled
<1>2. CASE Goto("trigger") /\ UNCHANGED <<iter, mem, rec, look>>
  <2>1. Unsaid' \subseteq Unsaid
    BY <1>2 DEF Goto, Unsaid, Journalled
  <2>2. QED
    BY <1>1, <1>2, <2>1, ReportingFrame DEF Goto, Unbuilt
<1>3. CASE Reconcilable(mem, branch) /\ Saved(Reconciled(mem, branch)) /\ Goto("notice")
  <2>1. CASE mem.pending = 0
    <3>1. iter' = mem /\ mem' = mem
      BY <1>3, <2>1 DEF Saved, Reconciled
    <3>2. Unsaid' \subseteq Unsaid
      BY <1>1, <3>1 DEF Unsaid, Journalled
    <3>3. QED
      BY <1>1, <1>3, <3>1, <3>2, ReportingFrame DEF Goto, SameJournal, Unbuilt
  <2>2. CASE mem.pending # 0
    <3>1. mem.pending = iter.pending /\ mem.head = iter.head /\ branch \in Nat
      BY <1>1, NumberTypes DEF SameJournal
    <3>2. branch = mem.pending => mem.pending \in landed
      BY <2>2 DEF Reporting, Built
    <3>3. branch = mem.head => mem.pending \notin landed
      BY <2>2, <3>1, NumberTypes DEF Reporting, Awaited
    <3>4. mem.head # mem.pending
      BY <2>2, <3>1, NumberTypes DEF Reporting, Awaited
    <3>5. QED
      BY <1>1, <1>3, <2>2, <3>1, <3>2, <3>3, <3>4, ReconciledReporting DEF Reconcilable
  <2>3. QED
    BY <2>1, <2>2
<1>4. CASE EndPass /\ UNCHANGED iter
  BY <1>1, <1>4, PassEndsReporting DEF durable
<1>5. QED
  BY <1>2, <1>3, <1>4 DEF FetchPr

(* The notice is posted for the command it is about.                       *)
LEMMA PostNoticeReporting ==
    ASSUME IInv, Reporting, PostNotice
    PROVE  Reporting'
<1>1. /\ UNCHANGED <<durable, mem, commits, landed, branch>> /\ pc = "post" /\ pc' = "posted"
      /\ mem.last = iter.last /\ mem.notice \in Unsaid
  BY DEF PostNotice, Goto, history, IInv, Memory, SameJournal, Journalled, Unsaid
<1>2. Built' /\ Authored' /\ Awaited'
  BY <1>1 DEF Reporting, Built, Authored, Awaited, durable, Unbuilt
<1>3. ASSUME NEW k, NEW x, Fits(k, x)
      PROVE  Fits(k, x)'
  BY <1>1, <1>3, StillFits, DeliveredStays DEF durable, Undecided, Unbuilt
<1>4. DOMAIN status' = DOMAIN status /\ \A k \in DOMAIN status : k # iter.last => status'[k] = status[k]
  BY <1>1 DEF PostNotice, PutStatus, IInv, World
<1>5. ASSUME NEW k \in DOMAIN status, k = iter.last
      PROVE  Said(k)' \subseteq Said(k) \cup {mem.notice}
  <2>1. status'[k] = IF status[k] = <<>> THEN <<mem.notice>> ELSE [status[k] EXCEPT ![1] = mem.notice]
    BY <1>1, <1>5 DEF PostNotice, PutStatus, IInv, World
  <2>2. status[k] \in Seq(Texts)
    BY <1>5 DEF IInv, World
  <2>3. ASSUME NEW q \in Seq(Texts), NEW x, NEW r,
               r = IF q = <<>> THEN <<x>> ELSE [q EXCEPT ![1] = x],
               NEW i \in DOMAIN r
        PROVE  r[i] = x \/ (i \in DOMAIN q /\ r[i] = q[i])
    BY <2>3
  <2>4. QED
    BY <2>1, <2>2, <2>3 DEF Said
<1>6. ASSUME NEW k \in DOMAIN status, NEW x \in Said(k)'
      PROVE  Fits(k, x)'
  <2>1. CASE k # iter.last
    BY <1>3, <1>4, <1>6, <2>1 DEF Reporting, Told, Said
  <2>2. CASE k = iter.last
    <3>1. k \in {iter.last} \ {0}
      BY <1>6, <2>2, NumberTypes
    <3>2. Fits(k, mem.notice)
      BY <1>1, <3>1 DEF Reporting, Told
    <3>3. Fits(k, x)
      BY <1>5, <1>6, <2>2, <3>2 DEF Reporting, Told
    <3>4. QED
      BY <1>3, <3>3
  <2>3. QED
    BY <2>1, <2>2
<1>7. \A k \in DOMAIN status' : status'[k] # <<>> => k <= iter'.last
  BY <1>1, <1>4, NumberTypes DEF Reporting, Told, durable
<1>8. ASSUME NEW k \in {iter'.last} \ {0}, NEW x \in Unsaid'
      PROVE  Fits(k, x)'
  BY <1>1, <1>3, <1>8 DEF Reporting, Told, Unsaid, Journalled, durable
<1>9. Told'
  BY <1>1, <1>4, <1>6, <1>7, <1>8 DEF Told
<1>10. QED
  BY <1>2, <1>9 DEF Reporting

-----------------------------------------------------------------------------

(* The issue half of a pass tells nothing.                                 *)

LEMMA IssueFrame ==
    ASSUME IInv, Reporting, UNCHANGED <<iter, commits, landed, branch, status>>,
           record'.pending.commit \in {record.pending.commit, 0},
           pc' \in Recorded \cup {"idle"}
    PROVE  Reporting'
<1>1. Unsaid' \subseteq Unsaid /\ pc' \notin Unbuilt \cup {"push", "pushed", "review", "command"}
  BY DEF Unsaid, Recorded, Journalled, Unbuilt
<1>2. QED
  BY <1>1, ReportingFrame

LEMMA QuietIssue ==
    ASSUME IInv, Reporting,
           \/ ReadTrigger \/ ResumePublication \/ OpenPr \/ ClearPublication \/ ReadIssue
           \/ Authorize \/ StartFix \/ EndFix \/ Mark
    PROVE  Reporting'
<1>1. UNCHANGED <<iter, commits, landed, branch, status>>
  BY DEF ReadTrigger, ResumePublication, OpenPr, ClearPublication, ReadIssue, Authorize,
         StartFix, EndFix, Mark, durable, forge, history
<1>2. pc' \in Recorded \cup {"idle"}
  <2>1. CASE ClearPublication
    BY <2>1 DEF ClearPublication, Goto, IInv, Publishing, Recorded
  <2>2. CASE ~ ClearPublication
    BY <2>2 DEF ReadTrigger, ResumePublication, OpenPr, ReadIssue, Authorize, StartFix, EndFix,
                Mark, EndPass, Goto, Recorded
  <2>3. QED
    BY <2>1, <2>2
<1>3. record'.pending.commit \in {record.pending.commit, 0}
  <2>1. rec \in Records /\ (pc \in Recorded => rec.pending = record.pending)
    BY DEF IInv, Stores, Publishing
  <2>2. CASE ClearPublication
    <3>1. NoPublication \in [commit : Nat, content : Contents]
      BY DEF NoPublication, NoContent, Contents
    <3>2. QED
      BY <2>1, <2>2, <3>1, PublicationFields, NoRecordIsRecord DEF ClearPublication
  <2>3. CASE Authorize
    <3>1. rec.pending = record.pending
      BY <2>1, <2>3 DEF Authorize, Recorded
    <3>2. look.trigger \in Nat
      BY DEF IInv, Stores, Looks
    <3>3. PICK r : r = [rec EXCEPT !.last = look.trigger]
      OBVIOUS
    <3>4. r.pending = record.pending
      BY <2>1, <3>1, <3>2, <3>3, MentionFields
    <3>5. record' \in {record, r}
      BY <2>3, <3>3 DEF Authorize
    <3>6. QED
      BY <3>4, <3>5
  <2>4. CASE Mark
    <3>1. rec.pending = record.pending
      BY <2>1, <2>4 DEF Mark, Recorded
    <3>2. <<look.content, look.trigger>> \in Contents \X Nat
      BY DEF IInv, Stores, Looks
    <3>3. QED
      BY <2>1, <2>4, <3>1, <3>2, FingerprintFields DEF Mark
  <2>5. CASE record' = record
    BY <2>5
  <2>6. QED
    BY <2>2, <2>3, <2>4, <2>5 DEF ReadTrigger, ResumePublication, OpenPr, ReadIssue, StartFix,
                                  EndFix, durable
<1>4. QED
  BY <1>1, <1>2, <1>3, IssueFrame

(* Before a pull request is tracked no command was read.                   *)
LEMMA NothingTold ==
    ASSUME IInv, Reporting, iter.head = 0
    PROVE  /\ iter.last = 0 /\ iter.pending = 0
           /\ \A k \in DOMAIN status : status[k] = <<>>
<1>1. iter.last = 0 /\ iter.pending = 0
  BY DEF IInv, Publishing, NoState
<1>2. QED
  BY <1>1, NumberTypes DEF Reporting, Told

LEMMA TrackReporting ==
    ASSUME IInv, Reporting, Track
    PROVE  Reporting'
<1>1. /\ UNCHANGED <<record, commits, landed, branch, status>> /\ pc' = "clear"
      /\ rec.pending = record.pending
  BY DEF Track, Goto, forge, history, IInv, Publishing, Recorded
<1>2. CASE iter.head # 0
  BY <1>1, <1>2, IssueFrame DEF Track, Recorded
<1>3. CASE iter.head = 0
  <2>1. iter' = NewState(record.pending.commit)
    BY <1>1, <1>3 DEF Track
  <2>2. iter'.head = record.pending.commit /\ iter'.last = 0 /\ iter'.pending = 0
    BY <2>1, NewStateFields, NumberTypes
  <2>3. Built' /\ Authored' /\ Awaited'
    BY <1>1, <1>3, <2>2, NothingTold DEF Reporting, Built, Authored, Awaited, Unbuilt
  <2>4. Told'
    BY <1>1, <1>3, <2>2, NothingTold DEF Told, Said
  <2>5. QED
    BY <2>3, <2>4 DEF Reporting
<1>4. QED
  BY <1>2, <1>3

LEMMA CreateBranchReporting ==
    ASSUME IInv, Reporting, CreateBranch
    PROVE  Reporting'
<1>1. UNCHANGED <<durable, commits, status>> /\ iter.head = 0
  BY DEF CreateBranch, IInv, Publishing
<1>2. CASE EndPass /\ UNCHANGED <<branch, landed>>
  BY <1>1, <1>2, PassEndsReporting
<1>3. CASE /\ branch' = rec.pending.commit /\ landed' = landed \cup {rec.pending.commit}
           /\ Goto("open")
  <2>1. rec.pending.commit \in 1..Len(commits) /\ pc' = "open"
    BY <1>3 DEF CreateBranch, Goto, IInv, Publishing
  <2>2. Built'
    BY <1>1, <1>3, <2>1 DEF Reporting, Built, durable
  <2>3. Authored' /\ Awaited'
    BY <1>1, <2>1, NothingTold DEF Reporting, Authored, Awaited, Unbuilt, durable
  <2>4. Told'
    BY <1>1, <2>1, NothingTold DEF Told, Said, durable
  <2>5. QED
    BY <2>2, <2>3, <2>4 DEF Reporting
<1>4. QED
  BY <1>2, <1>3 DEF CreateBranch

(* A commit that answers no command, pushed at once or not.                *)
LEMMA CommitReporting ==
    ASSUME IInv, Reporting, NEW p \in Nat, NEW a \in {Host, People}, NewCommit(p, a),
           UNCHANGED <<iter, status>>, record'.pending.commit <= Len(commits'),
           \/ UNCHANGED <<landed, branch>>
           \/ (landed' = landed \cup {Len(commits')} /\ branch' = Len(commits')),
           (pc' = pc /\ mem' = mem) \/ pc' = "create"
    PROVE  Reporting'
<1>1. /\ Len(commits') = Len(commits) + 1 /\ Len(commits) \in Nat /\ a \in Int /\ a <= 0
      /\ commits'[Len(commits')].author = a
      /\ \A c \in 1..Len(commits) : commits'[c] = commits[c]
  <2>1. a \in Int /\ a <= 0
    BY DEF Host, People
  <2>2. QED
    BY <2>1, CommitAdded DEF IInv
<1>2. \A c \in 1..Len(commits') : c \in 1..Len(commits) \/ c = Len(commits')
  BY <1>1
<1>3. /\ Len(commits') \notin landed /\ landed \subseteq landed'
      /\ \A c \in 1..Len(commits) : c \in landed' <=> c \in landed
      /\ branch' \in {branch, Len(commits')}
  BY <1>1 DEF Reporting, Built
<1>4. Built'
  <2>1. landed' \subseteq landed \cup {Len(commits')} /\ (branch' # 0 => branch' \in landed')
    BY <1>1, NumberTypes DEF Reporting, Built
  <2>2. landed' \subseteq 1..Len(commits')
    BY <1>1, <2>1 DEF Reporting, Built
  <2>3. iter.head <= Len(commits')
    BY <1>1, NumberTypes DEF Reporting, Built
  <2>4. QED
    BY <2>1, <2>2, <2>3 DEF Built
<1>5. Authored'
  <2>1. \A c \in 1..Len(commits') : commits'[c].author <= iter.last
    BY <1>1, <1>2, NumberTypes DEF Reporting, Authored
  <2>2. pc' \in Unbuilt => /\ iter.last > 0
                           /\ \A c \in 1..Len(commits') : commits'[c].author # iter.last
    BY <1>1, <1>2, NumberTypes DEF Reporting, Authored, Unbuilt
  <2>3. QED
    BY <2>1, <2>2 DEF Authored
<1>6. Awaited'
  <2>1. CASE iter.pending = 0
    <3>1. pc' \notin {"push", "pushed"}
      BY <2>1 DEF IInv, Memory, SameJournal, Journalled
    <3>2. QED
      BY <2>1, <3>1 DEF Awaited
  <2>2. CASE iter.pending # 0
    <3>1. /\ iter.last > 0 /\ iter.pending \in 1..Len(commits) /\ iter.head < iter.pending
          /\ \A c \in 1..Len(commits) : commits[c].author = iter.last <=> c = iter.pending
          /\ iter.pending \in landed => iter.pending <= branch
      BY <2>2 DEF Reporting, Awaited
    <3>2. \A c \in 1..Len(commits') : commits'[c].author = iter.last <=> c = iter.pending
      BY <1>1, <1>2, <3>1
    <3>3. iter.pending \in landed' => iter.pending <= branch'
      BY <1>1, <1>3, <3>1, NumberTypes
    <3>4. pc' \in {"push", "pushed"} => mem' = mem /\ pc = pc' /\ mem.pending = iter.pending
      BY DEF IInv, Memory, SameJournal, Journalled
    <3>5. (pc' = "push" => mem'.pending \notin landed') /\ (pc' = "pushed" => mem'.pending \in landed')
      BY <1>3, <3>1, <3>4 DEF Reporting, Awaited
    <3>6. iter.pending \in 1..Len(commits')
      BY <1>1, <3>1
    <3>7. QED
      BY <3>1, <3>2, <3>3, <3>5, <3>6 DEF Awaited
  <2>3. QED
    BY <2>1, <2>2
<1>7. ASSUME NEW k, k > 0, k \in Nat, NEW x, Fits(k, x)
      PROVE  Fits(k, x)'
  <2>1. Delivered(k)' = Delivered(k)
    BY <1>1, <1>7, DeliveriesGrow DEF Reporting
  <2>2. QED
    BY <1>7, <2>1, StillFits DEF Undecided, Unbuilt
<1>8. Unsaid' \subseteq Unsaid
  BY DEF Unsaid, Journalled
<1>9. Told'
  <2>1. \A k \in DOMAIN status : k > 0 /\ k \in Nat
    BY NumberTypes
  <2>2. \A k \in {iter.last} \ {0} : k > 0 /\ k \in Nat
    BY NumberTypes
  <2>3. QED
    BY <1>7, <1>8, <2>1, <2>2 DEF Reporting, Told, Said
<1>10. QED
  BY <1>4, <1>5, <1>6, <1>9 DEF Reporting

LEMMA VerifyFixReporting ==
    ASSUME IInv, Reporting, VerifyFix
    PROVE  Reporting'
<1>1. UNCHANGED <<iter, branch, landed, status>>
  BY DEF VerifyFix, history
<1>2. CASE Goto("mark") /\ UNCHANGED <<record, commits>>
  BY <1>1, <1>2, IssueFrame DEF Goto, Recorded
<1>3. CASE EndPass /\ UNCHANGED <<record, commits>>
  BY <1>1, <1>3, IssueFrame DEF EndPass
<1>4. CASE /\ NewCommit(0, Host) /\ Goto("create") /\ record' = rec'
           /\ rec' = [rec EXCEPT !.pending = [commit |-> Len(commits'), content |-> Content]]
  <2>1. Len(commits') \in Nat
    BY <1>4, CommitAdded DEF IInv, Host
  <2>2. rec \in Records /\ Content \in Contents
    BY ContentIsContent DEF IInv, Stores
  <2>3. record'.pending.commit = Len(commits')
    BY <1>4, <2>1, <2>2, PublicationFields
  <2>4. QED
    BY <1>1, <1>4, <2>1, <2>3, CommitReporting DEF Goto
<1>5. QED
  BY <1>2, <1>3, <1>4 DEF VerifyFix

-----------------------------------------------------------------------------

(* What goes on around a pass.                                             *)

LEMMA AroundReporting ==
    ASSUME IInv, Reporting, UNCHANGED <<durable, pass, commits, landed, branch, status>>
    PROVE  Reporting'
<1>1. Unsaid' \subseteq Unsaid
  BY DEF Unsaid, durable, pass
<1>2. QED
  BY <1>1, ReportingFrame DEF durable, pass, Reporting, Told

LEMMA ForeignPushReporting ==
    ASSUME IInv, Reporting, ForeignPush
    PROVE  Reporting'
<1>1. /\ NewCommit(branch, People) /\ UNCHANGED <<durable, pass, status>>
      /\ landed' = landed \cup {Len(commits')} /\ branch' = Len(commits')
  BY DEF ForeignPush
<1>2. Len(commits') = Len(commits) + 1
  BY <1>1, NumberTypes, CommitAdded DEF IInv, People
<1>3. record'.pending.commit <= Len(commits')
  BY <1>1, <1>2, NumberTypes DEF Reporting, Built, durable
<1>4. QED
  BY <1>1, <1>3, NumberTypes, CommitReporting DEF durable, pass

LEMMA NextReporting == IInv /\ Reporting /\ [Next]_vars => Reporting'
<1> SUFFICES ASSUME IInv, Reporting, [Next]_vars
             PROVE  Reporting'
  OBVIOUS
<1>1. CASE PassStep
  BY <1>1, QuietIteration, FetchPrReporting, PostNoticeReporting, ReadCommandReporting,
     EndRevisionReporting, RecheckReporting, PushReporting, SavePushReporting, QuietIssue,
     TrackReporting, VerifyFixReporting, CreateBranchReporting
     DEF PassStep, IterationStep, IssueStep
<1>2. CASE Interrupted
  BY <1>2, PassEndsReporting DEF Interrupted, forge, history
<1>3. CASE \E c \in requested : ReviewCompletes(c)
  BY <1>3, AroundReporting DEF ReviewCompletes, forge, history
<1>4. CASE PeopleStep
  <2>1. CASE ForeignPush
    BY <2>1, ForeignPushReporting
  <2>2. CASE ~ ForeignPush
    BY <1>4, <2>2, AroundReporting DEF PeopleStep, PostMention, PostCommand, DeleteComment,
       EditIssue, ChangePr, forge, history
  <2>3. QED
    BY <2>1, <2>2
<1>5. CASE UNCHANGED vars
  BY <1>5, AroundReporting DEF vars, forge, history
<1>6. QED
  BY <1>1, <1>2, <1>3, <1>4, <1>5 DEF Next

(* The status comment of a command never claims an update that was not     *)
(* pushed for that command and never denies one that was, whatever the     *)
(* push, the answer to it or the daemon came to (iterations.rs:65).        *)
THEOREM StatusAgrees == Spec => []StatusIsTrue
<1>1. Init => IInv /\ Reporting
  BY InitIInv, InitReporting
<1>2. (IInv /\ Reporting) /\ [Next]_vars => (IInv /\ Reporting)'
  BY NextIInv, NextReporting
<1>3. IInv /\ Reporting => StatusIsTrue
  <2> SUFFICES ASSUME Reporting, NEW k \in DOMAIN status, NEW i \in DOMAIN status[k]
               PROVE  /\ status[k][i] = "pushed" => Delivered(k)
                      /\ status[k][i] \in Denials => ~ Delivered(k)
    BY DEF StatusIsTrue, Denials
  <2>1. Agrees(k, status[k][i])
    BY DEF Reporting, Told, Said, Fits
  <2>2. QED
    BY <2>1 DEF Agrees
<1>4. QED
  BY <1>1, <1>2, <1>3, PTL DEF Spec

=============================================================================
