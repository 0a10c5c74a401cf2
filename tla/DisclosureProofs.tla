--------------------------- MODULE DisclosureProofs ---------------------------
(***************************************************************************)
(* Proofs about Disclosure: no report that a receipt stands for is lost by *)
(* a force push, report files are newest first, and a commit is reviewed   *)
(* once; for any number of runs, commits, faults and acts of people.       *)
(***************************************************************************)
EXTENDS Disclosure, SequenceTheorems, TLAPS

(* The inductive invariant.  A commit has a review only if its receipt was *)
(* begun, and a run that goes on to post knows that there is none.  A file *)
(* that is about to be pushed has every report a receipt stands for, but   *)
(* those that are on the base or were dismissed.  The report of the run is *)
(* the newest there is.                                                    *)

Acting == {"look", "check", "post", "find", "checkout", "push", "find_again", "create"}

Urls ==
  /\ run.pc \in Acting => run.url = "none"
  /\ run.pc \in Acting \cup {"finish"} => receipts[run.head].status = "Publishing"

Posting ==
  /\ \A h \in Heads : posts[h] > 0 => posts[h] = 1 /\ receipts[h].status # "None"
  /\ \A h \in Heads : receipts[h].url = "review" => posts[h] = 1
  /\ run.pc = "look" /\ ~run.recovering => posts[run.head] = 0
  /\ run.pc \in {"check", "post"} => posts[run.head] = 0
  /\ run.pc = "finish" /\ run.url = "review" => posts[run.head] = 1

Receipted == {receipts[h].report : h \in {g \in Heads : receipts[g].url = "pull"}}

Settled == In(base) \cup dismissed

Keeping ==
  /\ \A r \in Receipted : Kept(r)
  /\ run.pc = "checkout" /\ ~run.existing => Receipted \subseteq Settled
  /\ run.pc = "checkout" /\ run.existing => pull = "open" \/ In(branch) \subseteq Settled
  /\ run.pc = "push" => Receipted \subseteq Settled \cup In(run.file) /\ run.report \in In(run.file)
  /\ run.pc \in {"find_again", "create"} => run.report \in In(branch)
  /\ run.pc = "finish" /\ run.url = "pull" => Kept(run.report)

Sorted(file) == \A i, j \in DOMAIN file : i < j => file[j] <= file[i]

Upto(file, n) == \A i \in DOMAIN file : file[i] <= n

Order ==
  /\ run.report <= used.runs /\ (run.pc # "idle" => run.report # 0)
  /\ Sorted(base) /\ Upto(base, run.report)
  /\ Sorted(branch) /\ Upto(branch, run.report)
  /\ Sorted(run.file) /\ Upto(run.file, run.report)

IInv == TypeOK /\ Urls /\ Posting /\ Keeping /\ Order

-----------------------------------------------------------------------------
(* Files. *)
LEMMA Combined ==
    ASSUME NEW s \in Seq(Reports), NEW x \in Reports
    PROVE  /\ combine_reports(s, <<x>>) \in Seq(Reports)
           /\ In(combine_reports(s, <<x>>)) = {x} \cup In(s)
<1> DEFINE t == <<x>> \o s
<1>1. t \in Seq(Reports) /\ Len(t) = Len(s) + 1 /\ Len(s) \in Nat
  OBVIOUS
<1>2. t[1] = x /\ \A i \in 1..Len(s) : t[i + 1] = s[i]
  OBVIOUS
<1>3. DOMAIN t = 1..Len(t) /\ DOMAIN s = 1..Len(s)
  OBVIOUS
<1> HIDE DEF t
<1>4. In(t) \subseteq {x} \cup In(s)
  <2> SUFFICES ASSUME NEW i \in 1..Len(t), t[i] # x PROVE t[i] \in In(s)
    BY <1>3 DEF In
  <2>1. i - 1 \in 1..Len(s) /\ t[(i - 1) + 1] = s[i - 1] /\ (i - 1) + 1 = i
    BY <1>1, <1>2
  <2> QED
    BY <1>3, <2>1 DEF In
<1>5. {x} \subseteq In(t)
  <2>1. 1 \in 1..Len(t)
    BY <1>1
  <2> QED
    BY <1>2, <1>3, <2>1 DEF In
<1>6. In(s) \subseteq In(t)
  <2> SUFFICES ASSUME NEW i \in 1..Len(s) PROVE s[i] \in In(t)
    BY <1>3 DEF In
  <2>1. i + 1 \in 1..Len(t) /\ t[i + 1] = s[i]
    BY <1>1, <1>2
  <2> QED
    BY <1>3, <2>1 DEF In
<1>7. QED
  BY <1>1, <1>4, <1>5, <1>6 DEF t, combine_reports

LEMMA CombinedSorted ==
    ASSUME NEW s \in Seq(Reports), NEW x \in Reports, Sorted(s), Upto(s, x)
    PROVE  Sorted(combine_reports(s, <<x>>)) /\ Upto(combine_reports(s, <<x>>), x)
<1> DEFINE t == <<x>> \o s
<1>1. t \in Seq(Reports) /\ Len(t) = Len(s) + 1 /\ Len(s) \in Nat
  OBVIOUS
<1>2. t[1] = x /\ \A i \in 1..Len(s) : t[i + 1] = s[i]
  OBVIOUS
<1>3. DOMAIN t = 1..Len(t) /\ DOMAIN s = 1..Len(s)
  OBVIOUS
<1> HIDE DEF t
<1>4. \A i \in 1..Len(t) : t[i] <= x
  <2> SUFFICES ASSUME NEW i \in 1..Len(t) PROVE t[i] <= x
    OBVIOUS
  <2>1. CASE i = 1
    BY <1>2, <2>1, DisclosureAssumption DEF Reports
  <2>2. CASE i # 1
    <3>1. i - 1 \in 1..Len(s) /\ t[(i - 1) + 1] = s[i - 1] /\ (i - 1) + 1 = i
      BY <1>1, <1>2, <2>2
    <3> QED
      BY <1>3, <3>1 DEF Upto
  <2> QED
    BY <2>1, <2>2
<1>5. ASSUME NEW i \in 1..Len(t), NEW j \in 1..Len(t), i < j PROVE t[j] <= t[i]
  <2>1. CASE i = 1
    BY <1>2, <1>4, <2>1
  <2>2. CASE i # 1
    <3>1. i - 1 \in 1..Len(s) /\ (i - 1) + 1 = i
          /\ j - 1 \in 1..Len(s) /\ (j - 1) + 1 = j /\ i - 1 < j - 1
      BY <1>1, <1>5, <2>2
    <3>2. t[(i - 1) + 1] = s[i - 1] /\ t[(j - 1) + 1] = s[j - 1]
      BY <1>2, <3>1
    <3>3. s[j - 1] <= s[i - 1]
      BY <1>3, <3>1 DEF Sorted
    <3> QED
      BY <3>1, <3>2, <3>3
  <2> QED
    BY <2>1, <2>2
<1>6. QED
  BY <1>3, <1>4, <1>5 DEF t, combine_reports, Sorted, Upto

LEMMA Suffix ==
    ASSUME NEW s \in Seq(Reports), NEW n \in 0..Len(s)
    PROVE  In(SubSeq(s, n + 1, Len(s))) \subseteq In(s)
<1> DEFINE t == SubSeq(s, n + 1, Len(s))
<1>1. Len(s) \in Nat /\ DOMAIN s = 1..Len(s)
  OBVIOUS
<1>2. t \in Seq(Reports) /\ Len(t) = Len(s) - n
        /\ \A i \in 1..Len(t) : t[i] = s[n + i]
  <2>1. n + 1 \in Int /\ Len(s) \in Int /\ \A i \in (n + 1)..Len(s) : s[i] \in Reports
    BY <1>1
  <2>2. /\ t \in Seq(Reports)
        /\ Len(t) = IF n + 1 <= Len(s) THEN Len(s) - (n + 1) + 1 ELSE 0
        /\ \A i \in 1..(Len(s) - (n + 1) + 1) : t[i] = s[n + 1 + i - 1]
    BY <2>1, SubSeqProperties
  <2> HIDE DEF t
  <2>3. Len(t) = Len(s) - n
    BY <1>1, <2>2
  <2>4. ASSUME NEW i \in 1..Len(t) PROVE t[i] = s[n + i]
    <3>1. i \in 1..(Len(s) - (n + 1) + 1) /\ n + 1 + i - 1 = n + i
      BY <1>1, <2>3
    <3> QED
      BY <2>2, <3>1
  <2> QED
    BY <2>2, <2>3, <2>4
<1>3. DOMAIN t = 1..Len(t)
  BY <1>2
<1> HIDE DEF t
<1>4. ASSUME NEW i \in 1..Len(t) PROVE t[i] \in In(s)
  <2>1. n + i \in 1..Len(s) /\ t[i] = s[n + i]
    BY <1>1, <1>2
  <2> QED
    BY <1>1, <2>1 DEF In
<1>5. QED
  BY <1>3, <1>4 DEF In, t

(* The run. *)
Pcs == Steps \cup {"idle"}

Same(q, r) == q.head = r.head /\ q.report = r.report

LEMMA RunFields ==
    ASSUME NEW r \in Runs
    PROVE  /\ r.pc \in Pcs /\ r.head \in Heads /\ r.report \in 0..MaxRuns
           /\ r.artifact \in Artifacts /\ r.pr_open \in BOOLEAN
           /\ r.recovering \in BOOLEAN /\ r.existing \in BOOLEAN
           /\ r.file \in Seq(Reports) /\ r.url \in Places
BY DEF Runs, Pcs, Same

(* What a step that leaves the files and the receipts alone must show.     *)
LEMMA KeepingStays ==
    ASSUME Keeping, UNCHANGED <<base, branch, pull, dismissed>>, Receipted' \subseteq Receipted,
           run'.pc \notin {"checkout", "push", "find_again", "create"},
           run'.pc = "finish" => run'.url # "pull"
    PROVE  Keeping'
BY DEF Keeping, Kept, Settled

LEMMA OrderStays ==
    ASSUME Order, UNCHANGED <<base, branch>>, run'.file = run.file,
           run'.report = run.report, used'.runs = used.runs,
           run.pc # "idle" \/ run'.pc = "idle"
    PROVE  Order'
BY DEF Order, Sorted, Upto

LEMMA Empty == ASSUME NEW n PROVE Sorted(<< >>) /\ Upto(<< >>, n)
BY DEF Sorted, Upto

LEMMA UptoMore ==
    ASSUME NEW s \in Seq(Reports), NEW n \in Nat, NEW m \in Nat, n <= m, Upto(s, n)
    PROVE  Upto(s, m)
BY DisclosureAssumption DEF Upto, Reports

LEMMA UsedCounts ==
    ASSUME TypeOK
    PROVE  /\ used.runs \in Nat /\ used.people \in Nat /\ used.faults \in Nat
           /\ (Fault => used' \in [runs : 0..MaxRuns, people : 0..MaxPeople, faults : 0..MaxFaults]
                         /\ used'.runs = used.runs)
           /\ (Act => used' \in [runs : 0..MaxRuns, people : 0..MaxPeople, faults : 0..MaxFaults]
                         /\ used'.runs = used.runs)
           /\ (used.runs < MaxRuns /\ used' = [used EXCEPT !.runs = @ + 1] =>
                 used' \in [runs : 0..MaxRuns, people : 0..MaxPeople, faults : 0..MaxFaults]
                 /\ used'.runs = used.runs + 1)
<1>1. /\ used.runs \in 0..MaxRuns /\ used.people \in 0..MaxPeople /\ used.faults \in 0..MaxFaults
      /\ used = [runs |-> used.runs, people |-> used.people, faults |-> used.faults]
  BY DEF TypeOK
<1>2. used.runs \in Nat /\ used.people \in Nat /\ used.faults \in Nat
  BY <1>1, DisclosureAssumption
<1>3. /\ used.runs < MaxRuns => used.runs + 1 \in 0..MaxRuns
      /\ used.people < MaxPeople => used.people + 1 \in 0..MaxPeople
      /\ used.faults < MaxFaults => used.faults + 1 \in 0..MaxFaults
  BY <1>1, DisclosureAssumption
<1>4. ASSUME Fault
      PROVE  used' \in [runs : 0..MaxRuns, people : 0..MaxPeople, faults : 0..MaxFaults]
             /\ used'.runs = used.runs
  <2>1. used' = [runs |-> used.runs, people |-> used.people, faults |-> used.faults + 1]
    BY <1>1, <1>4 DEF Fault
  <2>2. used.faults + 1 \in 0..MaxFaults
    BY <1>3, <1>4 DEF Fault
  <2> QED
    BY <1>1, <2>1, <2>2
<1>5. ASSUME Act
      PROVE  used' \in [runs : 0..MaxRuns, people : 0..MaxPeople, faults : 0..MaxFaults]
             /\ used'.runs = used.runs
  <2>1. used' = [runs |-> used.runs, people |-> used.people + 1, faults |-> used.faults]
    BY <1>1, <1>5 DEF Act
  <2>2. used.people + 1 \in 0..MaxPeople
    BY <1>3, <1>5 DEF Act
  <2> QED
    BY <1>1, <2>1, <2>2
<1>6. ASSUME used.runs < MaxRuns, used' = [used EXCEPT !.runs = @ + 1]
      PROVE  used' \in [runs : 0..MaxRuns, people : 0..MaxPeople, faults : 0..MaxFaults]
             /\ used'.runs = used.runs + 1
  <2>1. used' = [runs |-> used.runs + 1, people |-> used.people, faults |-> used.faults]
    BY <1>1, <1>6
  <2>2. used.runs + 1 \in 0..MaxRuns
    BY <1>3, <1>6
  <2> QED
    BY <1>1, <2>1, <2>2
<1>7. QED
  BY <1>2, <1>4, <1>5, <1>6

LEMMA ReviewEndsKeeps ==
    ASSUME IInv, ReviewEnds
    PROVE  IInv'
<1>0. run \in Runs
  BY DEF IInv, TypeOK
<1>1. PICK a \in Artifacts, h \in {run.head, run.head + 1} \cap Heads,
           r \in {used.runs + 1, run.report} \ {0} :
        run' = [run EXCEPT !.pc = "begin", !.head = h, !.report = r, !.artifact = a,
                  !.pr_open = live, !.url = "none"]
  BY DEF ReviewEnds
<1>2. /\ used' \in [runs : 0..MaxRuns, people : 0..MaxPeople, faults : 0..MaxFaults]
      /\ used'.runs = used.runs + 1 /\ used.runs \in Nat /\ used.runs < MaxRuns
      /\ UNCHANGED <<config, live, posts, base, branch, pull, dismissed, receipts>>
  BY UsedCounts DEF ReviewEnds, remote, IInv
<1>3. /\ run' \in Runs /\ run'.pc = "begin" /\ run'.report = r /\ run'.file = run.file
      /\ run.report \in Nat /\ r \in Nat /\ run.report <= r /\ r <= used'.runs /\ r # 0
  <2>1. run.report \in Nat /\ run.report <= used.runs /\ run.report \in 0..MaxRuns
    BY <1>0, RunFields, DisclosureAssumption DEF IInv, Order
  <2>2. r \in 0..MaxRuns /\ r \in Nat /\ run.report <= r /\ r <= used'.runs
    BY <1>1, <1>2, <2>1, DisclosureAssumption
  <2>3. "begin" \in Pcs /\ "none" \in Places /\ live \in BOOLEAN
    BY DEF Pcs, Steps, Places, IInv, TypeOK
  <2> QED
    BY <1>0, <1>1, <2>1, <2>2, <2>3 DEF Runs, Same, Pcs
<1>4. TypeOK'
  BY <1>2, <1>3 DEF IInv, TypeOK
<1>5. Urls'
  BY <1>3 DEF Urls, Acting
<1>6. Posting'
  BY <1>2, <1>3 DEF IInv, Posting
<1>7. Keeping'
  BY <1>2, <1>3, KeepingStays DEF IInv, Receipted
<1>8. Order'
  <2>1. base \in Seq(Reports) /\ branch \in Seq(Reports) /\ run.file \in Seq(Reports)
    BY <1>0, RunFields DEF IInv, TypeOK
  <2>2. Upto(base, r) /\ Upto(branch, r) /\ Upto(run.file, r)
    BY <1>3, <2>1, UptoMore DEF IInv, Order
  <2> QED
    BY <1>2, <1>3, <2>2 DEF IInv, Order
<1>9. QED
  BY <1>4, <1>5, <1>6, <1>7, <1>8 DEF IInv

LEMMA BeginKeeps ==
    ASSUME IInv, Begin
    PROVE  IInv'
<1>0. run \in Runs
  BY DEF IInv, TypeOK
<1>1. CASE receipts[run.head].status = "Published"
  <2>1. /\ run' \in Runs /\ run'.pc = "idle" /\ run'.file = run.file /\ run'.report = run.report
        /\ UNCHANGED <<config, live, posts, base, branch, pull, dismissed, receipts, used>>
        /\ run.pc = "begin"
    BY <1>0, <1>1 DEF Begin, remote, Pcs, Same, Runs
  <2>2. TypeOK'
    BY <2>1 DEF IInv, TypeOK
  <2>3. Urls' /\ Posting'
    BY <2>1 DEF IInv, Urls, Acting, Posting
  <2>4. Keeping' /\ Order'
    BY <2>1, KeepingStays, OrderStays DEF IInv, Receipted
  <2> QED
    BY <2>2, <2>3, <2>4 DEF IInv
<1>2. CASE receipts[run.head].status # "Published"
  <2>1. PICK pc \in {"look", "find", "finish"}, url \in {"none", "file"} :
          /\ run' = [run EXCEPT !.pc = pc,
                       !.recovering = receipts[run.head].status = "Publishing", !.url = url]
          /\ url = "file" => pc = "finish"
    BY <1>2 DEF Begin, FirstStep
  <2>2. /\ receipts' = [receipts EXCEPT ![run.head].status = "Publishing"]
        /\ UNCHANGED <<config, live, posts, base, branch, pull, dismissed, used>>
        /\ run.pc = "begin"
    BY <1>2 DEF Begin, remote
  <2>3. /\ run' \in Runs /\ run'.pc = pc /\ run'.file = run.file /\ run'.report = run.report
        /\ run'.recovering = (receipts[run.head].status = "Publishing") /\ run'.url = url
        /\ run'.head = run.head
    <3> DEFINE b == receipts[run.head].status = "Publishing"
    <3>1. pc \in Pcs /\ url \in Places /\ b \in BOOLEAN
      BY DEF Pcs, Steps, Places
    <3>2. run' = [run EXCEPT !.pc = pc, !.recovering = b, !.url = url]
      BY <2>1
    <3> HIDE DEF b
    <3>3. /\ run' \in Runs /\ run'.pc = pc /\ run'.file = run.file
          /\ run'.report = run.report /\ run'.recovering = b /\ run'.url = url
          /\ run'.head = run.head
      BY <1>0, <3>1, <3>2 DEF Runs, Pcs
    <3> QED
      BY <3>3 DEF b
  <2>4. /\ receipts' \in [Heads -> [status : {"None", "Publishing", "Published"},
                                   url : Places, report : 0..MaxRuns]]
        /\ \A h \in Heads : receipts'[h].url = receipts[h].url
                            /\ receipts'[h].report = receipts[h].report
        /\ run.head \in Heads /\ receipts'[run.head].status = "Publishing"
        /\ \A h \in Heads : receipts[h].status # "None" => receipts'[h].status # "None"
        /\ receipts[run.head].status \in {"None", "Publishing"}
    <3>1. run.head \in Heads
      BY <1>0, RunFields
    <3> DEFINE Receipt == [status : {"None", "Publishing", "Published"},
                           url : Places, report : 0..MaxRuns]
               old == receipts[run.head]
               begun == [old EXCEPT !.status = "Publishing"]
    <3>2. receipts \in [Heads -> Receipt] /\ old \in Receipt
      BY <3>1 DEF IInv, TypeOK
    <3>3. old.status \in {"None", "Publishing"}
      BY <1>2, <3>2
    <3>4. /\ begun \in Receipt /\ begun.status = "Publishing"
          /\ begun.url = old.url /\ begun.report = old.report
      BY <3>2
    <3>5. receipts' = [receipts EXCEPT ![run.head] = begun]
      BY <2>2
    <3> HIDE DEF Receipt, begun
    <3>6. /\ receipts' \in [Heads -> Receipt] /\ receipts'[run.head] = begun
          /\ \A h \in Heads \ {run.head} : receipts'[h] = receipts[h]
      BY <3>1, <3>2, <3>4, <3>5
    <3>7. \A h \in Heads : /\ receipts'[h].url = receipts[h].url
                           /\ receipts'[h].report = receipts[h].report
                           /\ receipts[h].status # "None" => receipts'[h].status # "None"
      BY <3>4, <3>6
    <3>8. receipts'[run.head].status = "Publishing"
      BY <3>4, <3>6
    <3> QED
      BY <3>1, <3>3, <3>6, <3>7, <3>8 DEF Receipt
  <2>5. TypeOK'
    BY <2>2, <2>3, <2>4 DEF IInv, TypeOK
  <2>6. Urls'
    BY <2>1, <2>3, <2>4 DEF Urls, Acting
  <2>7. Posting'
    <3>1. posts[run.head] > 0 => receipts[run.head].status = "Publishing"
      BY <2>4 DEF IInv, Posting
    <3>2. posts[run.head] \in Nat
      BY <2>4 DEF IInv, TypeOK
    <3>3. ~run'.recovering => posts[run.head] = 0
      <4>1. receipts[run.head].status # "Publishing" => posts[run.head] = 0
        BY <3>1, <3>2
      <4> QED
        BY <2>3, <4>1
    <3> QED
      BY <2>2, <2>3, <2>4, <3>3 DEF IInv, Posting
  <2>8. Receipted' = Receipted
    BY <2>4 DEF Receipted
  <2>9. Keeping' /\ Order'
    BY <2>2, <2>3, <2>8, KeepingStays, OrderStays DEF IInv
  <2> QED
    BY <2>5, <2>6, <2>7, <2>9 DEF IInv
<1>3. QED
  BY <1>1, <1>2

LEMMA LookKeeps ==
    ASSUME IInv, Look
    PROVE  IInv'
<1>0. run \in Runs
  BY DEF IInv, TypeOK
<1>1. /\ UNCHANGED <<config, live, posts, base, branch, pull, dismissed, receipts>> /\ used'.runs = used.runs
      /\ used' \in [runs : 0..MaxRuns, people : 0..MaxPeople, faults : 0..MaxFaults]
  BY UsedCounts DEF Look, remote, IInv, TypeOK
<1>2. /\ run.pc = "look" /\ run' \in Runs /\ Same(run', run) /\ run'.file = run.file
      /\ \/ run'.pc = "finish" /\ run'.url = "review" /\ posts[run.head] > 0
         \/ run'.pc = "check" /\ run'.url = run.url /\ (posts[run.head] > 0 => ~run.recovering)
  <2>1. "finish" \in Pcs /\ "check" \in Pcs /\ "review" \in Places
    BY DEF Pcs, Steps, Places
  <2>2. CASE run' = [run EXCEPT !.pc = "finish", !.url = "review"] /\ posts[run.head] > 0
    BY <1>0, <2>1, <2>2 DEF Look, Runs, Same, Pcs
  <2>3. CASE run' = [run EXCEPT !.pc = "check"] /\ (posts[run.head] > 0 => ~run.recovering)
    BY <1>0, <2>1, <2>3 DEF Look, Runs, Same, Pcs
  <2> QED
    BY <2>2, <2>3 DEF Look
<1>3. run.head \in Heads /\ posts[run.head] \in Nat
  BY <1>0, RunFields DEF IInv, TypeOK
<1>4. TypeOK'
  BY <1>1, <1>2 DEF IInv, TypeOK
<1>5. Urls'
  BY <1>1, <1>2 DEF IInv, Urls, Acting, Same
<1>6. Posting'
  <2>1. posts[run.head] > 0 => posts[run.head] = 1
    BY <1>3 DEF IInv, Posting
  <2>2. run'.pc = "check" => posts[run.head] = 0
    BY <1>2, <1>3 DEF IInv, Posting
  <2> QED
    BY <1>1, <1>2, <1>3, <2>1, <2>2 DEF IInv, Posting, Same
<1>7. Keeping'
  BY <1>1, <1>2, KeepingStays DEF IInv, Receipted
<1>8. Order'
  BY <1>1, <1>2, OrderStays DEF IInv, Same
<1>9. QED
  BY <1>4, <1>5, <1>6, <1>7, <1>8 DEF IInv

LEMMA CheckKeeps ==
    ASSUME IInv, Check
    PROVE  IInv'
<1>0. run \in Runs
  BY DEF IInv, TypeOK
<1>1. UNCHANGED <<config, live, posts, base, branch, pull, dismissed, receipts, used>>
  BY DEF Check, remote
<1>2. /\ run.pc = "check" /\ run' \in Runs /\ Same(run', run) /\ run'.file = run.file
      /\ run'.url = run.url /\ run'.pc \in {"post", "finish"}
  <2>1. "finish" \in Pcs /\ "post" \in Pcs
    BY DEF Pcs, Steps
  <2> QED
    BY <1>0, <2>1 DEF Check, Runs, Same, Pcs
<1>3. run.url = "none"
  BY <1>2 DEF IInv, Urls, Acting
<1>4. TypeOK'
  BY <1>1, <1>2 DEF IInv, TypeOK
<1>5. Urls'
  BY <1>1, <1>2 DEF IInv, Urls, Acting, Same
<1>6. Posting'
  BY <1>1, <1>2, <1>3 DEF IInv, Posting, Same
<1>7. Keeping'
  BY <1>1, <1>2, <1>3, KeepingStays DEF IInv, Receipted
<1>8. Order'
  BY <1>1, <1>2, OrderStays DEF IInv, Same
<1>9. QED
  BY <1>4, <1>5, <1>6, <1>7, <1>8 DEF IInv

LEMMA PostKeeps ==
    ASSUME IInv, Post
    PROVE  IInv'
<1>0. run \in Runs
  BY DEF IInv, TypeOK
<1>1. /\ UNCHANGED <<config, live, base, branch, pull, dismissed, receipts>>
      /\ used'.runs = used.runs
      /\ used' \in [runs : 0..MaxRuns, people : 0..MaxPeople, faults : 0..MaxFaults]
  BY UsedCounts DEF Post, IInv, TypeOK
<1>2. /\ run.pc = "post" /\ run' \in Runs /\ Same(run', run) /\ run'.file = run.file
      /\ run'.pc = "idle" \/ (run'.pc = "finish" /\ run'.url = "review")
  <2>1. "finish" \in Pcs /\ "idle" \in Pcs /\ "review" \in Places
    BY DEF Pcs, Steps, Places
  <2>2. CASE run' = [run EXCEPT !.pc = "finish", !.url = "review"]
    BY <1>0, <2>1, <2>2 DEF Post, Runs, Same, Pcs
  <2>3. CASE run' = [run EXCEPT !.pc = "idle"]
    BY <1>0, <2>1, <2>3 DEF Post, Runs, Same, Pcs
  <2> QED
    BY <2>2, <2>3 DEF Post
<1>3. /\ run.head \in Heads /\ posts' \in [Heads -> Nat]
      /\ posts'[run.head] = 1 /\ \A h \in Heads \ {run.head} : posts'[h] = posts[h]
      /\ receipts[run.head].status = "Publishing"
  <2>1. run.head \in Heads /\ posts[run.head] = 0 /\ posts \in [Heads -> Nat]
          /\ receipts[run.head].status = "Publishing"
    BY <1>0, <1>2, RunFields DEF IInv, Posting, TypeOK, Urls, Acting
  <2>2. posts' = [posts EXCEPT ![run.head] = @ + 1]
    BY DEF Post
  <2> QED
    BY <2>1, <2>2
<1>4. TypeOK'
  BY <1>1, <1>2, <1>3 DEF IInv, TypeOK
<1>5. Urls'
  BY <1>1, <1>2 DEF IInv, Urls, Acting, Same
<1>6. Posting'
  BY <1>1, <1>2, <1>3 DEF IInv, Posting, Same
<1>7. Keeping'
  BY <1>1, <1>2, KeepingStays DEF IInv, Receipted
<1>8. Order'
  BY <1>1, <1>2, OrderStays DEF IInv, Same
<1>9. QED
  BY <1>4, <1>5, <1>6, <1>7, <1>8 DEF IInv

LEMMA FindKeeps ==
    ASSUME IInv, Find
    PROVE  IInv'
<1>0. run \in Runs
  BY DEF IInv, TypeOK
<1>1. UNCHANGED <<config, live, posts, base, branch, pull, dismissed, receipts, used>>
  BY DEF Find, remote
<1>2. /\ run.pc = "find" /\ run' \in Runs /\ Same(run', run) /\ run'.file = run.file
      /\ run'.url = run.url /\ run'.pc = "checkout" /\ run'.existing = (pull = "open")
  <2> DEFINE b == pull = "open"
  <2>1. "checkout" \in Pcs /\ b \in BOOLEAN
    BY DEF Pcs, Steps
  <2>2. run.pc = "find" /\ run' = [run EXCEPT !.pc = "checkout", !.existing = b]
    BY DEF Find
  <2> HIDE DEF b
  <2>3. /\ run' \in Runs /\ Same(run', run) /\ run'.file = run.file
        /\ run'.url = run.url /\ run'.pc = "checkout" /\ run'.existing = b
    BY <1>0, <2>1, <2>2 DEF Runs, Same, Pcs
  <2> QED
    BY <2>2, <2>3 DEF b
<1>4. TypeOK'
  BY <1>1, <1>2 DEF IInv, TypeOK
<1>5. Urls'
  BY <1>1, <1>2 DEF IInv, Urls, Acting, Same
<1>6. Posting'
  BY <1>1, <1>2 DEF IInv, Posting
<1>7. Keeping'
  <2>1. /\ Receipted' = Receipted /\ Settled' = Settled /\ pull' = pull
        /\ branch' = branch /\ \A r : Kept(r)' <=> Kept(r)
    BY <1>1 DEF Receipted, Settled, Kept
  <2>2. pull # "open" => Receipted \subseteq Settled
    BY DEF IInv, Keeping, Kept, Settled
  <2> QED
    BY <1>2, <2>1, <2>2 DEF IInv, Keeping
<1>8. Order'
  BY <1>1, <1>2, OrderStays DEF IInv, Same
<1>9. QED
  BY <1>4, <1>5, <1>6, <1>7, <1>8 DEF IInv

LEMMA CheckoutKeeps ==
    ASSUME IInv, Checkout
    PROVE  IInv'
<1>0. run \in Runs
  BY DEF IInv, TypeOK
<1> DEFINE old == IF run.existing THEN branch ELSE base
           file == combine_reports(old, <<run.report>>)
<1>1. UNCHANGED <<config, live, posts, base, branch, pull, dismissed, receipts, used>> /\ run.pc = "checkout"
  BY DEF Checkout, checkout_report_branch, remote
<1>2. /\ old \in Seq(Reports) /\ run.report \in Reports
      /\ Sorted(old) /\ Upto(old, run.report) /\ run.report \in 0..MaxRuns
  <2>1. /\ base \in Seq(Reports) /\ branch \in Seq(Reports)
        /\ run.report \in 0..MaxRuns
    BY <1>0, RunFields DEF IInv, TypeOK
  <2>2. run.report # 0
    BY <1>1 DEF IInv, Order
  <2>3. run.report \in Reports
    BY <2>1, <2>2, DisclosureAssumption DEF Reports
  <2> QED
    BY <2>1, <2>3 DEF IInv, Order
<1>3. \/ /\ run' \in Runs /\ Same(run', run) /\ run'.file = run.file
         /\ run'.pc = "finish" /\ run'.url = "pull" /\ old = <<run.report>>
      \/ /\ run' \in Runs /\ Same(run', run) /\ run'.file = file
         /\ run'.pc = "push" /\ run'.url = run.url
  <2>1. "finish" \in Pcs /\ "push" \in Pcs /\ "pull" \in Places
    BY DEF Pcs, Steps, Places
  <2>2. file \in Seq(Reports)
    BY <1>2, Combined
  <2>3. CASE old = <<run.report>>
    <3>1. run' = [run EXCEPT !.pc = "finish", !.url = "pull"]
      BY <2>3 DEF Checkout, checkout_report_branch
    <3> QED
      BY <1>0, <2>1, <2>3, <3>1 DEF Runs, Same, Pcs
  <2>4. CASE old # <<run.report>>
    <3>1. run' = [run EXCEPT !.pc = "push", !.file = file]
      BY <2>4 DEF Checkout, checkout_report_branch
    <3> HIDE DEF file
    <3> QED
      BY <1>0, <2>1, <2>2, <3>1 DEF Runs, Same, Pcs
  <2> QED
    BY <2>3, <2>4
<1>4. TypeOK'
  BY <1>1, <1>3 DEF IInv, TypeOK
<1>5. Urls'
  BY <1>1, <1>3 DEF IInv, Urls, Acting, Same
<1>6. Posting'
  BY <1>1, <1>3 DEF IInv, Posting
<1>7. Keeping'
  <2>1. Receipted' = Receipted /\ Settled' = Settled /\ \A r : Kept(r)' <=> Kept(r)
    BY <1>1 DEF Receipted, Settled, Kept
  <2>2. CASE run'.pc = "finish"
    <3>1. old = <<run.report>> /\ run'.report = run.report
      BY <1>3, <2>2 DEF Same
    <3>2. run.report \in In(old)
      BY <3>1 DEF In
    <3>3. run.existing => pull = "open" \/ In(branch) \subseteq Settled
      BY <1>1 DEF IInv, Keeping
    <3>4. Kept(run.report)
      BY <3>2, <3>3 DEF Kept, Settled
    <3> QED
      BY <2>1, <2>2, <3>1, <3>4 DEF IInv, Keeping
  <2>3. CASE run'.pc = "push"
    <3>1. run'.file = file /\ run'.report = run.report
      BY <1>3, <2>3 DEF Same
    <3>2. In(file) = {run.report} \cup In(old)
      BY <1>2, Combined
    <3>3. Receipted \subseteq Settled \cup In(old)
      BY <1>1 DEF IInv, Keeping, Kept, Settled
    <3> HIDE DEF file, old
    <3> QED
      BY <2>1, <2>3, <3>1, <3>2, <3>3 DEF IInv, Keeping
  <2> QED
    BY <1>3, <2>2, <2>3
<1>8. Order'
  <2>1. Sorted(file) /\ Upto(file, run.report)
    BY <1>2, CombinedSorted
  <2> HIDE DEF file, old
  <2> QED
    BY <1>1, <1>3, <2>1 DEF IInv, Order, Same
<1>9. QED
  BY <1>4, <1>5, <1>6, <1>7, <1>8 DEF IInv

LEMMA PushKeeps ==
    ASSUME IInv, Push
    PROVE  IInv'
<1>0. run \in Runs
  BY DEF IInv, TypeOK
<1>1. /\ UNCHANGED <<config, live, posts, base, pull, dismissed, receipts, used>>
      /\ branch' = run.file /\ run.pc = "push"
  BY DEF Push
<1>2. /\ run' \in Runs /\ Same(run', run) /\ run'.file = << >>
      /\ run'.url = run.url /\ run'.pc = "find_again"
  <2>1. "find_again" \in Pcs /\ << >> \in Seq(Reports)
    BY DEF Pcs, Steps
  <2> QED
    BY <1>0, <2>1 DEF Push, Runs, Same, Pcs
<1>3. run.file \in Seq(Reports)
  BY <1>0, RunFields
<1>4. TypeOK'
  BY <1>1, <1>2, <1>3 DEF IInv, TypeOK
<1>5. Urls'
  BY <1>1, <1>2 DEF IInv, Urls, Acting, Same
<1>6. Posting'
  BY <1>1, <1>2 DEF IInv, Posting
<1>7. Keeping'
  <2>1. Receipted \subseteq Settled \cup In(run.file) /\ run.report \in In(run.file)
    BY <1>1 DEF IInv, Keeping
  <2>2. Receipted' = Receipted /\ Settled' = Settled /\ In(branch') = In(run.file)
    BY <1>1 DEF Receipted, Settled
  <2>3. \A r \in Receipted : Kept(r)'
    <3> SUFFICES ASSUME NEW r \in Receipted PROVE Kept(r)'
      OBVIOUS
    <3>1. CASE r \in Settled
      BY <1>1, <3>1 DEF Kept, Settled
    <3>2. CASE r \notin Settled
      <4>1. pull = "open" /\ r \in In(run.file)
        BY <2>1, <3>2 DEF IInv, Keeping, Kept, Settled
      <4> QED
        BY <1>1, <4>1 DEF Kept
    <3> QED
      BY <3>1, <3>2
  <2> QED
    BY <1>2, <2>1, <2>2, <2>3 DEF Keeping, Same
<1>8. Order'
  BY <1>1, <1>2, Empty DEF IInv, Order, Same
<1>9. QED
  BY <1>4, <1>5, <1>6, <1>7, <1>8 DEF IInv

LEMMA FindAgainKeeps ==
    ASSUME IInv, FindAgain
    PROVE  IInv'
<1>0. run \in Runs
  BY DEF IInv, TypeOK
<1>1. UNCHANGED <<config, live, posts, base, branch, pull, dismissed, receipts, used>> /\ run.pc = "find_again"
  BY DEF FindAgain, remote
<1>2. /\ run' \in Runs /\ Same(run', run) /\ run'.file = run.file
      /\ \/ run'.pc = "finish" /\ run'.url = "pull" /\ pull = "open"
         \/ run'.pc = "create" /\ run'.url = run.url
  <2>1. "finish" \in Pcs /\ "create" \in Pcs /\ "pull" \in Places
    BY DEF Pcs, Steps, Places
  <2>2. CASE pull = "open"
    <3>1. run' = [run EXCEPT !.pc = "finish", !.url = "pull"]
      BY <2>2 DEF FindAgain
    <3> QED
      BY <1>0, <2>1, <2>2, <3>1 DEF Runs, Same, Pcs
  <2>3. CASE pull # "open"
    <3>1. run' = [run EXCEPT !.pc = "create"]
      BY <2>3 DEF FindAgain
    <3> QED
      BY <1>0, <2>1, <3>1 DEF Runs, Same, Pcs
  <2> QED
    BY <2>2, <2>3
<1>4. TypeOK'
  BY <1>1, <1>2 DEF IInv, TypeOK
<1>5. Urls'
  BY <1>1, <1>2 DEF IInv, Urls, Acting, Same
<1>6. Posting'
  BY <1>1, <1>2 DEF IInv, Posting
<1>7. Keeping'
  BY <1>1, <1>2 DEF IInv, Keeping, Receipted, Kept, Settled, Same
<1>8. Order'
  BY <1>1, <1>2, OrderStays DEF IInv, Same
<1>9. QED
  BY <1>4, <1>5, <1>6, <1>7, <1>8 DEF IInv

LEMMA CreateKeeps ==
    ASSUME IInv, Create
    PROVE  IInv'
<1>0. run \in Runs
  BY DEF IInv, TypeOK
<1>1. /\ UNCHANGED <<config, live, posts, base, branch, dismissed, receipts>>
      /\ run.pc = "create" /\ pull' = "open" /\ used'.runs = used.runs
      /\ used' \in [runs : 0..MaxRuns, people : 0..MaxPeople, faults : 0..MaxFaults]
  BY UsedCounts DEF Create, IInv, TypeOK
<1>2. /\ run' \in Runs /\ Same(run', run) /\ run'.file = run.file
      /\ run'.pc = "idle" \/ (run'.pc = "finish" /\ run'.url = "pull")
  <2>1. "finish" \in Pcs /\ "idle" \in Pcs /\ "pull" \in Places
    BY DEF Pcs, Steps, Places
  <2>2. CASE run' = [run EXCEPT !.pc = "finish", !.url = "pull"]
    BY <1>0, <2>1, <2>2 DEF Runs, Same, Pcs
  <2>3. CASE run' = [run EXCEPT !.pc = "idle"]
    BY <1>0, <2>1, <2>3 DEF Runs, Same, Pcs
  <2> QED
    BY <2>2, <2>3 DEF Create
<1>4. TypeOK'
  BY <1>1, <1>2 DEF IInv, TypeOK
<1>5. Urls'
  BY <1>1, <1>2 DEF IInv, Urls, Acting, Same
<1>6. Posting'
  BY <1>1, <1>2 DEF IInv, Posting, Urls, Acting
<1>7. Keeping'
  BY <1>1, <1>2 DEF IInv, Keeping, Receipted, Kept, Settled, Same
<1>8. Order'
  BY <1>1, <1>2, OrderStays DEF IInv, Same
<1>9. QED
  BY <1>4, <1>5, <1>6, <1>7, <1>8 DEF IInv

LEMMA FinishKeeps ==
    ASSUME IInv, Finish
    PROVE  IInv'
<1>0. run \in Runs
  BY DEF IInv, TypeOK
<1>1. /\ UNCHANGED <<config, live, posts, base, branch, pull, dismissed, used>>
      /\ run.pc = "finish"
      /\ receipts' = [receipts EXCEPT ![run.head] =
           [status |-> "Published", url |-> run.url, report |-> run.report]]
  BY DEF Finish, remote
<1>2. /\ run' \in Runs /\ Same(run', run) /\ run'.file = run.file /\ run'.pc = "idle"
  <2>1. "idle" \in Pcs
    BY DEF Pcs
  <2> QED
    BY <1>0, <2>1 DEF Finish, Runs, Same, Pcs
<1>3. /\ run.head \in Heads
      /\ receipts' \in [Heads -> [status : {"None", "Publishing", "Published"},
                                 url : Places, report : 0..MaxRuns]]
      /\ receipts'[run.head].status = "Published" /\ receipts'[run.head].url = run.url
      /\ receipts'[run.head].report = run.report
      /\ \A h \in Heads \ {run.head} : receipts'[h] = receipts[h]
  <2>1. run.head \in Heads /\ run.url \in Places /\ run.report \in 0..MaxRuns
    BY <1>0, RunFields
  <2> QED
    BY <1>1, <2>1 DEF IInv, TypeOK
<1>4. TypeOK'
  BY <1>1, <1>2, <1>3 DEF IInv, TypeOK
<1>5. Urls'
  BY <1>2 DEF Urls, Acting
<1>6. Posting'
  BY <1>1, <1>2, <1>3 DEF IInv, Posting
<1>7. Keeping'
  <2>1. \A r : Kept(r)' <=> Kept(r)
    BY <1>1 DEF Kept
  <2>2. \A r \in Receipted' : Kept(r)
    <3> SUFFICES ASSUME NEW h \in Heads, receipts'[h].url = "pull"
                 PROVE  Kept(receipts'[h].report)
      BY DEF Receipted
    <3>1. CASE h = run.head
      BY <1>1, <1>3, <3>1 DEF IInv, Keeping
    <3>2. CASE h # run.head
      BY <1>3, <3>2 DEF IInv, Keeping, Receipted
    <3> QED
      BY <3>1, <3>2
  <2> QED
    BY <1>2, <2>1, <2>2 DEF Keeping
<1>8. Order'
  BY <1>1, <1>2, OrderStays DEF IInv, Same
<1>9. QED
  BY <1>4, <1>5, <1>6, <1>7, <1>8 DEF IInv

LEMMA DiesKeeps ==
    ASSUME IInv, Dies
    PROVE  IInv'
<1>0. run \in Runs
  BY DEF IInv, TypeOK
<1>1. /\ UNCHANGED <<config, live, posts, base, branch, pull, dismissed, receipts>> /\ used'.runs = used.runs
      /\ used' \in [runs : 0..MaxRuns, people : 0..MaxPeople, faults : 0..MaxFaults]
  BY UsedCounts DEF Dies, remote, IInv
<1>2. run' \in Runs /\ Same(run', run) /\ run'.file = << >> /\ run'.pc = "idle"
  <2>1. "idle" \in Pcs /\ << >> \in Seq(Reports)
    BY DEF Pcs
  <2> QED
    BY <1>0, <2>1 DEF Dies, Runs, Same, Pcs
<1>4. TypeOK'
  BY <1>1, <1>2 DEF IInv, TypeOK
<1>5. Urls'
  BY <1>2 DEF Urls, Acting
<1>6. Posting'
  BY <1>1, <1>2 DEF IInv, Posting
<1>7. Keeping'
  BY <1>1, <1>2, KeepingStays DEF IInv, Receipted
<1>8. Order'
  BY <1>1, <1>2, Empty DEF IInv, Order, Same
<1>9. QED
  BY <1>4, <1>5, <1>6, <1>7, <1>8 DEF IInv

LEMMA TurnsKeeps ==
    ASSUME IInv, Turns
    PROVE  IInv'
<1>0. run \in Runs
  BY DEF IInv, TypeOK
<1>1. /\ UNCHANGED <<config, posts, base, branch, pull, dismissed, receipts, run>>
      /\ live' = ~live /\ used'.runs = used.runs
      /\ used' \in [runs : 0..MaxRuns, people : 0..MaxPeople, faults : 0..MaxFaults]
  BY UsedCounts DEF Turns, remote, IInv
<1>4. TypeOK'
  BY <1>0, <1>1 DEF IInv, TypeOK
<1>5. Urls'
  BY <1>1 DEF IInv, Urls
<1>6. Posting'
  BY <1>1 DEF IInv, Posting
<1>7. Keeping'
  BY <1>1 DEF IInv, Keeping, Receipted, Kept, Settled
<1>8. Order'
  BY <1>1, OrderStays DEF IInv
<1>9. QED
  BY <1>4, <1>5, <1>6, <1>7, <1>8 DEF IInv

LEMMA ReopenKeeps ==
    ASSUME IInv, Reopen
    PROVE  IInv'
<1>0. run \in Runs
  BY DEF IInv, TypeOK
<1>1. /\ UNCHANGED <<config, live, posts, base, branch, dismissed, receipts, run>>
      /\ pull = "closed" /\ pull' = "open" /\ used'.runs = used.runs
      /\ used' \in [runs : 0..MaxRuns, people : 0..MaxPeople, faults : 0..MaxFaults]
  BY UsedCounts DEF Reopen, IInv
<1>4. TypeOK'
  BY <1>0, <1>1 DEF IInv, TypeOK
<1>5. Urls'
  BY <1>1 DEF IInv, Urls
<1>6. Posting'
  BY <1>1 DEF IInv, Posting
<1>7. Keeping'
  BY <1>1 DEF IInv, Keeping, Receipted, Kept, Settled
<1>8. Order'
  BY <1>1, OrderStays DEF IInv
<1>9. QED
  BY <1>4, <1>5, <1>6, <1>7, <1>8 DEF IInv

LEMMA MergeKeeps ==
    ASSUME IInv, Merge
    PROVE  IInv'
<1>0. run \in Runs
  BY DEF IInv, TypeOK
<1>1. /\ UNCHANGED <<config, live, posts, branch, dismissed, receipts, run>>
      /\ pull' = "merged" /\ base' = branch /\ used'.runs = used.runs
      /\ used' \in [runs : 0..MaxRuns, people : 0..MaxPeople, faults : 0..MaxFaults]
  BY UsedCounts DEF Merge, IInv
<1>2. In(base) \subseteq In(branch)
  <2>1. PICK n \in 0..Len(branch) : base = SubSeq(branch, n + 1, Len(branch))
    BY DEF Merge
  <2> QED
    BY <2>1, Suffix DEF IInv, TypeOK
<1>3. Settled \subseteq Settled' /\ In(branch) \subseteq Settled'
  BY <1>1, <1>2 DEF Settled
<1>4. TypeOK'
  BY <1>0, <1>1 DEF IInv, TypeOK
<1>5. Urls'
  BY <1>1 DEF IInv, Urls
<1>6. Posting'
  BY <1>1 DEF IInv, Posting
<1>7. Keeping'
  <2>1. Receipted' = Receipted /\ \A r : Kept(r) => Kept(r)'
    BY <1>1, <1>2 DEF Receipted, Kept
  <2> QED
    BY <1>1, <1>3, <2>1 DEF IInv, Keeping
<1>8. Order'
  BY <1>1 DEF IInv, Order
<1>9. QED
  BY <1>4, <1>5, <1>6, <1>7, <1>8 DEF IInv

LEMMA DismissKeeps ==
    ASSUME IInv, Dismiss
    PROVE  IInv'
<1>0. run \in Runs
  BY DEF IInv, TypeOK
<1>1. /\ UNCHANGED <<config, live, posts, base, branch, receipts, run>>
      /\ pull' = "closed" /\ dismissed' = dismissed \cup In(branch) /\ used'.runs = used.runs
      /\ used' \in [runs : 0..MaxRuns, people : 0..MaxPeople, faults : 0..MaxFaults]
  BY UsedCounts DEF Dismiss, IInv
<1>2. In(branch) \subseteq Reports
  BY DEF IInv, TypeOK, In
<1>3. Settled \subseteq Settled' /\ In(branch) \subseteq Settled'
  BY <1>1 DEF Settled
<1>4. TypeOK'
  BY <1>0, <1>1, <1>2 DEF IInv, TypeOK
<1>5. Urls'
  BY <1>1 DEF IInv, Urls
<1>6. Posting'
  BY <1>1 DEF IInv, Posting
<1>7. Keeping'
  <2>1. Receipted' = Receipted /\ \A r : Kept(r) => Kept(r)'
    BY <1>1 DEF Receipted, Kept
  <2> QED
    BY <1>1, <1>3, <2>1 DEF IInv, Keeping
<1>8. Order'
  BY <1>1, OrderStays DEF IInv
<1>9. QED
  BY <1>4, <1>5, <1>6, <1>7, <1>8 DEF IInv

-------------------------------------------------------------------------------
THEOREM Invariance == Spec => []IInv
<1>1. Init => IInv
  <2> SUFFICES ASSUME Init PROVE IInv
    OBVIOUS
  <2>1. TypeOK
    <3>1. run \in Runs
      BY DisclosureAssumption DEF Init, Runs, Heads, Artifacts, Places
    <3> QED
      BY <3>1, DisclosureAssumption DEF Init, TypeOK, Places, Reports
  <2>2. Urls /\ Posting
    BY DEF Init, Urls, Acting, Posting
  <2>3. Keeping
    BY DEF Init, Keeping, Receipted
  <2>4. Order
    BY Empty DEF Init, Order
  <2> QED
    BY <2>1, <2>2, <2>3, <2>4 DEF IInv
<1>2. IInv /\ UNCHANGED vars => IInv'
  <2> SUFFICES ASSUME IInv, UNCHANGED vars PROVE IInv'
    OBVIOUS
  <2>1. TypeOK' /\ Urls' /\ Posting'
    BY DEF IInv, TypeOK, Urls, Posting, vars
  <2>2. Keeping' /\ Order'
    BY OrderStays DEF IInv, Keeping, Receipted, Kept, Settled, vars
  <2> QED
    BY <2>1, <2>2 DEF IInv
<1>3. IInv /\ [Next]_vars => IInv'
  BY <1>2, ReviewEndsKeeps, BeginKeeps, LookKeeps, CheckKeeps, PostKeeps, FindKeeps, CheckoutKeeps, PushKeeps, FindAgainKeeps, CreateKeeps, FinishKeeps, DiesKeeps, TurnsKeeps, MergeKeeps, DismissKeeps, ReopenKeeps
  DEF Next, Finalizing, People
<1>4. QED
  BY <1>1, <1>3, PTL DEF Spec

(* No force push drops a report that a receipt stands for.                 *)
THEOREM ReceiptedReportsStay == Spec => []NothingIsLost
<1>1. IInv => NothingIsLost
  BY DEF IInv, Keeping, Receipted, NothingIsLost
<1>2. QED
  BY <1>1, Invariance, PTL

(* The latest report leads each file.                                      *)
THEOREM FilesAreInOrder == Spec => []NewestFirst
<1>1. IInv => NewestFirst
  BY DEF IInv, Order, Sorted, NewestFirst
<1>2. QED
  BY <1>1, Invariance, PTL

(* A commit is reviewed at most once, and as its receipt says.             *)
THEOREM OneReview == Spec => []OneReviewPerCommit
<1>1. IInv => OneReviewPerCommit
  <2> SUFFICES ASSUME IInv, NEW h \in Heads
               PROVE  posts[h] <= 1 /\ (receipts[h].url = "review" => posts[h] = 1)
    BY DEF OneReviewPerCommit
  <2>1. posts[h] \in Nat
    BY DEF IInv, TypeOK
  <2>2. posts[h] > 0 => posts[h] = 1
    BY DEF IInv, Posting
  <2>3. posts[h] <= 1
    BY <2>1, <2>2
  <2> QED
    BY <2>3 DEF IInv, Posting
<1>2. QED
  BY <1>1, Invariance, PTL
===============================================================================
