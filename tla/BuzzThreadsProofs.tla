-------------------------- MODULE BuzzThreadsProofs --------------------------
(***************************************************************************)
(* Proofs about BuzzThreads: a stored thread is on the relay as recorded,  *)
(* what was delivered is not sent again, and a question that has a receipt *)
(* keeps it and is not answered again; for any findings, questions and     *)
(* channels, and any number of reviews, faults and crashes.                *)
(***************************************************************************)
EXTENDS BuzzThreads, TLAPS

(* The inductive invariant.  A publication continues the stored thread if  *)
(* it is in the channel that is configured, with more than what it holds,  *)
(* and is otherwise under a root of its own; what it claims to have sent   *)
(* is there.  A question that is being answered has no receipt.            *)

Sent(root, keys) == \A f \in keys : posts[root].replies[f] > 0

Continues ==
    /\ pub.root = thread.root /\ thread.keys \subseteq pub.keys

Publishing ==
    pub.busy =>
        /\ pub.left \cap pub.keys = {}
        /\ pub.root = 0 => pub.keys = {}
        /\ pub.root # 0 => posts[pub.root].channel = channel /\ Sent(pub.root, pub.keys)
        /\ Reusable => Continues
        /\ thread # None /\ ~Reusable /\ pub.root # 0 => pub.root # thread.root

Answering ==
    listener.pc \in {"answering", "recording"} =>
        listener.q \in Questions /\ receipt[listener.q] = "none"

Stored == /\ thread # None => posts[thread.root].channel = thread.channel
          /\ thread # None => Sent(thread.root, thread.keys)

IInv == TypeOK /\ Publishing /\ Answering /\ Stored

-----------------------------------------------------------------------------
(* Types, part by part. *)

UsedType == [reviews : 0..MaxReviews, faults : 0..MaxFaults, crashes : 0..MaxCrashes]
Post == [channel : Channels \cup {None}, replies : [Findings -> Nat]]

LEMMA UsedCounts ==
    ASSUME TypeOK
    PROVE  /\ Fault => used' \in UsedType
           /\ used.reviews < MaxReviews /\ used' = [used EXCEPT !.reviews = @ + 1]
                => used' \in UsedType
           /\ used.crashes < MaxCrashes /\ used' = [used EXCEPT !.crashes = @ + 1]
                => used' \in UsedType
<1>1. /\ used.reviews \in 0..MaxReviews /\ used.faults \in 0..MaxFaults
      /\ used.crashes \in 0..MaxCrashes
      /\ used = [reviews |-> used.reviews, faults |-> used.faults, crashes |-> used.crashes]
  BY DEF TypeOK
<1>2. /\ used.reviews < MaxReviews => used.reviews + 1 \in 0..MaxReviews
      /\ used.faults < MaxFaults => used.faults + 1 \in 0..MaxFaults
      /\ used.crashes < MaxCrashes => used.crashes + 1 \in 0..MaxCrashes
  BY <1>1, BuzzAssumption
<1>3. ASSUME Fault PROVE used' \in UsedType
  <2>1. used' = [reviews |-> used.reviews, faults |-> used.faults + 1,
                 crashes |-> used.crashes]
    BY <1>1, <1>3 DEF Fault
  <2>2. used.faults + 1 \in 0..MaxFaults
    BY <1>2, <1>3 DEF Fault
  <2> QED
    BY <1>1, <2>1, <2>2 DEF UsedType
<1>4. ASSUME used.reviews < MaxReviews, used' = [used EXCEPT !.reviews = @ + 1]
      PROVE  used' \in UsedType
  <2>1. used' = [reviews |-> used.reviews + 1, faults |-> used.faults,
                 crashes |-> used.crashes]
    BY <1>1, <1>4
  <2> QED
    BY <1>1, <1>2, <1>4, <2>1 DEF UsedType
<1>5. ASSUME used.crashes < MaxCrashes, used' = [used EXCEPT !.crashes = @ + 1]
      PROVE  used' \in UsedType
  <2>1. used' = [reviews |-> used.reviews, faults |-> used.faults,
                 crashes |-> used.crashes + 1]
    BY <1>1, <1>5
  <2> QED
    BY <1>1, <1>2, <1>5, <2>1 DEF UsedType
<1>6. QED
  BY <1>3, <1>4, <1>5

AddsReply(r, f) == posts' = [posts EXCEPT ![r].replies[f] = @ + 1]

LEMMA ReplyAdded ==
    ASSUME TypeOK, NEW r \in Roots, NEW f \in Findings, AddsReply(r, f)
    PROVE  /\ posts' \in [Roots -> Post]
           /\ \A s \in Roots : posts'[s].channel = posts[s].channel
           /\ \A s \in Roots, g \in Findings :
                posts'[s].replies[g] = IF s = r /\ g = f THEN posts[s].replies[g] + 1
                                                        ELSE posts[s].replies[g]
<1> DEFINE old == posts[r]
           replies == [old.replies EXCEPT ![f] = @ + 1]
           new == [old EXCEPT !.replies = replies]
<1>1. posts \in [Roots -> Post] /\ old \in Post
  BY DEF TypeOK, Post
<1>2. old.replies \in [Findings -> Nat] /\ old.channel \in Channels \cup {None}
  BY <1>1 DEF Post
<1>3. /\ replies \in [Findings -> Nat]
      /\ \A g \in Findings : replies[g] = IF g = f THEN old.replies[g] + 1 ELSE old.replies[g]
  BY <1>2
<1>4. posts' = [posts EXCEPT ![r] = new]
  BY <1>1, <1>2 DEF Post, AddsReply
<1> HIDE DEF replies
<1>5. new \in Post /\ new.channel = old.channel /\ new.replies = replies
  BY <1>1, <1>3 DEF Post
<1> HIDE DEF new
<1>6. posts' \in [Roots -> Post] /\ posts'[r] = new
        /\ \A s \in Roots \ {r} : posts'[s] = posts[s]
  BY <1>1, <1>4, <1>5
<1>7. QED
  BY <1>3, <1>5, <1>6

LEMMA RootAdded ==
    ASSUME TypeOK, NEW r \in Roots, posts' = [posts EXCEPT ![r].channel = channel]
    PROVE  /\ posts' \in [Roots -> Post]
           /\ \A s \in Roots : posts'[s].channel = IF s = r THEN channel ELSE posts[s].channel
           /\ \A s \in Roots, g \in Findings : posts'[s].replies[g] = posts[s].replies[g]
<1> DEFINE old == posts[r]
           new == [old EXCEPT !.channel = channel]
<1>1. posts \in [Roots -> Post] /\ old \in Post /\ channel \in Channels
  BY DEF TypeOK, Post
<1>2. posts' = [posts EXCEPT ![r] = new]
  BY <1>1 DEF Post
<1>3. new \in Post /\ new.channel = channel /\ new.replies = old.replies
  BY <1>1 DEF Post
<1> HIDE DEF new
<1>4. posts' \in [Roots -> Post] /\ posts'[r] = new
        /\ \A s \in Roots \ {r} : posts'[s] = posts[s]
  BY <1>1, <1>2, <1>3
<1>5. QED
  BY <1>3, <1>4

LEMMA PubFields ==
    ASSUME NEW p \in Publication
    PROVE  /\ p.busy \in BOOLEAN /\ p.left \subseteq Findings /\ p.keys \subseteq Findings
           /\ p.root \in 0..MaxReviews /\ (p.root # 0 => p.root \in Roots)
BY BuzzAssumption DEF Publication, Roots

LEMMA ThreadFields ==
    ASSUME TypeOK, thread # None
    PROVE  thread.root \in Roots /\ thread.keys \subseteq Findings /\ thread.channel \in Channels
BY DEF TypeOK, Thread

LEMMA NoneBusy == NoPublication \in Publication /\ NoPublication.busy = FALSE
BY BuzzAssumption DEF NoPublication, Publication

(* A step in which the publication and what it depends on stay.            *)
LEMMA PublishingStays ==
    ASSUME Publishing, Stored, UNCHANGED <<channel, thread, pub, posts>>
    PROVE  Publishing' /\ Stored'
BY DEF Publishing, Stored, Sent, Reusable, Continues

(* A step in which the thread and what it holds stay, and which ends or    *)
(* has ended the publication.                                              *)
LEMMA PublishingEnds ==
    ASSUME TypeOK, Stored, thread' = thread, pub'.busy = FALSE,
           thread # None => posts'[thread.root].channel = posts[thread.root].channel,
           thread # None => \A f \in thread.keys :
               posts'[thread.root].replies[f] >= posts[thread.root].replies[f]
               /\ posts'[thread.root].replies[f] \in Nat
               /\ posts[thread.root].replies[f] \in Nat
    PROVE  Publishing' /\ Stored'
<1>1. Publishing'
  BY DEF Publishing
<1>2. ASSUME thread # None, NEW f \in thread.keys PROVE posts'[thread.root].replies[f] > 0
  <2>1. posts[thread.root].replies[f] > 0
    BY <1>2 DEF Stored, Sent
  <2>2. /\ posts'[thread.root].replies[f] >= posts[thread.root].replies[f]
        /\ posts'[thread.root].replies[f] \in Nat /\ posts[thread.root].replies[f] \in Nat
    BY <1>2
  <2> QED
    BY <2>1, <2>2
<1>3. thread # None => posts'[thread.root].channel = thread.channel
  BY DEF Stored
<1>4. QED
  BY <1>1, <1>2, <1>3 DEF Stored, Sent

-----------------------------------------------------------------------------
(* Steps of the publication. *)

LEMMA PublishStep ==
    ASSUME IInv, NEW found \in SUBSET Findings, Publish(found)
    PROVE  IInv'
<1> DEFINE new == found \ Published
           p == [busy |-> TRUE, left |-> new, keys |-> Published,
                 root |-> IF Reusable THEN thread.root ELSE 0]
<1>1. /\ UNCHANGED <<channel, thread, posts, asked, receipt, cursor, listener, answers>>
      /\ pub' = pub \/ pub' = p
      /\ used' \in UsedType
  BY UsedCounts DEF Publish, askVars, IInv
<1>2. Published \subseteq Findings /\ (Reusable => thread.root \in Roots /\ thread.root # 0)
  BY ThreadFields DEF Published, Reusable, IInv, Roots
<1>3. p \in Publication
  BY <1>2, BuzzAssumption DEF Publication, Roots
<1>4. TypeOK'
  BY <1>1, <1>3 DEF IInv, TypeOK, UsedType
<1>5. Publishing' /\ Stored'
  <2>1. CASE pub' = pub
    BY <1>1, <2>1, PublishingStays DEF IInv
  <2>2. CASE pub' = p
    <3>1. /\ pub'.left = new /\ pub'.keys = Published
          /\ pub'.root = IF Reusable THEN thread.root ELSE 0
      BY <2>2
    <3>2. Reusable => /\ posts[thread.root].channel = channel
                      /\ Sent(thread.root, Published) /\ Published = thread.keys
      BY DEF IInv, Stored, Reusable, Published
    <3>3. ~Reusable => Published = {}
      BY DEF Published
    <3> HIDE DEF p
    <3>4. Publishing'
      BY <1>1, <1>2, <3>1, <3>2, <3>3 DEF Publishing, Sent, Reusable, Continues
    <3> QED
      BY <1>1, <3>4 DEF IInv, Stored, Sent
  <2> QED
    BY <1>1, <2>1, <2>2
<1>6. Answering'
  BY <1>1 DEF IInv, Answering
<1>7. QED
  BY <1>4, <1>5, <1>6 DEF IInv

LEMMA PostRootStep ==
    ASSUME IInv, PostRoot
    PROVE  IInv'
<1>1. PICK r \in Roots : /\ ~Live(r) /\ posts' = [posts EXCEPT ![r].channel = channel]
                         /\ pub' = [pub EXCEPT !.root = r]
  BY DEF PostRoot, AddRoot
<1>2. /\ UNCHANGED <<channel, thread, asked, receipt, cursor, listener, answers, used>>
      /\ pub.busy /\ pub.root = 0 /\ pub \in Publication
  BY DEF PostRoot, askVars, IInv, TypeOK
<1>3. /\ pub' \in Publication /\ pub'.busy = pub.busy /\ pub'.left = pub.left
      /\ pub'.keys = pub.keys /\ pub'.root = r
  <2>1. r \in 0..MaxReviews
    BY <1>1, BuzzAssumption DEF Roots
  <2>2. pub' = [pub EXCEPT !.root = r]
    BY <1>1
  <2> DEFINE I == 0..MaxReviews
  <2>3. pub \in [busy : BOOLEAN, left : SUBSET Findings, root : I, keys : SUBSET Findings]
    BY <1>2 DEF Publication
  <2>4. pub' \in [busy : BOOLEAN, left : SUBSET Findings, root : I, keys : SUBSET Findings]
    <3>1. r \in I
      BY <2>1
    <3> HIDE DEF I
    <3> QED
      BY <2>2, <2>3, <3>1
  <2>5. pub' \in Publication
    BY <2>4 DEF Publication
  <2>6. /\ pub'.busy = pub.busy /\ pub'.left = pub.left
        /\ pub'.keys = pub.keys /\ pub'.root = r
    <3> HIDE DEF I
    <3> QED
      BY <2>2, <2>3
  <2> QED
    BY <2>5, <2>6
<1>4. /\ posts' \in [Roots -> Post]
      /\ \A s \in Roots : posts'[s].channel = IF s = r THEN channel ELSE posts[s].channel
      /\ \A s \in Roots, g \in Findings : posts'[s].replies[g] = posts[s].replies[g]
  BY <1>1, RootAdded DEF IInv
<1>5. TypeOK'
  BY <1>2, <1>3, <1>4 DEF IInv, TypeOK, Post
<1>6. thread # None => thread.root \in Roots /\ thread.root # r /\ thread.keys \subseteq Findings
  <2>1. thread # None => Live(thread.root) /\ thread.root \in Roots /\ thread.keys \subseteq Findings
    BY ThreadFields, BuzzAssumption DEF IInv, Stored, Live
  <2> QED
    BY <1>1, <2>1
<1>7. pub.keys = {} /\ ~Reusable
  <2>1. Reusable => pub.root = thread.root /\ thread.root # 0
    BY <1>2, ThreadFields DEF IInv, Publishing, Continues, Reusable, Roots
  <2> QED
    BY <1>2, <2>1 DEF IInv, Publishing
<1>8. Publishing'
  BY <1>2, <1>3, <1>4, <1>6, <1>7 DEF IInv, Publishing, Sent, Reusable
<1>9. Stored'
  BY <1>2, <1>4, <1>6 DEF IInv, Stored, Sent
<1>10. QED
  BY <1>2, <1>5, <1>8, <1>9 DEF IInv, Answering

(* What a reply that is sent adds to. *)
LEMMA ReplySent ==
    ASSUME IInv, pub.busy, pub.root # 0, NEW f \in pub.left,
           posts' = [posts EXCEPT ![pub.root].replies[f] = @ + 1]
    PROVE  /\ posts' \in [Roots -> Post]
           /\ \A s \in Roots : posts'[s].channel = posts[s].channel
           /\ \A s \in Roots, g \in Findings :
                /\ posts'[s].replies[g] \in Nat /\ posts[s].replies[g] \in Nat
                /\ posts'[s].replies[g] >= posts[s].replies[g]
           /\ posts'[pub.root].replies[f] > 0
           /\ thread # None => \A g \in thread.keys :
                posts'[thread.root].replies[g] = posts[thread.root].replies[g]
<1>1. pub.root \in Roots /\ f \in Findings
  BY PubFields DEF IInv, TypeOK
<1>2. /\ posts' \in [Roots -> Post]
      /\ \A s \in Roots : posts'[s].channel = posts[s].channel
      /\ \A s \in Roots, g \in Findings :
           posts'[s].replies[g] = IF s = pub.root /\ g = f THEN posts[s].replies[g] + 1
                                                          ELSE posts[s].replies[g]
  <2>1. AddsReply(pub.root, f)
    BY DEF AddsReply
  <2> QED
    BY <1>1, <2>1, ReplyAdded DEF IInv
<1>3. \A s \in Roots, g \in Findings : posts[s].replies[g] \in Nat
  BY DEF IInv, TypeOK
<1>4. \A s \in Roots, g \in Findings :
        /\ posts'[s].replies[g] \in Nat /\ posts[s].replies[g] \in Nat
        /\ posts'[s].replies[g] >= posts[s].replies[g]
  BY <1>2, <1>3
<1>5. posts'[pub.root].replies[f] > 0
  BY <1>1, <1>2, <1>3
<1>6. ASSUME thread # None, NEW g \in thread.keys
      PROVE  posts'[thread.root].replies[g] = posts[thread.root].replies[g]
  <2>1. thread.root \in Roots /\ g \in Findings
    BY <1>6, ThreadFields DEF IInv
  <2>2. ~(thread.root = pub.root /\ g = f)
    BY <1>6 DEF IInv, Publishing, Continues
  <2> QED
    BY <1>2, <2>1, <2>2
<1>7. QED
  BY <1>2, <1>4, <1>5, <1>6

LEMMA PostFindingStep ==
    ASSUME IInv, NEW f \in Findings, PostFinding(f)
    PROVE  IInv'
<1>1. /\ UNCHANGED <<channel, thread, asked, receipt, cursor, listener, answers, used>>
      /\ pub.busy /\ pub.root # 0 /\ f \in pub.left /\ pub \in Publication
      /\ posts' = [posts EXCEPT ![pub.root].replies[f] = @ + 1]
      /\ pub' = [pub EXCEPT !.left = @ \ {f}, !.keys = @ \cup {f}]
  BY DEF PostFinding, askVars, IInv, TypeOK
<1>2. /\ pub' \in Publication /\ pub'.busy = pub.busy /\ pub'.root = pub.root
      /\ pub'.left = pub.left \ {f} /\ pub'.keys = pub.keys \cup {f}
  BY <1>1 DEF Publication
<1>3. /\ posts' \in [Roots -> Post]
      /\ \A s \in Roots : posts'[s].channel = posts[s].channel
      /\ \A s \in Roots, g \in Findings :
           /\ posts'[s].replies[g] \in Nat /\ posts[s].replies[g] \in Nat
           /\ posts'[s].replies[g] >= posts[s].replies[g]
      /\ posts'[pub.root].replies[f] > 0
      /\ thread # None => \A g \in thread.keys :
           posts'[thread.root].replies[g] = posts[thread.root].replies[g]
  BY <1>1, ReplySent
<1>4. TypeOK'
  BY <1>1, <1>2, <1>3 DEF IInv, TypeOK, Post
<1>5. pub.root \in Roots /\ pub.keys \subseteq Findings
  BY <1>1, PubFields
<1>6. \A g \in pub'.keys : posts'[pub.root].replies[g] > 0
  <2> SUFFICES ASSUME NEW g \in pub.keys, g # f PROVE posts'[pub.root].replies[g] > 0
    BY <1>2, <1>3
  <2>1. posts[pub.root].replies[g] > 0
    BY <1>1 DEF IInv, Publishing, Sent
  <2>2. /\ posts'[pub.root].replies[g] \in Nat /\ posts[pub.root].replies[g] \in Nat
        /\ posts'[pub.root].replies[g] >= posts[pub.root].replies[g]
    BY <1>3, <1>5
  <2> QED
    BY <2>1, <2>2
<1>7. Publishing'
  BY <1>1, <1>2, <1>3, <1>5, <1>6 DEF IInv, Publishing, Sent, Reusable, Continues
<1>8. Stored'
  BY <1>1, <1>3, ThreadFields DEF IInv, Stored, Sent
<1>9. QED
  BY <1>1, <1>4, <1>7, <1>8 DEF IInv, Answering

LEMMA PostFailsStep ==
    ASSUME IInv, PostFails
    PROVE  IInv'
<1>1. /\ UNCHANGED <<channel, thread, asked, receipt, cursor, listener, answers>>
      /\ pub.busy /\ pub' = NoPublication /\ used' \in UsedType
  BY UsedCounts DEF PostFails, askVars, IInv
<1>2. pub' \in Publication /\ pub'.busy = FALSE
  BY <1>1, NoneBusy
<1>3. \/ posts' = posts
      \/ \E r \in Roots : ~Live(r) /\ posts' = [posts EXCEPT ![r].channel = channel]
      \/ /\ pub.root # 0
         /\ \E f \in pub.left : posts' = [posts EXCEPT ![pub.root].replies[f] = @ + 1]
  BY DEF PostFails
<1>4. \A s \in Roots, g \in Findings : posts[s].replies[g] \in Nat
  BY DEF IInv, TypeOK
<1>5. /\ posts' \in [Roots -> Post]
      /\ \A s \in Roots : Live(s) => posts'[s].channel = posts[s].channel
      /\ \A s \in Roots, g \in Findings :
           /\ posts'[s].replies[g] \in Nat /\ posts[s].replies[g] \in Nat
           /\ posts'[s].replies[g] >= posts[s].replies[g]
  <2>1. CASE posts' = posts
    BY <1>4, <2>1 DEF IInv, TypeOK, Post
  <2>2. ASSUME NEW r \in Roots, ~Live(r), posts' = [posts EXCEPT ![r].channel = channel]
        PROVE  /\ posts' \in [Roots -> Post]
               /\ \A s \in Roots : Live(s) => posts'[s].channel = posts[s].channel
               /\ \A s \in Roots, g \in Findings :
                    posts'[s].replies[g] = posts[s].replies[g]
    BY <2>2, RootAdded DEF IInv
  <2>3. ASSUME NEW f \in pub.left, pub.root # 0,
               posts' = [posts EXCEPT ![pub.root].replies[f] = @ + 1]
        PROVE  /\ posts' \in [Roots -> Post]
               /\ \A s \in Roots : posts'[s].channel = posts[s].channel
               /\ \A s \in Roots, g \in Findings :
                    /\ posts'[s].replies[g] \in Nat /\ posts[s].replies[g] \in Nat
                    /\ posts'[s].replies[g] >= posts[s].replies[g]
    BY <1>1, <2>3, ReplySent
  <2>4. CASE \E r \in Roots : ~Live(r) /\ posts' = [posts EXCEPT ![r].channel = channel]
    <3>1. /\ posts' \in [Roots -> Post]
          /\ \A s \in Roots : Live(s) => posts'[s].channel = posts[s].channel
          /\ \A s \in Roots, g \in Findings : posts'[s].replies[g] = posts[s].replies[g]
      BY <2>2, <2>4
    <3> QED
      BY <1>4, <3>1
  <2> QED
    BY <1>3, <2>1, <2>3, <2>4
<1>6. TypeOK'
  BY <1>1, <1>2, <1>5 DEF IInv, TypeOK, UsedType, Post
<1>7. thread # None => thread.root \in Roots /\ Live(thread.root) /\ thread.keys \subseteq Findings
  BY ThreadFields, BuzzAssumption DEF IInv, Stored, Live
<1>8. Publishing' /\ Stored'
  <2>1. thread # None => posts'[thread.root].channel = posts[thread.root].channel
    BY <1>5, <1>7
  <2>2. thread # None => \A f \in thread.keys :
          /\ posts'[thread.root].replies[f] >= posts[thread.root].replies[f]
          /\ posts'[thread.root].replies[f] \in Nat /\ posts[thread.root].replies[f] \in Nat
    BY <1>5, <1>7
  <2> QED
    BY <1>1, <1>2, <2>1, <2>2, PublishingEnds DEF IInv
<1>9. QED
  BY <1>1, <1>6, <1>8 DEF IInv, Answering

LEMMA MarkReviewedStep ==
    ASSUME IInv, MarkReviewed
    PROVE  IInv'
<1>1. /\ UNCHANGED <<channel, posts, asked, receipt, cursor, listener, answers, used>>
      /\ pub.busy /\ pub.root # 0 /\ pub' = NoPublication
      /\ thread' = [root |-> pub.root, channel |-> channel, keys |-> pub.keys]
  BY DEF MarkReviewed, askVars
<1>2. pub' \in Publication /\ pub'.busy = FALSE
  BY <1>1, NoneBusy
<1>3. pub.root \in Roots /\ pub.keys \subseteq Findings /\ channel \in Channels
  BY <1>1, PubFields DEF IInv, TypeOK
<1>4. thread' \in Thread
  BY <1>1, <1>3 DEF Thread
<1>5. TypeOK'
  BY <1>1, <1>2, <1>4 DEF IInv, TypeOK
<1>6. thread'.root = pub.root /\ thread'.channel = channel /\ thread'.keys = pub.keys
  BY <1>1
<1>7. Publishing' /\ Stored'
  BY <1>1, <1>2, <1>6 DEF IInv, Publishing, Stored, Sent
<1>8. QED
  BY <1>1, <1>5, <1>7 DEF IInv, Answering

LEMMA CrashStep ==
    ASSUME IInv, Crash
    PROVE  IInv'
<1>1. /\ UNCHANGED <<thread, posts, asked, receipt, cursor, answers>>
      /\ pub' = NoPublication /\ listener' = Down /\ channel' \in Channels
      /\ used' \in UsedType
  BY UsedCounts DEF Crash, IInv
<1>2. pub' \in Publication /\ pub'.busy = FALSE
  BY <1>1, NoneBusy
<1>3. Down \in Listener /\ Down.pc = "down"
  BY BuzzAssumption DEF Down, Listener
<1>4. TypeOK'
  BY <1>1, <1>2, <1>3 DEF IInv, TypeOK, UsedType
<1>5. QED
  BY <1>1, <1>2, <1>3, <1>4 DEF IInv, Publishing, Stored, Sent, Answering

-----------------------------------------------------------------------------
(* Steps of the listener. *)

(* What a step of the listener must show. *)
LEMMA ListenerStep ==
    ASSUME IInv, UNCHANGED <<channel, thread, pub, posts>>,
           listener' \in Listener, used' \in UsedType,
           asked' \in [Questions -> [time : 0..MaxTime, root : 0..MaxReviews]],
           receipt' \in [Questions -> {"none", "ignored", "answered"}],
           cursor' \in Times, answers' \in [Questions -> Nat], Answering'
    PROVE  IInv'
<1>1. TypeOK'
  BY DEF IInv, TypeOK, UsedType
<1>2. Publishing' /\ Stored'
  BY PublishingStays DEF IInv
<1>3. QED
  BY <1>1, <1>2 DEF IInv

LEMMA ListenerFields ==
    ASSUME NEW l \in Listener
    PROVE  /\ l.pc \in {"down", "live", "answering", "recording"} /\ l.since \in 0..MaxTime
           /\ l.inbox \subseteq Questions /\ l.q \in Questions \cup {None}
BY DEF Listener

LEMMA InboxMoves ==
    ASSUME NEW l \in Listener, NEW i \in SUBSET Questions
    PROVE  [l EXCEPT !.inbox = i] \in Listener
BY DEF Listener

LEMMA DownType == Down \in Listener /\ Down.pc = "down"
BY BuzzAssumption DEF Down, Listener

LEMMA CursorMoves ==
    ASSUME TypeOK, NEW q \in Questions
    PROVE  MaxTimeOf(cursor, asked[q].time) \in Times
<1>1. asked[q].time \in 0..MaxTime /\ cursor \in 1..MaxTime
  BY DEF TypeOK, Times
<1>2. cursor < asked[q].time => asked[q].time \in 1..MaxTime
  BY <1>1, BuzzAssumption
<1>3. QED
  BY <1>1, <1>2 DEF MaxTimeOf, Times

LEMMA AskStep ==
    ASSUME IInv, NEW q \in Questions, Ask(q)
    PROVE  IInv'
<1> DEFINE Q == [time : 0..MaxTime, root : 0..MaxReviews]
<1>1. PICK t \in Times, r \in {0} \cup {s \in Roots : Live(s)} :
        /\ asked' = [asked EXCEPT ![q] = [time |-> t, root |-> r]]
        /\ listener' = IF listener.pc # "down" /\ t > listener.since
                       THEN [listener EXCEPT !.inbox = @ \cup {q}] ELSE listener
  BY DEF Ask
<1>2. UNCHANGED <<channel, thread, pub, posts, receipt, cursor, answers, used>>
  BY DEF Ask, pubVars
<1>3. t \in 0..MaxTime /\ r \in 0..MaxReviews
  BY <1>1, BuzzAssumption DEF Times, Roots
<1>4. [time |-> t, root |-> r] \in Q
  BY <1>3
<1>5. asked \in [Questions -> Q] /\ listener \in Listener
  BY DEF IInv, TypeOK
<1> HIDE DEF Q
<1>6. asked' \in [Questions -> Q]
  BY <1>1, <1>4, <1>5
<1>7. listener' \in Listener /\ listener'.pc = listener.pc /\ listener'.q = listener.q
  <2>1. [listener EXCEPT !.inbox = @ \cup {q}] \in Listener
    BY <1>5, ListenerFields, InboxMoves
  <2> QED
    BY <1>1, <1>5, <2>1 DEF Listener
<1>8. Answering'
  BY <1>2, <1>7 DEF IInv, Answering
<1>9. QED
  BY <1>2, <1>6, <1>7, <1>8, ListenerStep DEF IInv, TypeOK, UsedType, Q

LEMMA SubscribeStep ==
    ASSUME IInv, Subscribe
    PROVE  IInv'
<1>1. UNCHANGED <<channel, thread, pub, posts, asked, receipt, cursor, answers, used>>
  BY DEF Subscribe, pubVars
<1>2. PICK i \in SUBSET Questions :
        listener' = [pc |-> "live", since |-> Since, q |-> None, inbox |-> i]
  BY DEF Subscribe
<1>3. Since \in 0..MaxTime
  BY BuzzAssumption DEF IInv, TypeOK, Since, Times
<1>4. listener' \in Listener /\ listener'.pc = "live"
  BY <1>2, <1>3 DEF Listener
<1>5. QED
  BY <1>1, <1>4, ListenerStep DEF IInv, TypeOK, UsedType, Answering

LEMMA DisconnectStep ==
    ASSUME IInv, Disconnect
    PROVE  IInv'
<1>1. /\ UNCHANGED <<channel, thread, pub, posts, asked, receipt, cursor, answers>>
      /\ listener' = Down /\ used' \in UsedType
  BY UsedCounts DEF Disconnect, pubVars, IInv
<1>2. QED
  BY <1>1, DownType, ListenerStep DEF IInv, TypeOK, Answering

LEMMA SkipStep ==
    ASSUME IInv, NEW q \in Questions, Skip(q)
    PROVE  IInv'
<1>1. /\ UNCHANGED <<channel, thread, pub, posts, asked, receipt, cursor, answers, used>>
      /\ listener.pc = "live" /\ listener' = [listener EXCEPT !.inbox = @ \ {q}]
  BY DEF Skip, pubVars
<1>2. listener \in Listener
  BY DEF IInv, TypeOK
<1>3. listener' \in Listener
  BY <1>1, <1>2, ListenerFields, InboxMoves
<1>4. listener'.pc = "live"
  BY <1>1, <1>2 DEF Listener
<1>5. QED
  BY <1>1, <1>3, <1>4, ListenerStep DEF IInv, TypeOK, UsedType, Answering

LEMMA IgnoreStep ==
    ASSUME IInv, NEW q \in Questions, Ignore(q)
    PROVE  IInv'
<1>1. /\ UNCHANGED <<channel, thread, pub, posts, asked, answers, used>>
      /\ listener.pc = "live" /\ listener' = [listener EXCEPT !.inbox = @ \ {q}]
      /\ receipt' = [receipt EXCEPT ![q] = "ignored"]
      /\ cursor' = MaxTimeOf(cursor, asked[q].time)
  BY DEF Ignore, pubVars, RecordQuestion
<1>2. listener \in Listener /\ receipt \in [Questions -> {"none", "ignored", "answered"}]
  BY DEF IInv, TypeOK
<1>3. listener' \in Listener
  BY <1>1, <1>2, ListenerFields, InboxMoves
<1>4. listener'.pc = "live"
  BY <1>1, <1>2 DEF Listener
<1>5. receipt' \in [Questions -> {"none", "ignored", "answered"}]
  BY <1>1, <1>2
<1>6. cursor' \in Times
  BY <1>1, CursorMoves DEF IInv
<1>7. QED
  BY <1>1, <1>3, <1>4, <1>5, <1>6, ListenerStep DEF IInv, TypeOK, UsedType, Answering

LEMMA AnswerStep ==
    ASSUME IInv, NEW q \in Questions, Answer(q)
    PROVE  IInv'
<1>1. /\ UNCHANGED <<channel, thread, pub, posts, asked, receipt, cursor, answers, used>>
      /\ listener' = [listener EXCEPT !.pc = "answering", !.q = q, !.inbox = @ \ {q}]
      /\ receipt[q] = "none"
  BY DEF Answer, pubVars, Seen
<1>2. listener \in Listener
  BY DEF IInv, TypeOK
<1>3. listener' \in Listener /\ listener'.q = q
  BY <1>1, <1>2 DEF Listener
<1>4. Answering'
  BY <1>1, <1>3 DEF Answering
<1>5. QED
  BY <1>1, <1>3, <1>4, ListenerStep DEF IInv, TypeOK, UsedType

LEMMA AnswersGrow ==
    ASSUME IInv, listener.pc \in {"answering", "recording"},
           answers' = [answers EXCEPT ![listener.q] = @ + 1]
    PROVE  answers' \in [Questions -> Nat]
<1>1. answers \in [Questions -> Nat] /\ listener.q \in Questions
  BY DEF IInv, TypeOK, Answering
<1>2. QED
  BY <1>1

LEMMA SendReplyStep ==
    ASSUME IInv, SendReply
    PROVE  IInv'
<1>1. /\ UNCHANGED <<channel, thread, pub, posts, asked, receipt, cursor, used>>
      /\ listener.pc = "answering"
      /\ listener' = [listener EXCEPT !.pc = "recording"]
      /\ answers' = [answers EXCEPT ![listener.q] = @ + 1]
  BY DEF SendReply, pubVars
<1>2. listener \in Listener
  BY DEF IInv, TypeOK
<1>3. listener' \in Listener /\ listener'.q = listener.q
  BY <1>1, <1>2 DEF Listener
<1>4. answers' \in [Questions -> Nat]
  BY <1>1, AnswersGrow
<1>5. Answering'
  BY <1>1, <1>3 DEF IInv, Answering
<1>6. QED
  BY <1>1, <1>3, <1>4, <1>5, ListenerStep DEF IInv, TypeOK, UsedType

LEMMA HandlingFailsStep ==
    ASSUME IInv, HandlingFails
    PROVE  IInv'
<1>1. /\ UNCHANGED <<channel, thread, pub, posts, asked, receipt, cursor>>
      /\ listener.pc \in {"answering", "recording"}
      /\ listener' = Down /\ used' \in UsedType
  BY UsedCounts DEF HandlingFails, pubVars, IInv
<1>2. answers' = answers \/ answers' = [answers EXCEPT ![listener.q] = @ + 1]
  BY DEF HandlingFails
<1>3. answers' \in [Questions -> Nat]
  BY <1>1, <1>2, AnswersGrow DEF IInv, TypeOK
<1>4. QED
  BY <1>1, <1>3, DownType, ListenerStep DEF IInv, TypeOK, Answering

LEMMA RecordAnswerStep ==
    ASSUME IInv, RecordAnswer
    PROVE  IInv'
<1>1. /\ UNCHANGED <<channel, thread, pub, posts, asked, answers, used>>
      /\ listener.pc = "recording"
      /\ listener' = [listener EXCEPT !.pc = "live", !.q = None]
      /\ receipt' = [receipt EXCEPT ![listener.q] = "answered"]
      /\ cursor' = MaxTimeOf(cursor, asked[listener.q].time)
  BY DEF RecordAnswer, pubVars, RecordQuestion
<1>2. /\ listener \in Listener /\ receipt \in [Questions -> {"none", "ignored", "answered"}]
      /\ listener.q \in Questions
  BY <1>1 DEF IInv, TypeOK, Answering
<1>3. listener' \in Listener /\ listener'.pc = "live"
  BY <1>1, <1>2 DEF Listener
<1>4. receipt' \in [Questions -> {"none", "ignored", "answered"}]
  BY <1>1, <1>2
<1>5. cursor' \in Times
  BY <1>1, <1>2, CursorMoves DEF IInv
<1>6. QED
  BY <1>1, <1>3, <1>4, <1>5, ListenerStep DEF IInv, TypeOK, UsedType, Answering

-----------------------------------------------------------------------------
LEMMA InitIInv == Init => IInv
<1> SUFFICES ASSUME Init PROVE IInv
  OBVIOUS
<1>1. NoPublication \in Publication /\ NoPublication.busy = FALSE
  BY NoneBusy
<1>2. Down \in Listener /\ Down.pc = "down"
  BY DownType
<1>3. channel \in Channels
  BY BuzzAssumption DEF Init
<1>4. posts \in [Roots -> Post]
  BY DEF Init, Post
<1>5. /\ asked \in [Questions -> [time : 0..MaxTime, root : 0..MaxReviews]]
      /\ receipt \in [Questions -> {"none", "ignored", "answered"}]
      /\ cursor \in Times /\ answers \in [Questions -> Nat]
      /\ used \in UsedType
  BY BuzzAssumption DEF Init, UsedType, Times
<1>6. TypeOK
  BY <1>1, <1>2, <1>3, <1>4, <1>5 DEF Init, TypeOK, Post, UsedType
<1>7. QED
  BY <1>1, <1>2, <1>6 DEF Init, IInv, Publishing, Answering, Stored

LEMMA StutterStep == IInv /\ UNCHANGED vars => IInv'
<1> SUFFICES ASSUME IInv, UNCHANGED vars PROVE IInv'
  OBVIOUS
<1>1. UNCHANGED <<channel, thread, pub, posts, asked, receipt, cursor, listener, answers, used>>
  BY DEF vars, pubVars, askVars
<1>2. QED
  BY <1>1, ListenerStep DEF IInv, TypeOK, UsedType, Answering

(* The invariant holds in every state: no crash, lost answer or replay     *)
(* breaks it (publish_review_thread and run_question_listener, buzz.rs).   *)
THEOREM Invariance == Spec => []IInv
<1>1. IInv /\ [Next]_vars => IInv'
  <2> SUFFICES ASSUME IInv, [Next]_vars PROVE IInv'
    OBVIOUS
  <2>1. CASE \E found \in SUBSET Findings : Publish(found)
    BY <2>1, PublishStep
  <2>2. CASE PostRoot
    BY <2>2, PostRootStep
  <2>3. CASE PostFails
    BY <2>3, PostFailsStep
  <2>4. CASE MarkReviewed
    BY <2>4, MarkReviewedStep
  <2>5. CASE \E f \in Findings : PostFinding(f)
    BY <2>5, PostFindingStep
  <2>6. CASE \E q \in Questions : Ask(q)
    BY <2>6, AskStep
  <2>7. CASE Listen
    BY <2>7, SubscribeStep, SendReplyStep, RecordAnswerStep, SkipStep, IgnoreStep,
       AnswerStep DEF Listen
  <2>8. CASE Disconnect
    BY <2>8, DisconnectStep
  <2>9. CASE HandlingFails
    BY <2>9, HandlingFailsStep
  <2>10. CASE Crash
    BY <2>10, CrashStep
  <2>11. CASE UNCHANGED vars
    BY <2>11, StutterStep
  <2> QED
    BY <2>1, <2>2, <2>3, <2>4, <2>5, <2>6, <2>7, <2>8, <2>9, <2>10, <2>11 DEF Next
<1>2. QED
  BY InitIInv, <1>1, PTL DEF Spec

(* A thread that is stored with a review is on the relay with all it is    *)
(* said to hold: a broken publication never makes a finding look delivered *)
(* (finalizer.rs:143).                                                     *)
THEOREM Delivered == Spec => []ThreadIsAsRecorded
<1>1. IInv => ThreadIsAsRecorded
  BY DEF IInv, Stored, Sent, ThreadIsAsRecorded
<1>2. QED
  BY Invariance, <1>1, PTL

(* What a step may do to a stored thread: the publications that continue   *)
(* it send only what it does not hold.                                     *)
ThreadStays ==
    thread # None =>
        /\ \A f \in thread.keys :
             posts'[thread.root].replies[f] = posts[thread.root].replies[f]
        /\ thread' = thread \/ thread'.channel # thread.channel
           \/ (thread'.root = thread.root /\ thread.keys \subseteq thread'.keys)

LEMMA ThreadStep ==
    ASSUME IInv, [Next]_vars
    PROVE  ThreadStays
<1>1. CASE UNCHANGED <<thread, posts>>
  BY <1>1 DEF ThreadStays
<1>2. CASE PostRoot
  <2>1. thread' = thread
    BY <1>2 DEF PostRoot
  <2>2. PICK r \in Roots : posts' = [posts EXCEPT ![r].channel = channel]
    BY <1>2 DEF PostRoot, AddRoot
  <2>3. \A s \in Roots, g \in Findings : posts'[s].replies[g] = posts[s].replies[g]
    BY <2>2, RootAdded DEF IInv
  <2> QED
    BY <2>1, <2>3, ThreadFields DEF ThreadStays, IInv
<1>3. CASE PostFails
  <2>1. thread' = thread /\ pub.busy
    BY <1>3 DEF PostFails
  <2>2. ASSUME NEW r \in Roots, posts' = [posts EXCEPT ![r].channel = channel]
        PROVE  ThreadStays
    <3>1. \A s \in Roots, g \in Findings : posts'[s].replies[g] = posts[s].replies[g]
      BY <2>2, RootAdded DEF IInv
    <3> QED
      BY <2>1, <3>1, ThreadFields DEF ThreadStays, IInv
  <2>3. ASSUME NEW f \in pub.left, pub.root # 0,
               posts' = [posts EXCEPT ![pub.root].replies[f] = @ + 1]
        PROVE  ThreadStays
    BY <2>1, <2>3, ReplySent DEF ThreadStays
  <2>4. \/ posts' = posts
        \/ \E r \in Roots : posts' = [posts EXCEPT ![r].channel = channel]
        \/ /\ pub.root # 0
           /\ \E f \in pub.left : posts' = [posts EXCEPT ![pub.root].replies[f] = @ + 1]
    BY <1>3 DEF PostFails
  <2> QED
    BY <1>1, <2>1, <2>2, <2>3, <2>4
<1>4. CASE MarkReviewed
  <2>1. /\ posts' = posts /\ pub.busy
        /\ thread'.root = pub.root /\ thread'.channel = channel /\ thread'.keys = pub.keys
    BY <1>4 DEF MarkReviewed, askVars
  <2>2. thread # None /\ thread.channel = channel =>
          pub.root = thread.root /\ thread.keys \subseteq pub.keys
    BY <2>1 DEF IInv, Publishing, Continues, Reusable
  <2> QED
    BY <2>1, <2>2 DEF ThreadStays
<1>5. ASSUME NEW f \in Findings, PostFinding(f) PROVE ThreadStays
  <2>1. /\ thread' = thread /\ pub.busy /\ pub.root # 0 /\ f \in pub.left
        /\ posts' = [posts EXCEPT ![pub.root].replies[f] = @ + 1]
    BY <1>5 DEF PostFinding
  <2> QED
    BY <2>1, ReplySent DEF ThreadStays
<1>6. \/ UNCHANGED <<thread, posts>> \/ PostRoot \/ PostFails \/ MarkReviewed
      \/ \E f \in Findings : PostFinding(f)
  BY DEF Next, Listen, Publish, Ask, Subscribe, SendReply, RecordAnswer, Skip, Ignore,
     Answer, Disconnect, HandlingFails, Crash, vars, pubVars
<1>7. QED
  BY <1>1, <1>2, <1>3, <1>4, <1>5, <1>6

(* What is stored as delivered is not sent to its thread again, and only   *)
(* another channel makes the daemon give a thread up (README.md:470).      *)
THEOREM NotRepeated == Spec => DeliveredIsNotRepeated
<1>1. IInv /\ [Next]_vars => [ThreadStays]_vars
  BY ThreadStep
<1>2. QED
  BY Invariance, <1>1, PTL DEF Spec, DeliveredIsNotRepeated, ThreadStays

(* What a step may do to a question that has its receipt.                  *)
ReceiptsStay ==
    \A q \in Questions :
        receipt[q] # "none" => answers'[q] = answers[q] /\ receipt'[q] = receipt[q]

LEMMA ReceiptStep ==
    ASSUME IInv, [Next]_vars
    PROVE  ReceiptsStay
<1>1. CASE UNCHANGED <<receipt, answers>>
  BY <1>1 DEF ReceiptsStay
<1>2. receipt \in [Questions -> {"none", "ignored", "answered"}] /\ answers \in [Questions -> Nat]
  BY DEF IInv, TypeOK
<1>3. listener.pc \in {"answering", "recording"} =>
        listener.q \in Questions /\ receipt[listener.q] = "none"
  BY DEF IInv, Answering
<1>4. CASE SendReply \/ HandlingFails
  <2>1. /\ listener.pc \in {"answering", "recording"} /\ receipt' = receipt
        /\ answers' = answers \/ answers' = [answers EXCEPT ![listener.q] = @ + 1]
    BY <1>4 DEF SendReply, HandlingFails
  <2> QED
    BY <1>2, <1>3, <2>1 DEF ReceiptsStay
<1>5. CASE RecordAnswer
  <2>1. /\ listener.pc = "recording" /\ answers' = answers
        /\ receipt' = [receipt EXCEPT ![listener.q] = "answered"]
    BY <1>5 DEF RecordAnswer, RecordQuestion
  <2> QED
    BY <1>2, <1>3, <2>1 DEF ReceiptsStay
<1>6. ASSUME NEW q \in Questions, Ignore(q) PROVE ReceiptsStay
  <2>1. receipt[q] = "none" /\ answers' = answers /\ receipt' = [receipt EXCEPT ![q] = "ignored"]
    BY <1>6 DEF Ignore, RecordQuestion, Seen
  <2> QED
    BY <1>2, <2>1 DEF ReceiptsStay
<1>7. \/ UNCHANGED <<receipt, answers>> \/ SendReply \/ HandlingFails \/ RecordAnswer
      \/ \E q \in Questions : Ignore(q)
  BY DEF Next, Listen, Publish, PostRoot, PostFails, MarkReviewed, PostFinding, Ask,
     Subscribe, Skip, Answer, Disconnect, Crash, vars, askVars
<1>8. QED
  BY <1>1, <1>4, <1>5, <1>6, <1>7

(* A question with a receipt keeps it and is not answered again, however   *)
(* often its event is delivered (buzz_question_processed, buzz.rs:207).    *)
THEOREM ReceiptsAreFinal == Spec => ReceiptIsFinal
<1>1. IInv /\ [Next]_vars => [ReceiptsStay]_vars
  BY ReceiptStep
<1>2. QED
  BY Invariance, <1>1, PTL DEF Spec, ReceiptIsFinal, ReceiptsStay

==============================================================================
