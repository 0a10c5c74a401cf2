----------------------------- MODULE BuzzThreads -----------------------------
(***************************************************************************)
(* The Buzz threads of one pull request and persona (buzz.rs).  A finished *)
(* review is published as a root message and a reply for each finding,     *)
(* and its thread is stored with the record of the review; later reviews   *)
(* append what is new.  A listener subscribes to a relay and answers the   *)
(* questions asked in the thread; a cursor and a receipt for each question *)
(* make sure that a new subscription does not answer them again.  Any      *)
(* message may be refused, or be accepted with its answer lost, and the    *)
(* daemon may die at any time.                                             *)
(***************************************************************************)
EXTENDS Integers, FiniteSets

CONSTANTS Findings,    \* the keys of findings
          Questions,
          Channels,    \* channels the configuration may name
          Security,    \* a security persona
          MaxReviews, MaxFaults, MaxCrashes, MaxTime,
          None

ASSUME BuzzAssumption ==
    /\ Security \in BOOLEAN /\ Channels # {} /\ None \notin Channels \cup Questions
    /\ {MaxReviews, MaxFaults, MaxCrashes, MaxTime} \subseteq Nat /\ MaxTime > 0

VARIABLES channel,   \* the channel of this persona in the configuration
          thread,    \* buzz_thread of the record, or None
          pub,       \* publish_review_thread
          posts,     \* the threads on the relay
          asked,     \* the questions on the relay
          receipt,   \* BUZZ_QUESTION_STATE
          cursor,    \* BUZZ_QUESTION_CURSOR
          listener,  \* run_question_listener
          answers,   \* how often each question was answered
          used       \* reviews, faults and crashes so far

pubVars == <<thread, pub, posts>>
askVars == <<asked, receipt, cursor, listener, answers>>
vars    == <<channel, pubVars, askVars, used>>

Roots == 1..MaxReviews
Times == 1..MaxTime

Thread == [root : Roots, channel : Channels, keys : SUBSET Findings]

(* What a publication holds: the findings to send, the root they go under  *)
(* (0 if it is yet to be sent) and the keys for the receipt.               *)
Publication == [busy : BOOLEAN, left : SUBSET Findings, root : 0..MaxReviews,
                keys : SUBSET Findings]
NoPublication == [busy |-> FALSE, left |-> {}, root |-> 0, keys |-> {}]

Listener == [pc : {"down", "live", "answering", "recording"}, since : 0..MaxTime,
             inbox : SUBSET Questions, q : Questions \cup {None}]

TypeOK ==
    /\ channel \in Channels
    /\ thread \in Thread \cup {None}
    /\ pub \in Publication
    /\ posts \in [Roots -> [channel : Channels \cup {None}, replies : [Findings -> Nat]]]
    /\ asked \in [Questions -> [time : 0..MaxTime, root : 0..MaxReviews]]
    /\ receipt \in [Questions -> {"none", "ignored", "answered"}]
    /\ cursor \in Times
    /\ listener \in Listener
    /\ answers \in [Questions -> Nat]
    /\ used \in [reviews : 0..MaxReviews, faults : 0..MaxFaults, crashes : 0..MaxCrashes]

Down == [pc |-> "down", since |-> 0, inbox |-> {}, q |-> None]

(* The channels are alike: which of them is configured first is no matter. *)
Init ==
    /\ channel = CHOOSE c \in Channels : TRUE
    /\ thread = None
    /\ pub = NoPublication
    /\ posts = [r \in Roots |-> [channel |-> None, replies |-> [f \in Findings |-> 0]]]
    /\ asked = [q \in Questions |-> [time |-> 0, root |-> 0]]
    /\ receipt = [q \in Questions |-> "none"]
    /\ cursor = 1
    /\ listener = Down
    /\ answers = [q \in Questions |-> 0]
    /\ used = [reviews |-> 0, faults |-> 0, crashes |-> 0]

(* A fault: a message refused, an answer lost, a write that fails.         *)
Fault == used.faults < MaxFaults /\ used' = [used EXCEPT !.faults = @ + 1]

-----------------------------------------------------------------------------
(* Publishing a finished review. *)

Live(r) == posts[r].channel # None

(* reusable_thread: a thread in a channel that is no longer configured is  *)
(* not continued.                                                          *)
Reusable == thread # None /\ thread.channel = channel

Published == IF Reusable THEN thread.keys ELSE {}

(* A review is finished: nothing new is nothing to send, unless the        *)
(* summary of a general review has not been sent.                          *)
Publish(found) ==
    /\ ~pub.busy /\ used.reviews < MaxReviews
    /\ used' = [used EXCEPT !.reviews = @ + 1]
    /\ LET new == found \ Published IN
       pub' = IF new = {} /\ (Security \/ Reusable) THEN pub
              ELSE [busy |-> TRUE, left |-> new, keys |-> Published,
                    root |-> IF Reusable THEN thread.root ELSE 0]
    /\ UNCHANGED <<channel, thread, posts, askVars>>

(* The relay takes a root message for the next free root. *)
AddRoot ==
    \E r \in Roots :
        /\ ~Live(r) /\ \A s \in Roots : s < r => Live(s)
        /\ posts' = [posts EXCEPT ![r].channel = channel]
        /\ pub' = [pub EXCEPT !.root = r]

PostRoot ==
    /\ pub.busy /\ pub.root = 0
    /\ AddRoot
    /\ UNCHANGED <<channel, thread, askVars, used>>

(* Mutant: the receipt names the findings of this review only. *)
PostFindingForgetful(f) ==
    /\ pub.busy /\ pub.root # 0 /\ f \in pub.left
    /\ posts' = [posts EXCEPT ![pub.root].replies[f] = @ + 1]
    /\ pub' = [pub EXCEPT !.left = @ \ {f}, !.keys = {f}]
    /\ UNCHANGED <<channel, thread, askVars, used>>

PostFinding(f) ==
    /\ pub.busy /\ pub.root # 0 /\ f \in pub.left
    /\ posts' = [posts EXCEPT ![pub.root].replies[f] = @ + 1]
    /\ pub' = [pub EXCEPT !.left = @ \ {f}, !.keys = @ \cup {f}]
    /\ UNCHANGED <<channel, thread, askVars, used>>

(* A message fails, on the relay or on its way back, or there is no        *)
(* summary for the root: the publication is given up, and the record keeps *)
(* the thread it had.                                                      *)
PostFails ==
    /\ pub.busy /\ Fault
    /\ pub' = NoPublication
    /\ \/ UNCHANGED posts
       \/ /\ pub.root = 0
          /\ \E r \in Roots : /\ ~Live(r) /\ \A s \in Roots : s < r => Live(s)
                              /\ posts' = [posts EXCEPT ![r].channel = channel]
       \/ /\ pub.root # 0
          /\ \E f \in pub.left : posts' = [posts EXCEPT ![pub.root].replies[f] = @ + 1]
    /\ UNCHANGED <<channel, thread, askVars>>

(* All is sent; the receipt goes into the record of the review. *)
MarkReviewed ==
    /\ pub.busy /\ pub.root # 0 /\ pub.left = {}
    /\ thread' = [root |-> pub.root, channel |-> channel, keys |-> pub.keys]
    /\ pub' = NoPublication
    /\ UNCHANGED <<channel, posts, askVars, used>>

-----------------------------------------------------------------------------
(* Questions. *)

Asked(q) == asked[q].time # 0

(* Somebody mentions the bot: in a thread, or anywhere else (root 0, which *)
(* also stands for events that are not signed, not of this channel or not  *)
(* of an allowed author).  The time is what the author's clock says.       *)
Ask(q) ==
    /\ ~Asked(q)
    /\ \E t \in Times, r \in {0} \cup {s \in Roots : Live(s)} :
         /\ asked' = [asked EXCEPT ![q] = [time |-> t, root |-> r]]
         /\ listener' = IF listener.pc # "down" /\ t > listener.since
                        THEN [listener EXCEPT !.inbox = @ \cup {q}] ELSE listener
    /\ UNCHANGED <<channel, pubVars, receipt, cursor, answers, used>>

(* Mutant: the overlap of one second is left out. *)
SinceExact == cursor

Since == cursor - 1

(* The relay replays what it has, and may or may not take the bound itself *)
(* to be included.                                                         *)
Subscribe ==
    /\ listener.pc = "down"
    /\ \E strict \in BOOLEAN :
         listener' = [pc |-> "live", since |-> Since, q |-> None,
                      inbox |-> {q \in Questions : Asked(q) /\
                                   IF strict THEN asked[q].time > Since
                                             ELSE asked[q].time >= Since}]
    /\ UNCHANGED <<channel, pubVars, asked, receipt, cursor, answers, used>>

Disconnect ==
    /\ listener.pc = "live" /\ Fault
    /\ listener' = Down
    /\ UNCHANGED <<channel, pubVars, asked, receipt, cursor, answers>>

(* Mutant: receipts are not looked at. *)
SeenNever(q) == FALSE

Seen(q) == receipt[q] # "none"

OfThread(q) == /\ thread # None /\ asked[q].root = thread.root
               /\ thread.channel = channel

MaxTimeOf(s, t) == IF s < t THEN t ELSE s

(* The receipt and the cursor are written in one transaction. *)
RecordQuestion(q, how) ==
    /\ receipt' = [receipt EXCEPT ![q] = how]
    /\ cursor' = MaxTimeOf(cursor, asked[q].time)

Skip(q) ==
    /\ listener.pc = "live" /\ q \in listener.inbox /\ Seen(q)
    /\ listener' = [listener EXCEPT !.inbox = @ \ {q}]
    /\ UNCHANGED <<channel, pubVars, asked, receipt, cursor, answers, used>>

Ignore(q) ==
    /\ listener.pc = "live" /\ q \in listener.inbox /\ ~Seen(q) /\ ~OfThread(q)
    /\ RecordQuestion(q, "ignored")
    /\ listener' = [listener EXCEPT !.inbox = @ \ {q}]
    /\ UNCHANGED <<channel, pubVars, asked, answers, used>>

(* The model, or an apology for it, has an answer. *)
Answer(q) ==
    /\ listener.pc = "live" /\ q \in listener.inbox /\ ~Seen(q) /\ OfThread(q)
    /\ listener' = [listener EXCEPT !.pc = "answering", !.q = q, !.inbox = @ \ {q}]
    /\ UNCHANGED <<channel, pubVars, asked, receipt, cursor, answers, used>>

SendReply ==
    /\ listener.pc = "answering"
    /\ answers' = [answers EXCEPT ![listener.q] = @ + 1]
    /\ listener' = [listener EXCEPT !.pc = "recording"]
    /\ UNCHANGED <<channel, pubVars, asked, receipt, cursor, used>>

(* The reply is refused, or taken and its answer lost, or its receipt      *)
(* cannot be written: the subscription is given up for a new one.          *)
HandlingFails ==
    /\ listener.pc \in {"answering", "recording"} /\ Fault
    /\ listener' = Down
    /\ \/ UNCHANGED answers
       \/ /\ listener.pc = "answering"
          /\ answers' = [answers EXCEPT ![listener.q] = @ + 1]
    /\ UNCHANGED <<channel, pubVars, asked, receipt, cursor>>

RecordAnswer ==
    /\ listener.pc = "recording"
    /\ RecordQuestion(listener.q, "answered")
    /\ listener' = [listener EXCEPT !.pc = "live", !.q = None]
    /\ UNCHANGED <<channel, pubVars, asked, answers, used>>

(* The daemon dies and comes back, perhaps with another channel.           *)
Crash ==
    /\ used.crashes < MaxCrashes
    /\ used' = [used EXCEPT !.crashes = @ + 1]
    /\ pub' = NoPublication
    /\ listener' = Down
    /\ channel' \in Channels
    /\ UNCHANGED <<thread, posts, asked, receipt, cursor, answers>>

-----------------------------------------------------------------------------
Listen ==
    \/ Subscribe \/ SendReply \/ RecordAnswer
    \/ \E q \in Questions : Skip(q) \/ Ignore(q) \/ Answer(q)

Next ==
    \/ \E found \in SUBSET Findings : Publish(found)
    \/ PostRoot \/ PostFails \/ MarkReviewed
    \/ \E f \in Findings : PostFinding(f)
    \/ \E q \in Questions : Ask(q)
    \/ Listen \/ Disconnect \/ HandlingFails
    \/ Crash

Spec     == Init /\ [][Next]_vars
FairSpec == Spec /\ WF_vars(Listen)

-----------------------------------------------------------------------------
(* A thread that is stored with a review is on the relay, in its channel,  *)
(* with a reply for every finding it is said to hold: a broken publication *)
(* never makes a finding look delivered (finalizer.rs:143).                *)
ThreadIsAsRecorded ==
    thread # None =>
        /\ posts[thread.root].channel = thread.channel
        /\ \A f \in thread.keys : posts[thread.root].replies[f] > 0

(* A finding that is stored as delivered is not sent to its thread again,  *)
(* and the thread is given up only for one in another channel              *)
(* (README.md:470).                                                        *)
DeliveredIsNotRepeated ==
    [][thread # None =>
        /\ \A f \in thread.keys :
             posts'[thread.root].replies[f] = posts[thread.root].replies[f]
        /\ thread' = thread \/ thread'.channel # thread.channel
           \/ (thread'.root = thread.root /\ thread.keys \subseteq thread'.keys)]_vars

(* A question with a receipt is never answered again, and its receipt is   *)
(* never changed, however often its event is delivered                     *)
(* (buzz_question_processed, buzz.rs:220).                                 *)
ReceiptIsFinal ==
    [][\A q \in Questions :
         receipt[q] # "none" => answers'[q] = answers[q] /\ receipt'[q] = receipt[q]]_vars

(* A question gets a receipt in the end, unless the cursor has passed its  *)
(* time: the relay may replay a later one first, and clocks may differ.    *)
QuestionsAreSettled ==
    \A q \in Questions :
        Asked(q) ~> (receipt[q] # "none" \/ cursor > asked[q].time)

=============================================================================
