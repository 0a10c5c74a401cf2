-------------------------- MODULE MCPollSubmitter --------------------------
(* PollSubmitter with a discovery of fresh work and of a retry, and two    *)
(* other callers, who may each ask for the fresh target, too, or for one   *)
(* of their own: four targets, so that one can run, two wait and the       *)
(* fourth find the queue full, and three callers, so that the channel can  *)
(* be full for one of them.                                                *)
EXTENDS PollSubmitter, TLC

CONSTANTS t1, t2, t3, t4, c1, c2

Fresh(t) == [target |-> t, retry |-> FALSE]
Retry(t) == [target |-> t, retry |-> TRUE]

OneDiscovery == { <<Fresh(t1), Retry(t2)>> }

TargetsOfOthers == (c1 :> {t1, t3}) @@ (c2 :> {t1, t4})

(* A live job and a finished one. *)
TwoEach == (t1 :> {1, 2}) @@ (t2 :> {3, 4}) @@ (t3 :> {5, 6}) @@ (t4 :> {7, 8})

=============================================================================
