----------------------------- MODULE ReviewBoard -----------------------------
(***************************************************************************)
(* What the review scheduler promises its callers, without its channel,    *)
(* its queue order or its tables: a board with at most one entry for each  *)
(* target, at most MaxQueued entries waiting and MaxRunning at work, that  *)
(* takes nothing once it is closed and ends up empty.                      *)
(*                                                                         *)
(* An entry whose review panics stays on the board until it closes, without*)
(* holding a worker: the promise is weaker there, because the code is.     *)
(***************************************************************************)
EXTENDS Integers, FiniteSets

CONSTANTS Targets, MaxRunning, MaxQueued

VARIABLES
    board, \* target -> state of its entry
    open   \* submissions are taken

boardVars == <<board, open>>

Of(state) == {t \in DOMAIN board : board[t] = state}

Post(t) ==
    /\ open
    /\ t \in Targets \ DOMAIN board
    /\ Cardinality(Of("queued")) < MaxQueued
    /\ board' = [u \in DOMAIN board \cup {t} |-> IF u = t THEN "queued" ELSE board[u]]
    /\ UNCHANGED open

Start(t) ==
    /\ t \in Of("queued")
    /\ Cardinality(Of("running")) < MaxRunning
    /\ board' = [board EXCEPT ![t] = "running"]
    /\ UNCHANGED open

Finish(t) ==
    /\ open
    /\ t \in Of("running")
    /\ board' = [u \in DOMAIN board \ {t} |-> board[u]]
    /\ UNCHANGED open

Lose(t) ==
    /\ open
    /\ t \in Of("running")
    /\ board' = [board EXCEPT ![t] = "lost"]
    /\ UNCHANGED open

Close ==
    /\ open
    /\ open' = FALSE
    /\ board' = [u \in DOMAIN board \ Of("queued") |-> board[u]]

Clear ==
    /\ ~open
    /\ board' = [u \in {} |-> u]
    /\ UNCHANGED open

BoardInit == board = [u \in {} |-> u] /\ open = TRUE

BoardNext ==
    \/ \E t \in Targets : Post(t) \/ Start(t) \/ Finish(t) \/ Lose(t)
    \/ Close
    \/ Clear

BoardSpec == BoardInit /\ [][BoardNext]_boardVars

=============================================================================
