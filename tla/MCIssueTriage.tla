---------------------------- MODULE MCIssueTriage ----------------------------
(* Two other items: a pull request and a newer issue. *)
EXTENDS IssueTriage

TwoItems == <<"pull", "newer">>
=============================================================================
