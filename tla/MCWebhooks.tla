------------------------------ MODULE MCWebhooks ------------------------------
(* Instances of Webhooks for TLC. *)
EXTENDS Webhooks, TLC

CONSTANTS r1, r2

TwoRounds == {r1, r2}
OneRound == {r1}
TwoEvents == 1..2
=============================================================================
