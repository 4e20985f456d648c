----------------------------- MODULE MCTreasury -----------------------------
(* A small instance of WagerTreasury for TLC.                              *)
EXTENDS WagerTreasury

\* A deposit and dust in one signature, then a signature without any.
DepositAndDust == <<[sig |-> 1, amount |-> 2], [sig |-> 1, amount |-> 1]>>
=============================================================================
