------------------------------- MODULE MCPayouts -------------------------------
(* Instances of Payouts for TLC. *)
EXTENDS Payouts

CONSTANTS c1, c2

=============================================================================
