------------------------------- MODULE MCRefunds -------------------------------
(* Instances of Refunds for TLC. *)
EXTENDS Refunds

CONSTANTS w1, w2, s1, s2

=============================================================================
