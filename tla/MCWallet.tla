------------------------------- MODULE MCWallet -------------------------------
(* Instances of Wallet for TLC. *)
EXTENDS Wallet

CONSTANTS b1, c1, c2, f1, f2

=============================================================================
