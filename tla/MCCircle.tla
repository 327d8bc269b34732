------------------------------- MODULE MCCircle -------------------------------
(* Instances of Circle for TLC. *)
EXTENDS Circle, TLC

CONSTANTS ann, bob

(* The two are interchangeable. *)
Symmetry == Permutations(People)

=============================================================================
