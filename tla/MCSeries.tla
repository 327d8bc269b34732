------------------------------- MODULE MCSeries -------------------------------
(* Instances of Series for TLC. *)
EXTENDS Series

CONSTANTS api, w1, h1

=============================================================================
