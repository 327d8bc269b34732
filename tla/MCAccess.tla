------------------------------- MODULE MCAccess -------------------------------
(* Instances of Access for TLC. *)
EXTENDS Access

CONSTANT u1

(* Every kind of community with every kind of plan CreatePlan accepts: an  *)
(* invite-only plan is not public.                                         *)
PossibleTerms == {t \in AllTerms : t.mode = "invite_only" => t.visibility # "public"}

=============================================================================
