----------------------------- MODULE MCBookings -----------------------------
(* Instances of Bookings for TLC: who owns which booking row, and symmetry. *)
EXTENDS Bookings, TLC

CONSTANTS u1, u2, u3, b1, b2, b3, b4, c1, c2, w1, w2

(* Two people with two rows each. *)
OwnerTwoEach == (b1 :> u1 @@ b2 :> u1 @@ b3 :> u2 @@ b4 :> u2)

(* Two rows for the first person, one for the second. *)
OwnerTwoOne == (b1 :> u1 @@ b2 :> u1 @@ b3 :> u2)

(* Two rows for the first of three people, one for the others. *)
OwnerTwoOneOne == (b1 :> u1 @@ b2 :> u1 @@ b3 :> u2 @@ b4 :> u3)

(* One row for each of three people. *)
OwnerOneEach == (b1 :> u1 @@ b2 :> u2 @@ b3 :> u3)

(* What the guards can see: everything but the written-only event log.      *)
Visible == <<status, held, waitlist, planStatus, phase, confirmedCount,
             participant, checkins, target, worker>>

(* Model values of one kind are interchangeable. *)
CallerSymmetry == Permutations(Callers)

=============================================================================
