--------------------------- MODULE MCPaidBookings ---------------------------
(* Instances of PaidBookings for TLC. *)
EXTENDS PaidBookings, TLC

CONSTANTS u1, u2, b1, b2, o1, o2, c1, c2, k1, k2, w1

(* One booking row for each of two people. *)
OwnerOneEach == (b1 :> u1 @@ b2 :> u2)

(* One order for the first booking; the other booking only holds a seat.    *)
OrderFirst == (o1 :> b1)

(* Two orders for the first booking, as after a retried checkout.           *)
OrderBothFirst == (o1 :> b1 @@ o2 :> b1)

(* What the guards can see: everything but the log of events written.       *)
Visible == <<status, held, waitlist, planStatus, phase, confirmedCount,
             participant, checkins, target, worker, payments>>

CallerSymmetry == Permutations(Callers)

=============================================================================
