----------------------------- MODULE SeatLedger -----------------------------
(***************************************************************************)
(* What the booking component promises about the seats of one plan: a     *)
(* ledger of bookings that hold a seat, never more of them than the plan   *)
(* has seats.  It has no counter, no holds, no waitlist and no payment;    *)
(* Bookings.tla, which has all of them, implements it.                     *)
(***************************************************************************)
EXTENDS Integers, FiniteSets

CONSTANTS BookingIds,    \* every booking that can ever exist
          Capacity       \* plans.capacity

VARIABLE seated          \* bookings that occupy a seat

(* No seat is taken when the plan is published. *)
LedgerInit == seated = {}

(* A booking takes a seat that is free at that instant. *)
TakeSeat(b) ==
  /\ b \notin seated
  /\ Cardinality(seated) < Capacity
  /\ seated' = seated \cup {b}

(* Bookings give their seats back. *)
GiveBack(b) ==
  /\ b \in seated
  /\ seated' = seated \ {b}

LedgerNext == \E b \in BookingIds : TakeSeat(b) \/ GiveBack(b)

LedgerSpec == LedgerInit /\ [][LedgerNext]_seated

=============================================================================
