--------------------------- MODULE BookingsProofs ---------------------------
(***************************************************************************)
(* Proofs about bookings, alone and composed with the payment path, for    *)
(* any set of people, bookings, callers and workers and any capacity.      *)
(*                                                                         *)
(* Of the booking component: type correctness, no overbooking, the         *)
(* refinement of the abstract seat ledger, the order of the waitlist, the  *)
(* seats behind holds and offers, and the roster.  Of the composition:     *)
(* every step of it is a step of the booking component, so that all of     *)
(* this holds while payments are reported, reported again and refunded;    *)
(* captures match orders; and every seat has a paid order behind it, whose *)
(* money is still there unless a message was handled again.                *)
(***************************************************************************)
EXTENDS PaidBookings, FiniteSetTheorems, TLAPS

(* No admin override turns a booking into one that occupies a seat. *)
NeutralOverrides == AdminStatuses \cap SeatedStatuses = {}

-----------------------------------------------------------------------------
(* Facts about the helpers of the transactions. *)

(* Removing people from the waitlist leaves it well typed. *)
LEMMA LeaveLineType ==
  ASSUME TypeOK, NEW gone \in SUBSET Users, LeaveLine(gone)
  PROVE  /\ waiting' \subseteq Users /\ offered' \subseteq Users
         /\ ahead' \in [Users -> SUBSET Users]
         /\ offerLive' \subseteq offered'
  BY DEF TypeOK, LeaveLine, Line

(* So does offering the free seats, whatever the caller removed before. *)
LEMMA OfferFreedSeatsType ==
  ASSUME TypeOK, NEW count, NEW w \in SUBSET Users, NEW o \in SUBSET Users,
         NEW live \in SUBSET o, OfferFreedSeats(count, w, o, live)
  PROVE  /\ waiting' \subseteq Users /\ offered' \subseteq Users
         /\ ahead' \in [Users -> SUBSET Users]
         /\ offerLive' \subseteq offered'
  <1> DEFINE next == Promoted(count, w, live)
  <1>1. next \subseteq w
    BY DEF Promoted
  <1> HIDE DEF next
  <1>2. /\ waiting' = w \ next /\ ahead' = Line(w \ next)
        /\ offered' = o \cup next /\ offerLive' = live \cup next
    BY DEF OfferFreedSeats, next
  <1>3. QED
    BY <1>1, <1>2 DEF TypeOK, Line

(* The number of seats held for others is a natural number. *)
LEMMA ActiveHoldsType ==
  ASSUME TypeOK, NEW u \in Users
  PROVE  ActiveHolds(u) \in Nat
  <1>1. IsFiniteSet(offerLive \ {u})
    BY UsersAssumption, FS_Subset DEF TypeOK
  <1>2. IsFiniteSet({b \in held : Owner[b] # u})
    BY BookingIdsAssumption, FS_Subset DEF TypeOK, Pending
  <1>3. QED
    BY <1>1, <1>2, FS_CardinalityType DEF ActiveHolds

-----------------------------------------------------------------------------
(* Type correctness of the booking component: every transaction leaves each *)
(* column with a value of its type, live holds among the pending bookings    *)
(* and live offers among the offered entries.                                *)
THEOREM TypeCorrect == Spec => []TypeOK
  <1>1. Init => TypeOK
    BY OwnerAssumption DEF Init, TypeOK, Statuses, Pending, Far, NoShowDue
  <1>2. TypeOK /\ [Next]_vars => TypeOK'
    <2> SUFFICES ASSUME TypeOK, [Next]_vars PROVE TypeOK'
      OBVIOUS
    <2> USE BookingIdsAssumption, OwnerAssumption
    <2>1. ASSUME NEW u \in Users, NEW b \in BookingIds, CreatePaid(u, b)
          PROVE  TypeOK'
      BY <2>1 DEF TypeOK, CreatePaid, HasNoHold, Pending, BookingsOf, Statuses,
         waitlist, worker
    <2>2. ASSUME NEW u \in Users, NEW b \in BookingIds, CreateFree(u, b)
          PROVE  TypeOK'
      <3> DEFINE gone == {Owner[b]}
      <3>1. gone \in SUBSET Users /\ LeaveLine(gone)
        BY <2>2 DEF TypeOK, CreateFree, SeatConfirmedBooking
      <3> HIDE DEF gone
      <3>2. /\ waiting' \subseteq Users /\ offered' \subseteq Users
            /\ ahead' \in [Users -> SUBSET Users]
            /\ offerLive' \subseteq offered'
        BY <3>1, LeaveLineType
      <3>3. b \in BookingIds /\ Owner[b] \in Users
        BY <2>2 DEF TypeOK, CreateFree
      <3>4. status' \in [BookingIds -> Statuses] /\ held' \subseteq Pending'
        BY <2>2, <3>3 DEF TypeOK, CreateFree, Pending, Statuses
      <3>5. /\ participant' \in [Users -> BookingIds \cup {NoBooking}]
            /\ confirmedCount' \in Int
        BY <2>2, <3>3 DEF TypeOK, CreateFree, SeatConfirmedBooking
      <3>6. QED
        BY <2>2, <3>2, <3>4, <3>5 DEF TypeOK, CreateFree, worker
    <2>3. ASSUME NEW c \in Callers, NEW b \in BookingIds, ConfirmRead(c, b)
          PROVE  TypeOK'
      BY <2>3 DEF TypeOK, ConfirmRead, Pending,
         waitlist, worker
    <2>4. ASSUME NEW c \in Callers, ConfirmSeat(c)
          PROVE  TypeOK'
      <3> DEFINE gone == {Owner[target[c]]}
      <3>1. gone \in SUBSET Users /\ LeaveLine(gone)
        BY <2>4 DEF TypeOK, ConfirmSeat, SeatConfirmedBooking
      <3> HIDE DEF gone
      <3>2. /\ waiting' \subseteq Users /\ offered' \subseteq Users
            /\ ahead' \in [Users -> SUBSET Users]
            /\ offerLive' \subseteq offered'
        BY <3>1, LeaveLineType
      <3>3. target[c] \in BookingIds /\ Owner[target[c]] \in Users
        BY <2>4 DEF TypeOK, ConfirmSeat
      <3>4. status' \in [BookingIds -> Statuses] /\ held' \subseteq Pending'
        BY <2>4, <3>3 DEF TypeOK, ConfirmSeat, Pending, Statuses
      <3>5. /\ participant' \in [Users -> BookingIds \cup {NoBooking}]
            /\ confirmedCount' \in Int
        BY <2>4, <3>3 DEF TypeOK, ConfirmSeat, SeatConfirmedBooking
      <3>6. QED
        BY <2>4, <3>2, <3>4, <3>5 DEF TypeOK, ConfirmSeat, worker
    <2>5. ASSUME NEW c \in Callers, ConfirmFull(c) \/ ConfirmAbort(c)
          PROVE  TypeOK'
      BY <2>5 DEF TypeOK, ConfirmFull, ConfirmAbort, Pending,
         waitlist, worker
    <2>6. ASSUME ExpirePending
          PROVE  TypeOK'
      BY <2>6 DEF TypeOK, ExpirePending, Lapsed, Pending, Statuses,
         waitlist, worker
    <2>7. ASSUME NEW b \in BookingIds, NEW byHost \in BOOLEAN, Cancel(b, byHost),
                 planStatus' = planStatus, phase' = phase, checkins' = checkins,
                 target' = target, reoffering' = reoffering, fanout' = fanout,
                 todo' \subseteq todo, deliveries' = deliveries, crashes' = crashes
          PROVE  TypeOK'
      <3>1. CASE ReleaseHold(b)
        BY <2>7, <3>1 DEF TypeOK, ReleaseHold, Pending, Statuses, waitlist
      <3>2. CASE ReleaseSeat(b, byHost)
        <4>1. /\ waiting \in SUBSET Users /\ offered \in SUBSET Users
              /\ offerLive \in SUBSET offered
              /\ OfferFreedSeats(confirmedCount - 1, waiting, offered, offerLive)
          BY <3>2 DEF TypeOK, ReleaseSeat
        <4>2. /\ waiting' \subseteq Users /\ offered' \subseteq Users
              /\ ahead' \in [Users -> SUBSET Users]
              /\ offerLive' \subseteq offered'
          BY <4>1, OfferFreedSeatsType
        <4>3. QED
          BY <2>7, <3>2, <4>2 DEF TypeOK, ReleaseSeat, LeaveRoster, RefundPercent, Pending, Statuses
      <3>3. QED
        BY <2>7, <3>1, <3>2 DEF Cancel
    <2>8. ASSUME NEW b \in BookingIds, CancelBookingAsUser(b) \/ FanoutCancel(b)
          PROVE  TypeOK'
      BY <2>8, <2>7 DEF TypeOK, CancelBookingAsUser, FanoutCancel, worker
    <2>9. ASSUME CancelPlan
          PROVE  TypeOK'
      BY <2>9, BusAssumption DEF TypeOK, CancelPlan, Pending, waitlist
    <2>10. ASSUME FanoutExpireWaitlist
          PROVE  TypeOK'
      <3>1. /\ waiting' \subseteq Users /\ offered' \subseteq Users
            /\ ahead' \in [Users -> SUBSET Users]
            /\ offerLive' \subseteq offered'
        BY <2>10, LeaveLineType DEF FanoutExpireWaitlist
      <3>2. QED
        BY <2>10, <3>1 DEF TypeOK, FanoutExpireWaitlist, Pending,
           waitlist, worker
    <2>11. ASSUME FanoutList \/ FanoutDone
          PROVE  TypeOK'
      BY <2>11 DEF TypeOK, FanoutList, FanoutDone, Confirmed, Pending,
         waitlist, worker
    <2>12. ASSUME NEW b \in BookingIds, FanoutRetry(b)
          PROVE  TypeOK'
      BY <2>12 DEF TypeOK, FanoutRetry, Redeliver, Pending,
         waitlist, worker
    <2>13. ASSUME NEW u \in Users, JoinWaitlist(u)
          PROVE  TypeOK'
      BY <2>13 DEF TypeOK, JoinWaitlist, Pending,
         waitlist, worker
    <2>14. ASSUME NEW u \in Users, LeaveWaitlist(u)
          PROVE  TypeOK'
      <3>1. /\ waiting \ {u} \in SUBSET Users /\ offered \ {u} \in SUBSET Users
            /\ offerLive \ {u} \in SUBSET (offered \ {u})
            /\ OfferFreedSeats(confirmedCount, waiting \ {u}, offered \ {u},
                               offerLive \ {u})
        BY <2>14 DEF TypeOK, LeaveWaitlist
      <3>2. /\ waiting' \subseteq Users /\ offered' \subseteq Users
            /\ ahead' \in [Users -> SUBSET Users]
            /\ offerLive' \subseteq offered'
        BY <3>1, OfferFreedSeatsType
      <3>3. QED
        BY <2>14, <3>2 DEF TypeOK, LeaveWaitlist, Pending,
           waitlist, worker
    <2>15. ASSUME NEW w \in Workers, SweepExpire(w)
          PROVE  TypeOK'
      BY <2>15 DEF TypeOK, SweepExpire, Pending,
         waitlist, worker
    <2>16. ASSUME NEW w \in Workers, SweepOffer(w)
          PROVE  TypeOK'
      <3>1. /\ waiting \in SUBSET Users /\ offered \in SUBSET Users
            /\ offerLive \in SUBSET offered
            /\ OfferFreedSeats(confirmedCount, waiting, offered, offerLive)
        BY <2>16 DEF TypeOK, SweepOffer
      <3>2. /\ waiting' \subseteq Users /\ offered' \subseteq Users
            /\ ahead' \in [Users -> SUBSET Users]
            /\ offerLive' \subseteq offered'
        BY <3>1, OfferFreedSeatsType
      <3>3. QED
        BY <2>16, <3>2 DEF TypeOK, SweepOffer, Pending,
           waitlist, worker
    <2>17. ASSUME WorkerCrash
          PROVE  TypeOK'
      BY <2>17 DEF TypeOK, WorkerCrash, Redeliver, Pending, waitlist
    <2>18. ASSUME NEW b \in BookingIds, CheckIn(b)
          PROVE  TypeOK'
      BY <2>18 DEF TypeOK, CheckIn, Pending, Statuses,
         waitlist, worker
    <2>19. ASSUME CompleteEndedPlan \/ NextPhase
          PROVE  TypeOK'
      BY <2>19, BoundsAssumption DEF TypeOK, CompleteEndedPlan, NextPhase, Far, NoShowDue,
         Pending, waitlist, worker
    <2>20. ASSUME MarkNoShows
          PROVE  TypeOK'
      BY <2>20 DEF TypeOK, MarkNoShows, Confirmed, Pending, Statuses,
         waitlist, worker
    <2>21. ASSUME NEW b \in BookingIds, NEW s \in AdminStatuses,
                 OverrideBookingStatus(b, s)
          PROVE  TypeOK'
      BY <2>21, AdminAssumption DEF TypeOK, OverrideBookingStatus, Pending,
         Statuses, waitlist, worker
    <2>22. ASSUME NEW b \in BookingIds, HoldLapses(b)
          PROVE  TypeOK'
      BY <2>22 DEF TypeOK, HoldLapses, Pending,
         waitlist, worker
    <2>23. ASSUME NEW u \in Users, OfferLapses(u)
          PROVE  TypeOK'
      BY <2>23 DEF TypeOK, OfferLapses, Pending,
         waitlist, worker
    <2>24. CASE UNCHANGED vars
      BY <2>24 DEF TypeOK, vars, Pending, waitlist, worker
    <2>25. QED
      BY <2>1, <2>2, <2>3, <2>4, <2>5, <2>6, <2>8, <2>9, <2>10, <2>11, <2>12,
         <2>13, <2>14, <2>15, <2>16, <2>17, <2>18, <2>19, <2>20, <2>21, <2>22,
         <2>23, <2>24 DEF Next, BookingStep, UserStep, ConfirmStep,
         FanoutStep, PlanStep, WorkerStep
  <1>3. QED
    BY <1>1, <1>2, PTL DEF Spec

-----------------------------------------------------------------------------
(* The three effects a step can have on the seats. *)
SeatsKept == Seated' = Seated /\ confirmedCount' = confirmedCount

SeatTaken(b) ==
  /\ Seated' = Seated \cup {b}
  /\ confirmedCount' = confirmedCount + 1
  /\ confirmedCount < Capacity

SeatGivenBack(b) ==
  /\ b \in Seated /\ Seated' = Seated \ {b}
  /\ confirmedCount' \in {confirmedCount - 1, confirmedCount}

(* Counting seats is meaningful: the seated bookings are finitely many. *)
LEMMA SeatedFinite == IsFiniteSet(Seated) /\ Cardinality(Seated) \in Nat
  BY BookingIdsAssumption, FS_Subset, FS_CardinalityType DEF Seated

(* What a test for a free seat leaves: at least one seat above the count. *)
LEMMA FreeSeat ==
  ASSUME TypeOK, NEW u \in Users, confirmedCount + ActiveHolds(u) < Capacity
  PROVE  confirmedCount < Capacity
  <1>1. ActiveHolds(u) \in Nat /\ confirmedCount \in Int
    BY ActiveHoldsType DEF TypeOK
  <1>2. QED
    BY <1>1, CapacityAssumption

(* Every step keeps the seats, takes one below the capacity, or gives one   *)
(* back.  The counter moves with the seats, except that a second            *)
(* confirmation of one booking and an override can leave it too high.       *)
LEMMA SeatEffect ==
  ASSUME TypeOK, NeutralOverrides, [Next]_vars
  PROVE  \/ SeatsKept
         \/ \E b \in BookingIds : SeatTaken(b)
         \/ \E b \in BookingIds : SeatGivenBack(b)
  <1> DEFINE Effect == \/ SeatsKept
                       \/ \E b \in BookingIds : SeatTaken(b)
                       \/ \E b \in BookingIds : SeatGivenBack(b)
  <1> USE DEF Seated, SeatedStatuses
  <1>1. ASSUME NEW u \in Users, NEW b \in BookingIds, CreatePaid(u, b)
        PROVE  SeatsKept
    BY <1>1 DEF CreatePaid, SeatsKept, TypeOK, Pending
  <1>2. ASSUME NEW u \in Users, NEW b \in BookingIds, CreateFree(u, b)
        PROVE  SeatTaken(b)
    <2>1. confirmedCount < Capacity
      BY <1>2, FreeSeat DEF CreateFree, CanCreate
    <2>2. QED
      BY <1>2, <2>1 DEF CreateFree, SeatConfirmedBooking, SeatTaken, TypeOK
  <1>3. ASSUME NEW c \in Callers, ConfirmSeat(c)
        PROVE  Effect
    <2>1. PICK b \in BookingIds : b = target[c]
      BY <1>3 DEF ConfirmSeat, TypeOK
    <2>2. confirmedCount < Capacity
      BY <1>3, <2>1, FreeSeat, OwnerAssumption DEF ConfirmSeat, SeatFor
    <2>3. SeatTaken(b)
      BY <1>3, <2>1, <2>2 DEF ConfirmSeat, SeatConfirmedBooking, SeatTaken, TypeOK
    <2>4. QED
      BY <2>3
  <1>4. ASSUME NEW b \in BookingIds, NEW byHost \in BOOLEAN, Cancel(b, byHost)
        PROVE  SeatsKept \/ SeatGivenBack(b)
    <2>1. CASE ReleaseHold(b)
      BY <2>1 DEF ReleaseHold, SeatsKept, TypeOK
    <2>2. CASE ReleaseSeat(b, byHost)
      BY <2>2 DEF ReleaseSeat, SeatGivenBack, TypeOK
    <2>3. QED
      BY <1>4, <2>1, <2>2 DEF Cancel
  <1>5. ASSUME NEW b \in BookingIds,
               CancelBookingAsUser(b) \/ FanoutCancel(b)
        PROVE  Effect
    BY <1>4, <1>5 DEF CancelBookingAsUser, FanoutCancel
  <1>6. CASE ExpirePending
    BY <1>6 DEF ExpirePending, Lapsed, SeatsKept, TypeOK, Pending
  <1>7. ASSUME NEW b \in BookingIds, CheckIn(b)
        PROVE  SeatsKept
    BY <1>7 DEF CheckIn, SeatsKept, TypeOK
  <1>8. CASE MarkNoShows
    BY <1>8 DEF MarkNoShows, Confirmed, SeatsKept, TypeOK
  <1>9. ASSUME NEW b \in BookingIds, NEW s \in AdminStatuses,
               OverrideBookingStatus(b, s)
        PROVE  SeatsKept \/ SeatGivenBack(b)
    <2>1. s \notin SeatedStatuses
      BY DEF NeutralOverrides
    <2>2. CASE b \in Seated
      BY <1>9, <2>1, <2>2 DEF OverrideBookingStatus, SeatGivenBack, TypeOK
    <2>3. CASE b \notin Seated
      BY <1>9, <2>1, <2>3 DEF OverrideBookingStatus, SeatsKept, TypeOK
    <2>4. QED
      BY <2>2, <2>3
  <1>10. ASSUME UNCHANGED <<status, confirmedCount>>
         PROVE  SeatsKept
    BY <1>10 DEF SeatsKept
  <1>11. ASSUME NEW u \in Users, JoinWaitlist(u) \/ LeaveWaitlist(u) \/ OfferLapses(u)
         PROVE  SeatsKept
    BY <1>10, <1>11 DEF JoinWaitlist, LeaveWaitlist, OfferLapses
  <1>12. ASSUME NEW c \in Callers, NEW b \in BookingIds,
                ConfirmRead(c, b) \/ ConfirmFull(c) \/ ConfirmAbort(c)
         PROVE  SeatsKept
    BY <1>10, <1>12 DEF ConfirmRead, ConfirmFull, ConfirmAbort
  <1>13. ASSUME NEW c \in Callers, ConfirmFull(c) \/ ConfirmAbort(c)
         PROVE  SeatsKept
    BY <1>10, <1>13 DEF ConfirmFull, ConfirmAbort
  <1>14. ASSUME NEW b \in BookingIds, HoldLapses(b) \/ FanoutRetry(b)
         PROVE  SeatsKept
    BY <1>10, <1>14 DEF HoldLapses, FanoutRetry
  <1>15. CASE FanoutExpireWaitlist \/ FanoutList \/ FanoutDone \/ CancelPlan
              \/ CompleteEndedPlan \/ NextPhase \/ WorkerCrash
    BY <1>10, <1>15 DEF FanoutExpireWaitlist, FanoutList, FanoutDone, CancelPlan,
       CompleteEndedPlan, NextPhase, WorkerCrash
  <1>16. ASSUME NEW w \in Workers, SweepExpire(w) \/ SweepOffer(w)
         PROVE  SeatsKept
    BY <1>10, <1>16 DEF SweepExpire, SweepOffer
  <1>17. CASE UNCHANGED vars
    BY <1>10, <1>17 DEF vars
  <1>18. ASSUME NEW b \in BookingIds, BookingStep(b)
         PROVE  Effect
    BY <1>5, <1>7, <1>9, <1>14, <1>18 DEF BookingStep
  <1>19. ASSUME NEW u \in Users, UserStep(u)
         PROVE  Effect
    BY <1>1, <1>2, <1>11, <1>19 DEF UserStep
  <1>20. ASSUME NEW c \in Callers, ConfirmStep(c)
         PROVE  Effect
    BY <1>3, <1>12, <1>13, <1>20 DEF ConfirmStep
  <1>21. CASE FanoutStep \/ PlanStep \/ WorkerStep
    BY <1>5, <1>6, <1>8, <1>14, <1>15, <1>16, <1>21
       DEF FanoutStep, PlanStep, WorkerStep
  <1>22. QED
    BY <1>17, <1>18, <1>19, <1>20, <1>21 DEF Next

(* The inductive step of NoOverbooking: the count never falls below the     *)
(* seats because a seat is counted before or while it is taken, and given   *)
(* back at most once for each count.                                        *)
LEMMA NoOverbookingStep ==
  ASSUME TypeOK, NoOverbooking, NeutralOverrides, [Next]_vars
  PROVE  NoOverbooking'
  <1> USE SeatedFinite, CapacityAssumption
  <1>1. CASE SeatsKept
    BY <1>1 DEF SeatsKept, NoOverbooking
  <1>2. ASSUME NEW b \in BookingIds, SeatTaken(b)
        PROVE  NoOverbooking'
    <2>1. Cardinality(Seated \cup {b}) =
            IF b \in Seated THEN Cardinality(Seated) ELSE Cardinality(Seated) + 1
      BY FS_AddElement
    <2>2. QED
      BY <1>2, <2>1 DEF SeatTaken, NoOverbooking, TypeOK
  <1>3. ASSUME NEW b \in BookingIds, SeatGivenBack(b)
        PROVE  NoOverbooking'
    <2>1. Cardinality(Seated \ {b}) = Cardinality(Seated) - 1
      BY <1>3, FS_RemoveElement DEF SeatGivenBack
    <2>2. QED
      BY <1>3, <2>1 DEF SeatGivenBack, NoOverbooking, TypeOK
  <1>4. QED
    BY <1>1, <1>2, <1>3, SeatEffect

(* No overbooking: whatever confirmations, retries, lapses, cancellations   *)
(* and crashes interleave, the seated bookings never outnumber the counter  *)
(* and the counter never exceeds the capacity of the plan.                  *)
THEOREM SeatsWithinCapacity ==
  ASSUME NeutralOverrides
  PROVE  Spec => []NoOverbooking
  <1>1. Init => NoOverbooking
    <2> SUFFICES ASSUME Init PROVE NoOverbooking
      OBVIOUS
    <2>1. Seated = {}
      BY DEF Init, Seated, SeatedStatuses
    <2>2. QED
      BY <2>1, FS_EmptySet, CapacityAssumption DEF Init, NoOverbooking
  <1>2. TypeOK /\ NoOverbooking /\ [Next]_vars => NoOverbooking'
    BY NoOverbookingStep
  <1>3. QED
    BY <1>1, <1>2, TypeCorrect, PTL DEF Spec

(* Refinement: the component implements the abstract ledger.  A step that   *)
(* seats a booking is TakeSeat (or a stutter when the booking was already   *)
(* seated), one that gives a seat back is GiveBack, the rest stutter.  This *)
(* is so only while no admin override writes attended or no_show, which the *)
(* console allows: that seats a booking past the capacity check.            *)
THEOREM LedgerRefinement ==
  ASSUME NeutralOverrides
  PROVE  Spec => ImplementsLedger
  <1>1. Init => Ledger!LedgerInit
    BY DEF Init, Ledger!LedgerInit, Seated, SeatedStatuses
  <1>2. TypeOK /\ NoOverbooking /\ [Next]_vars => [Ledger!LedgerNext]_Seated
    <2> SUFFICES ASSUME TypeOK, NoOverbooking, [Next]_vars
                 PROVE  [Ledger!LedgerNext]_Seated
      OBVIOUS
    <2>1. CASE SeatsKept
      BY <2>1 DEF SeatsKept
    <2>2. ASSUME NEW b \in BookingIds, SeatTaken(b)
          PROVE  [Ledger!LedgerNext]_Seated
      <3>1. CASE b \in Seated
        BY <2>2, <3>1 DEF SeatTaken
      <3>2. CASE b \notin Seated
        <4>1. Cardinality(Seated) < Capacity
          BY <2>2, SeatedFinite, CapacityAssumption DEF SeatTaken, NoOverbooking, TypeOK
        <4>2. QED
          BY <2>2, <3>2, <4>1 DEF SeatTaken, Ledger!LedgerNext, Ledger!TakeSeat,
             Ledger!Cardinality, Cardinality
      <3>3. QED
        BY <3>1, <3>2
    <2>3. ASSUME NEW b \in BookingIds, SeatGivenBack(b)
          PROVE  [Ledger!LedgerNext]_Seated
      BY <2>3 DEF SeatGivenBack, Ledger!LedgerNext, Ledger!GiveBack
    <2>4. QED
      BY <2>1, <2>2, <2>3, SeatEffect
  <1>3. QED
    BY <1>1, <1>2, TypeCorrect, SeatsWithinCapacity, PTL
       DEF Spec, ImplementsLedger, Ledger!LedgerSpec

-----------------------------------------------------------------------------
(* A retried "Reserve" never stacks holds: only Create starts one, when the *)
(* user has none, and every other step keeps the live holds or ends some.   *)
THEOREM HoldsNeverStack == Spec => []OneHoldEach
  <1> USE BookingIdsAssumption
  <1>1. Init => OneHoldEach
    BY FS_EmptySet DEF Init, OneHoldEach
  <1>2. TypeOK /\ OneHoldEach /\ [Next]_vars => OneHoldEach'
    <2> SUFFICES ASSUME TypeOK, OneHoldEach, [Next]_vars PROVE OneHoldEach'
      OBVIOUS
    <2>1. \A u \in Users : IsFiniteSet(BookingsOf(u) \cap held)
      BY FS_Subset DEF BookingsOf
    <2>2. ASSUME held' \subseteq held
          PROVE  OneHoldEach'
      <3> SUFFICES ASSUME NEW u \in Users
                   PROVE  Cardinality(BookingsOf(u) \cap held') <= 1
        BY DEF OneHoldEach, BookingsOf
      <3>1. BookingsOf(u) \cap held' \subseteq BookingsOf(u) \cap held
        BY <2>2
      <3>2. /\ Cardinality(BookingsOf(u) \cap held') \in Nat
            /\ Cardinality(BookingsOf(u) \cap held) \in Nat
            /\ Cardinality(BookingsOf(u) \cap held') <= Cardinality(BookingsOf(u) \cap held)
        BY <3>1, <2>1, FS_Subset, FS_CardinalityType
      <3>3. QED
        BY <3>2 DEF OneHoldEach
    <2>3. ASSUME NEW u \in Users, NEW b \in BookingIds, CreatePaid(u, b)
          PROVE  OneHoldEach'
      <3> SUFFICES ASSUME NEW v \in Users
                   PROVE  Cardinality(BookingsOf(v) \cap held') <= 1
        BY DEF OneHoldEach, BookingsOf
      <3>1. CASE v = u
        <4>1. BookingsOf(v) \cap held = {} /\ b \in BookingsOf(v) /\ held' = held \cup {b}
          BY <2>3, <3>1 DEF CreatePaid, HasNoHold
        <4>2. BookingsOf(v) \cap held' = {b}
          BY <4>1
        <4>3. Cardinality({b}) = 1
          BY FS_Singleton
        <4>4. QED
          BY <4>2, <4>3
      <3>2. CASE v # u
        <4>1. BookingsOf(v) \cap held' = BookingsOf(v) \cap held
          BY <2>3, <3>2 DEF CreatePaid, BookingsOf
        <4>2. QED
          BY <4>1 DEF OneHoldEach
      <3>3. QED
        BY <3>1, <3>2
    <2>4. ASSUME NEW b \in BookingIds, BookingStep(b) \/ FanoutCancel(b) \/ FanoutRetry(b)
          PROVE  held' \subseteq held
      BY <2>4 DEF BookingStep, CancelBookingAsUser, FanoutCancel, FanoutRetry, Cancel,
         ReleaseHold, ReleaseSeat, CheckIn, OverrideBookingStatus, HoldLapses
    <2>5. ASSUME NEW u \in Users, NEW b \in BookingIds, CreateFree(u, b)
          PROVE  held' \subseteq held
      BY <2>5 DEF CreateFree
    <2>6. ASSUME NEW u \in Users, JoinWaitlist(u) \/ LeaveWaitlist(u) \/ OfferLapses(u)
          PROVE  held' \subseteq held
      BY <2>6 DEF JoinWaitlist, LeaveWaitlist, OfferLapses
    <2>7. ASSUME NEW c \in Callers, ConfirmStep(c)
          PROVE  held' \subseteq held
      BY <2>7 DEF ConfirmStep, ConfirmRead, ConfirmSeat, ConfirmFull, ConfirmAbort
    <2>8. CASE FanoutStep \/ PlanStep \/ WorkerStep
      BY <2>4, <2>2, <2>8 DEF FanoutStep, FanoutExpireWaitlist, FanoutList, FanoutDone,
         PlanStep, CancelPlan, CompleteEndedPlan, MarkNoShows, NextPhase,
         WorkerStep, ExpirePending, SweepExpire, SweepOffer, WorkerCrash
    <2>9. CASE UNCHANGED vars
      BY <2>2, <2>9 DEF vars
    <2>10. QED
      BY <2>2, <2>3, <2>4, <2>5, <2>6, <2>7, <2>8, <2>9 DEF Next, UserStep
  <1>3. QED
    BY <1>1, <1>2, TypeCorrect, PTL DEF Spec

-----------------------------------------------------------------------------
(* The people with an entry on the waitlist, waiting or offered a seat. *)
InLine == waiting \cup offered

(* What a step may do to the line and the confirmed bookings: confirm one   *)
(* and drop its owner's entry, let somebody without a confirmed booking     *)
(* join, or add to neither.                                                 *)
SeatLeavesLine(b) ==
  Confirmed' \subseteq Confirmed \cup {b} /\ InLine' \subseteq InLine \ {Owner[b]}
Joins(u) ==
  /\ BookingsOf(u) \cap Confirmed = {}
  /\ Confirmed' \subseteq Confirmed /\ InLine' \subseteq InLine \cup {u}
LineShrinks == Confirmed' \subseteq Confirmed /\ InLine' \subseteq InLine

(* Offering freed seats moves entries within the line. *)
LEMMA OfferKeepsLine ==
  ASSUME NEW count, NEW w \in SUBSET waiting, NEW o \in SUBSET offered, NEW live,
         OfferFreedSeats(count, w, o, live)
  PROVE  InLine' \subseteq InLine
  BY DEF OfferFreedSeats, Promoted, InLine

(* Every step has one of these effects. *)
LEMMA LineEffect ==
  ASSUME TypeOK, NeutralOverrides, [Next]_vars
  PROVE  \/ LineShrinks
         \/ \E b \in BookingIds : SeatLeavesLine(b)
         \/ \E u \in Users : Joins(u)
  <1> DEFINE Effect == \/ LineShrinks
                       \/ \E b \in BookingIds : SeatLeavesLine(b)
                       \/ \E u \in Users : Joins(u)
  <1>1. ASSUME NEW u \in Users, NEW b \in BookingIds, CreatePaid(u, b)
        PROVE  LineShrinks
    BY <1>1 DEF CreatePaid, LineShrinks, Confirmed, InLine, TypeOK, waitlist
  <1>2. ASSUME NEW u \in Users, NEW b \in BookingIds, CreateFree(u, b)
        PROVE  Effect
    <2>1. SeatLeavesLine(b)
      BY <1>2 DEF CreateFree, SeatConfirmedBooking, LeaveLine, SeatLeavesLine,
         Confirmed, InLine, TypeOK
    <2>2. QED
      BY <2>1
  <1>3. ASSUME NEW c \in Callers, ConfirmSeat(c)
        PROVE  Effect
    <2>1. PICK b \in BookingIds : b = target[c]
      BY <1>3 DEF ConfirmSeat, TypeOK
    <2>2. SeatLeavesLine(b)
      BY <1>3, <2>1 DEF ConfirmSeat, SeatConfirmedBooking, LeaveLine,
         SeatLeavesLine, Confirmed, InLine, TypeOK
    <2>3. QED
      BY <2>2
  <1>4. ASSUME NEW u \in Users, JoinWaitlist(u)
        PROVE  Effect
    <2>1. Joins(u)
      BY <1>4 DEF JoinWaitlist, Joins, Confirmed, InLine
    <2>2. QED
      BY <2>1
  <1>5. ASSUME NEW u \in Users, LeaveWaitlist(u)
        PROVE  LineShrinks
    <2>1. InLine' \subseteq InLine
      BY <1>5, OfferKeepsLine DEF LeaveWaitlist
    <2>2. QED
      BY <1>5, <2>1 DEF LeaveWaitlist, LineShrinks, Confirmed
  <1>6. ASSUME NEW w \in Workers, SweepOffer(w)
        PROVE  LineShrinks
    <2>1. InLine' \subseteq InLine
      BY <1>6, OfferKeepsLine DEF SweepOffer
    <2>2. QED
      BY <1>6, <2>1 DEF SweepOffer, LineShrinks, Confirmed
  <1>7. ASSUME NEW b \in BookingIds, NEW byHost \in BOOLEAN, Cancel(b, byHost)
        PROVE  LineShrinks
    <2>1. CASE ReleaseHold(b)
      BY <2>1 DEF ReleaseHold, LineShrinks, Confirmed, InLine, TypeOK, waitlist
    <2>2. CASE ReleaseSeat(b, byHost)
      <3>1. InLine' \subseteq InLine
        BY <2>2, OfferKeepsLine DEF ReleaseSeat
      <3>2. QED
        BY <2>2, <3>1 DEF ReleaseSeat, LineShrinks, Confirmed, TypeOK
    <2>3. QED
      BY <1>7, <2>1, <2>2 DEF Cancel
  <1>8. ASSUME NEW b \in BookingIds, CancelBookingAsUser(b) \/ FanoutCancel(b)
        PROVE  LineShrinks
    BY <1>7, <1>8 DEF CancelBookingAsUser, FanoutCancel
  <1>9. ASSUME NEW b \in BookingIds, NEW s \in AdminStatuses,
               OverrideBookingStatus(b, s)
        PROVE  LineShrinks
    BY <1>9 DEF OverrideBookingStatus, NeutralOverrides, SeatedStatuses,
       LineShrinks, Confirmed, InLine, TypeOK, waitlist
  <1>10. ASSUME NEW b \in BookingIds, CheckIn(b)
         PROVE  LineShrinks
    BY <1>10 DEF CheckIn, LineShrinks, Confirmed, InLine, TypeOK, waitlist
  <1>11. CASE ExpirePending \/ MarkNoShows
    BY <1>11 DEF ExpirePending, MarkNoShows, Lapsed, Pending, LineShrinks,
       Confirmed, InLine, TypeOK, waitlist
  <1>12. CASE FanoutExpireWaitlist
    BY <1>12 DEF FanoutExpireWaitlist, LeaveLine, LineShrinks, Confirmed, InLine
  <1>13. ASSUME NEW w \in Workers, SweepExpire(w)
         PROVE  LineShrinks
    BY <1>13 DEF SweepExpire, LineShrinks, Confirmed, InLine, TypeOK
  <1>14. ASSUME UNCHANGED <<status, waiting, offered>>
         PROVE  LineShrinks
    BY <1>14 DEF LineShrinks, Confirmed, InLine
  <1>15. ASSUME NEW c \in Callers, NEW b \in BookingIds, ConfirmRead(c, b)
         PROVE  LineShrinks
    BY <1>14, <1>15 DEF ConfirmRead, waitlist
  <1>16. ASSUME NEW c \in Callers, ConfirmFull(c) \/ ConfirmAbort(c)
         PROVE  LineShrinks
    BY <1>14, <1>16 DEF ConfirmFull, ConfirmAbort, waitlist
  <1>17. ASSUME NEW b \in BookingIds, HoldLapses(b) \/ FanoutRetry(b)
         PROVE  LineShrinks
    BY <1>14, <1>17 DEF HoldLapses, FanoutRetry, waitlist
  <1>18. ASSUME NEW u \in Users, OfferLapses(u)
         PROVE  LineShrinks
    BY <1>14, <1>18 DEF OfferLapses
  <1>19. CASE FanoutList \/ FanoutDone \/ CancelPlan \/ CompleteEndedPlan
              \/ NextPhase \/ WorkerCrash
    BY <1>14, <1>19 DEF FanoutList, FanoutDone, CancelPlan, CompleteEndedPlan,
       NextPhase, WorkerCrash, waitlist
  <1>20. CASE UNCHANGED vars
    BY <1>14, <1>20 DEF vars, waitlist
  <1>21. ASSUME NEW b \in BookingIds, BookingStep(b)
         PROVE  Effect
    BY <1>8, <1>9, <1>10, <1>17, <1>21 DEF BookingStep
  <1>22. ASSUME NEW u \in Users, UserStep(u)
         PROVE  Effect
    BY <1>1, <1>2, <1>4, <1>5, <1>18, <1>22 DEF UserStep
  <1>23. ASSUME NEW c \in Callers, ConfirmStep(c)
         PROVE  Effect
    BY <1>3, <1>15, <1>16, <1>23 DEF ConfirmStep
  <1>24. CASE FanoutStep \/ PlanStep \/ WorkerStep
    BY <1>6, <1>8, <1>11, <1>12, <1>13, <1>17, <1>19, <1>24
       DEF FanoutStep, PlanStep, WorkerStep
  <1>25. QED
    BY <1>20, <1>21, <1>22, <1>23, <1>24 DEF Next

(* Nobody with a confirmed booking keeps a place in the line, where it would *)
(* hold back a seat that others wait for.                                   *)
THEOREM SeatedLeaveTheLine ==
  ASSUME NeutralOverrides
  PROVE  Spec => []ConfirmedLeaveLine
  <1>1. Init => ConfirmedLeaveLine
    BY DEF Init, ConfirmedLeaveLine
  <1>2. TypeOK /\ ConfirmedLeaveLine /\ [Next]_vars => ConfirmedLeaveLine'
    <2> SUFFICES ASSUME TypeOK, ConfirmedLeaveLine, [Next]_vars
                 PROVE  ConfirmedLeaveLine'
      OBVIOUS
    <2>1. CASE LineShrinks
      BY <2>1 DEF LineShrinks, ConfirmedLeaveLine, InLine, BookingsOf
    <2>2. ASSUME NEW b \in BookingIds, SeatLeavesLine(b)
          PROVE  ConfirmedLeaveLine'
      BY <2>2 DEF SeatLeavesLine, ConfirmedLeaveLine, InLine, BookingsOf
    <2>3. ASSUME NEW u \in Users, Joins(u)
          PROVE  ConfirmedLeaveLine'
      BY <2>3 DEF Joins, ConfirmedLeaveLine, InLine, BookingsOf
    <2>4. QED
      BY <2>1, <2>2, <2>3, LineEffect
  <1>3. QED
    BY <1>1, <1>2, TypeCorrect, PTL DEF Spec

-----------------------------------------------------------------------------
(* The line is a queue: whoever is ahead of somebody is waiting, "ahead of"  *)
(* is transitive and never of oneself, and of two who wait one is ahead.     *)
QueueInv ==
  /\ \A v \in Users : v \notin ahead[v] /\ ahead[v] \subseteq waiting
  /\ \A u, v \in Users : u \in ahead[v] => ahead[u] \subseteq ahead[v]
  /\ \A u, v \in waiting : u = v \/ u \in ahead[v] \/ v \in ahead[u]

(* What a step may do to the line: nothing, close up over people who leave,  *)
(* let somebody join at the end, or offer the free seats.                    *)
LineKept == UNCHANGED <<waiting, ahead>> /\ offered' \subseteq offered
LineCloses ==
  \E w \in SUBSET waiting :
    waiting' = w /\ ahead' = Line(w) /\ offered' \subseteq offered
LineOffers ==
  \E count \in Int, w \in SUBSET waiting, o \in SUBSET offered, live \in SUBSET offerLive :
    OfferFreedSeats(count, w, o, live)

(* Every step has one of these effects. *)
LEMMA QueueEffect ==
  ASSUME TypeOK, [Next]_vars
  PROVE  LineKept \/ LineCloses \/ LineOffers \/ \E u \in Users : JoinWaitlist(u)
  <1> DEFINE Effect == LineKept \/ LineCloses \/ LineOffers \/ \E u \in Users : JoinWaitlist(u)
  <1>1. ASSUME NEW gone, LeaveLine(gone)
        PROVE  LineCloses
    <2>1. waiting \ gone \in SUBSET waiting
      OBVIOUS
    <2>2. QED
      BY <1>1, <2>1 DEF LeaveLine, LineCloses
  <1>2. ASSUME NEW u \in Users, UserStep(u)
        PROVE  Effect
    <2>1. ASSUME NEW b \in BookingIds, CreateFree(u, b)
          PROVE  Effect
      BY <2>1, <1>1 DEF CreateFree, SeatConfirmedBooking
    <2>2. ASSUME NEW b \in BookingIds, CreatePaid(u, b)
          PROVE  Effect
      BY <2>2 DEF CreatePaid, LineKept, waitlist
    <2>3. CASE LeaveWaitlist(u)
      <3>1. /\ confirmedCount \in Int /\ waiting \ {u} \in SUBSET waiting
            /\ offered \ {u} \in SUBSET offered /\ offerLive \ {u} \in SUBSET offerLive
        BY DEF TypeOK
      <3>2. QED
        BY <2>3, <3>1 DEF LeaveWaitlist, LineOffers
    <2>4. CASE OfferLapses(u)
      BY <2>4 DEF OfferLapses, LineKept
    <2>5. QED
      BY <1>2, <2>1, <2>2, <2>3, <2>4 DEF UserStep
  <1>3. ASSUME NEW c \in Callers, ConfirmStep(c)
        PROVE  Effect
    <2>1. CASE ConfirmSeat(c)
      BY <2>1, <1>1 DEF ConfirmSeat, SeatConfirmedBooking
    <2>2. CASE ConfirmFull(c) \/ ConfirmAbort(c) \/ \E b \in BookingIds : ConfirmRead(c, b)
      BY <2>2 DEF ConfirmFull, ConfirmAbort, ConfirmRead, LineKept, waitlist
    <2>3. QED
      BY <1>3, <2>1, <2>2 DEF ConfirmStep
  <1>4. ASSUME NEW b \in BookingIds, NEW byHost \in BOOLEAN, Cancel(b, byHost)
        PROVE  Effect
    <2>1. CASE ReleaseHold(b)
      BY <2>1 DEF ReleaseHold, LineKept, waitlist
    <2>2. CASE ReleaseSeat(b, byHost)
      <3>1. confirmedCount - 1 \in Int
        BY DEF TypeOK
      <3>2. QED
        BY <2>2, <3>1 DEF ReleaseSeat, LineOffers
    <2>3. QED
      BY <1>4, <2>1, <2>2 DEF Cancel
  <1>5. ASSUME NEW b \in BookingIds, BookingStep(b)
        PROVE  Effect
    BY <1>4, <1>5 DEF BookingStep, CancelBookingAsUser, CheckIn, OverrideBookingStatus,
       HoldLapses, LineKept, waitlist
  <1>6. CASE FanoutStep
    <2>1. CASE FanoutExpireWaitlist
      BY <2>1, <1>1 DEF FanoutExpireWaitlist
    <2>2. ASSUME NEW b \in BookingIds, FanoutCancel(b) \/ FanoutRetry(b)
          PROVE  Effect
      BY <2>2, <1>4 DEF FanoutCancel, FanoutRetry, LineKept, waitlist
    <2>3. CASE FanoutList \/ FanoutDone
      BY <2>3 DEF FanoutList, FanoutDone, LineKept, waitlist
    <2>4. QED
      BY <1>6, <2>1, <2>2, <2>3 DEF FanoutStep
  <1>7. CASE PlanStep
    BY <1>7 DEF PlanStep, CancelPlan, CompleteEndedPlan, MarkNoShows, NextPhase,
       LineKept, waitlist
  <1>8. CASE WorkerStep
    <2>1. ASSUME NEW w \in Workers, SweepOffer(w)
          PROVE  Effect
      <3>1. confirmedCount \in Int
        BY DEF TypeOK
      <3>2. QED
        BY <2>1, <3>1 DEF SweepOffer, LineOffers
    <2>2. ASSUME NEW w \in Workers, SweepExpire(w)
          PROVE  Effect
      BY <2>2 DEF SweepExpire, LineKept, TypeOK
    <2>3. CASE ExpirePending \/ WorkerCrash
      BY <2>3 DEF ExpirePending, WorkerCrash, LineKept, waitlist
    <2>4. QED
      BY <1>8, <2>1, <2>2, <2>3 DEF WorkerStep
  <1>9. CASE UNCHANGED vars
    BY <1>9 DEF vars, LineKept, waitlist
  <1>10. QED
    BY <1>2, <1>3, <1>5, <1>6, <1>7, <1>8, <1>9 DEF Next

(* Those effects keep the line a queue. *)
LEMMA QueueStep ==
  ASSUME TypeOK, QueueInv, [Next]_vars
  PROVE  QueueInv'
  <1>1. ASSUME NEW w \in SUBSET waiting, waiting' = w, ahead' = Line(w)
        PROVE  QueueInv'
    <2>1. \A v \in Users : ahead'[v] = IF v \in w THEN ahead[v] \cap w ELSE {}
      BY <1>1 DEF Line
    <2>2. w \subseteq Users
      BY DEF TypeOK
    <2>3. ASSUME NEW v \in Users
          PROVE  v \notin ahead'[v] /\ ahead'[v] \subseteq waiting'
      <3>1. v \notin ahead[v]
        BY DEF QueueInv
      <3>2. ahead'[v] \subseteq ahead[v] /\ ahead'[v] \subseteq w
        BY <2>1
      <3>3. QED
        BY <1>1, <3>1, <3>2
    <2>4. ASSUME NEW u \in Users, NEW v \in Users, u \in ahead'[v]
          PROVE  ahead'[u] \subseteq ahead'[v]
      <3>1. v \in w /\ u \in ahead[v] /\ u \in w
        BY <2>1, <2>4
      <3>2. ahead[u] \subseteq ahead[v]
        BY <3>1 DEF QueueInv
      <3>3. QED
        BY <2>1, <3>1, <3>2
    <2>5. ASSUME NEW u \in w, NEW v \in w
          PROVE  u = v \/ u \in ahead'[v] \/ v \in ahead'[u]
      <3>1. u = v \/ u \in ahead[v] \/ v \in ahead[u]
        BY DEF QueueInv
      <3>2. QED
        BY <2>1, <2>2, <3>1
    <2>6. QED
      BY <1>1, <2>3, <2>4, <2>5 DEF QueueInv
  <1>2. CASE LineKept
    BY <1>2 DEF LineKept, QueueInv
  <1>3. CASE LineCloses
    BY <1>3, <1>1 DEF LineCloses
  <1>4. CASE LineOffers
    <2>1. PICK count \in Int, w \in SUBSET waiting, o \in SUBSET offered,
               live \in SUBSET offerLive : OfferFreedSeats(count, w, o, live)
      BY <1>4 DEF LineOffers
    <2> DEFINE rest == w \ Promoted(count, w, live)
    <2>2. rest \in SUBSET waiting /\ waiting' = rest /\ ahead' = Line(rest)
      BY <2>1 DEF OfferFreedSeats
    <2> HIDE DEF rest
    <2>3. QED
      BY <2>2, <1>1
  <1>5. ASSUME NEW u \in Users, JoinWaitlist(u)
        PROVE  QueueInv'
    <2>1. /\ u \notin waiting /\ waiting' = waiting \cup {u}
          /\ \A v \in Users : ahead'[v] = IF v = u THEN waiting ELSE ahead[v]
      BY <1>5 DEF JoinWaitlist, TypeOK
    <2>2. QED
      BY <2>1 DEF QueueInv, TypeOK
  <1>6. QED
    BY <1>2, <1>3, <1>4, <1>5, QueueEffect

(* Who is ahead of somebody promoted is promoted as well. *)
LEMMA PromotedIsPrefix ==
  ASSUME TypeOK, QueueInv, NEW count \in Int, NEW w \in SUBSET waiting,
         NEW live \in SUBSET offerLive,
         NEW v \in Promoted(count, w, live), NEW u \in ahead[v] \cap w
  PROVE  u \in Promoted(count, w, live)
  <1>1. u \in Users /\ v \in Users /\ v \in w
    BY DEF TypeOK, Promoted
  <1>2. ahead[u] \cap w \subseteq ahead[v] \cap w
    BY <1>1 DEF QueueInv
  <1>3. IsFiniteSet(ahead[v] \cap w)
    BY UsersAssumption, FS_Subset DEF TypeOK
  <1>4. /\ Cardinality(ahead[u] \cap w) \in Nat /\ Cardinality(ahead[v] \cap w) \in Nat
        /\ Cardinality(ahead[u] \cap w) <= Cardinality(ahead[v] \cap w)
    BY <1>2, <1>3, FS_Subset, FS_CardinalityType
  <1>5. FreeSeats(count, live) \in Int
    <2>1. IsFiniteSet(held) /\ IsFiniteSet(live)
      BY UsersAssumption, BookingIdsAssumption, FS_Subset DEF TypeOK, Pending
    <2>2. QED
      BY <2>1, FS_CardinalityType, CapacityAssumption DEF FreeSeats
  <1>6. Cardinality(ahead[v] \cap w) < FreeSeats(count, live)
    BY DEF Promoted
  <1>7. QED
    BY <1>4, <1>5, <1>6 DEF Promoted

(* Seats are offered in the order in which people joined, whichever of the   *)
(* four transactions that offer seats does it.                               *)
THEOREM OffersFollowTheLine == Spec => OffersInOrder
  <1>1. Init => QueueInv
    BY DEF Init, QueueInv
  <1>2. TypeOK /\ QueueInv /\ [Next]_vars => QueueInv'
    BY QueueStep
  <1>3. TypeOK /\ QueueInv /\ [Next]_vars =>
          [\A u \in Users, v \in Users :
             (v \in offered' \ offered /\ u \in ahead[v]) => u \notin waiting']_vars
    <2> SUFFICES ASSUME TypeOK, QueueInv, [Next]_vars, NEW u \in Users, NEW v \in Users,
                        v \in offered' \ offered, u \in ahead[v]
                 PROVE  u \notin waiting'
      OBVIOUS
    <2>1. CASE LineKept \/ LineCloses
      BY <2>1 DEF LineKept, LineCloses
    <2>2. CASE \E x \in Users : JoinWaitlist(x)
      BY <2>2 DEF JoinWaitlist
    <2>3. CASE LineOffers
      <3>1. PICK count \in Int, w \in SUBSET waiting, o \in SUBSET offered,
                 live \in SUBSET offerLive : OfferFreedSeats(count, w, o, live)
        BY <2>3 DEF LineOffers
      <3>2. v \in Promoted(count, w, live)
        BY <3>1 DEF OfferFreedSeats
      <3>3. u \in w => u \in Promoted(count, w, live)
        BY <3>2, PromotedIsPrefix
      <3>4. QED
        BY <3>1, <3>3 DEF OfferFreedSeats
    <2>4. QED
      BY <2>1, <2>2, <2>3, QueueEffect
  <1>4. QED
    BY <1>1, <1>2, <1>3, TypeCorrect, PTL DEF Spec, OffersInOrder

-----------------------------------------------------------------------------
(* In a strict total order on W fewer than n + 1 elements have fewer than n  *)
(* predecessors, since no two have equally many.                            *)
LEMMA HeadsOfOrder ==
  ASSUME NEW W, IsFiniteSet(W), NEW before \in [W -> SUBSET W], NEW n \in Int,
         \A v \in W : v \notin before[v],
         \A u, v \in W : u \in before[v] => before[u] \subseteq before[v],
         \A u, v \in W : u = v \/ u \in before[v] \/ v \in before[u]
  PROVE  LET heads == {u \in W : Cardinality(before[u]) < n}
         IN  IsFiniteSet(heads) /\ (heads = {} \/ Cardinality(heads) <= n)
  <1> DEFINE heads == {u \in W : Cardinality(before[u]) < n}
  <1>1. IsFiniteSet(heads) /\ Cardinality(heads) \in Nat
    BY FS_Subset, FS_CardinalityType
  <1>2. \A u \in W : IsFiniteSet(before[u]) /\ Cardinality(before[u]) \in Nat
    BY FS_Subset, FS_CardinalityType
  <1>3. ASSUME NEW u \in W, NEW v \in W, u \in before[v]
        PROVE  Cardinality(before[u]) < Cardinality(before[v])
    <2>1. before[u] \cup {u} \subseteq before[v] /\ u \notin before[u]
      BY <1>3
    <2>2. Cardinality(before[u] \cup {u}) = Cardinality(before[u]) + 1
      BY <2>1, <1>2, FS_AddElement
    <2>3. Cardinality(before[u] \cup {u}) <= Cardinality(before[v])
      BY <2>1, <1>2, FS_Subset
    <2>4. QED
      BY <2>2, <2>3, <1>2
  <1>4. ASSUME heads # {}
        PROVE  Cardinality(heads) <= n
    <2>1. n > 0
      BY <1>2, <1>4
    <2>2. IsFiniteSet(0..(n - 1)) /\ Cardinality(0..(n - 1)) = n
      BY <2>1, FS_Interval
    <2> DEFINE rank == [u \in heads |-> Cardinality(before[u])]
    <2>3. rank \in [heads -> 0..(n - 1)]
      BY <1>2
    <2>4. ASSUME NEW u \in heads, NEW v \in heads, u # v
          PROVE  rank[u] # rank[v]
      BY <1>2, <1>3, <2>4
    <2> HIDE DEF rank, heads
    <2>5. ~ (Cardinality(0..(n - 1)) < Cardinality(heads))
      BY <1>1, <2>2, <2>3, <2>4, FS_PigeonHole
    <2>6. QED
      BY <1>1, <2>2, <2>5
  <1>5. QED
    BY <1>1, <1>4

(* So no more offers are made than there are free seats.                     *)
LEMMA PromotedFit ==
  ASSUME TypeOK, QueueInv, NEW count \in Int, NEW w \in SUBSET waiting,
         NEW live \in SUBSET offerLive
  PROVE  LET next == Promoted(count, w, live)
         IN  /\ IsFiniteSet(next)
             /\ next = {} \/ Cardinality(next) <= Capacity - count - Cardinality(live)
                                                   - Cardinality(held)
  <1> DEFINE before == [u \in w |-> ahead[u] \cap w]
             n == FreeSeats(count, live)
  <1>1. w \subseteq Users /\ IsFiniteSet(w)
    BY UsersAssumption, FS_Subset DEF TypeOK
  <1>2. /\ before \in [w -> SUBSET w]
        /\ \A v \in w : v \notin before[v]
    BY <1>1 DEF QueueInv
  <1>3. ASSUME NEW u \in w, NEW v \in w
        PROVE  /\ u \in before[v] => before[u] \subseteq before[v]
               /\ u = v \/ u \in before[v] \/ v \in before[u]
    BY <1>1, <1>3 DEF QueueInv
  <1>4. /\ n \in Int
        /\ n > 0 => n = Capacity - count - Cardinality(live) - Cardinality(held)
    <2>1. IsFiniteSet(held) /\ IsFiniteSet(live)
      BY UsersAssumption, BookingIdsAssumption, FS_Subset DEF TypeOK, Pending
    <2>2. QED
      BY <2>1, FS_CardinalityType, CapacityAssumption DEF FreeSeats
  <1>5. Promoted(count, w, live) = {u \in w : Cardinality(before[u]) < n}
    BY DEF Promoted
  <1> HIDE DEF before, n
  <1>6. LET heads == {u \in w : Cardinality(before[u]) < n}
        IN  IsFiniteSet(heads) /\ (heads = {} \/ Cardinality(heads) <= n)
    BY <1>1, <1>2, <1>3, <1>4, HeadsOfOrder
  <1>7. {u \in w : Cardinality(before[u]) < n} # {} => n > 0
    <2>1. ASSUME NEW u \in w
          PROVE  Cardinality(before[u]) \in Nat
      BY <1>1, <1>2, FS_Subset, FS_CardinalityType
    <2>2. QED
      BY <2>1, <1>4
  <1>8. QED
    BY <1>4, <1>5, <1>6, <1>7

(* The people who hold one of some bookings are no more than the bookings.   *)
Holders(H) == {Owner[b] : b \in H}

LEMMA HoldersBound ==
  ASSUME NEW H \in SUBSET BookingIds
  PROVE  /\ IsFiniteSet(H) /\ IsFiniteSet(Holders(H))
         /\ Cardinality(H) \in Nat /\ Cardinality(Holders(H)) \in Nat
         /\ Cardinality(Holders(H)) <= Cardinality(H)
  <1>1. IsFiniteSet(H)
    BY BookingIdsAssumption, FS_Subset
  <1> DEFINE f == [b \in H |-> Owner[b]]
  <1>2. f \in Surjection(H, Holders(H))
    BY DEF Surjection, Holders
  <1> HIDE DEF f
  <1>3. QED
    BY <1>1, <1>2, FS_Surjection, FS_CardinalityType

(* A union is no larger than its parts together.                             *)
LEMMA UnionBound ==
  ASSUME NEW S, NEW T, IsFiniteSet(S), IsFiniteSet(T)
  PROVE  /\ IsFiniteSet(S \cup T) /\ Cardinality(S \cup T) \in Nat
         /\ Cardinality(S \cup T) <= Cardinality(S) + Cardinality(T)
  <1>1. IsFiniteSet(S \cup T) /\ IsFiniteSet(S \cap T)
    BY FS_Union, FS_Intersection
  <1>2. Cardinality(S \cup T) = Cardinality(S) + Cardinality(T) - Cardinality(S \cap T)
    BY FS_Union
  <1>3. /\ Cardinality(S) \in Nat /\ Cardinality(T) \in Nat
        /\ Cardinality(S \cup T) \in Nat /\ Cardinality(S \cap T) \in Nat
    BY <1>1, FS_CardinalityType
  <1>4. QED
    BY <1>1, <1>2, <1>3

(* A participant row belongs to the person it is about.                      *)
RosterOwned == \A u \in Users : participant[u] # NoBooking => Owner[participant[u]] = u

(* The people other than u a seat may be promised to. *)
Others(u) == (offerLive \ {u}) \cup Holders({b \in held : Owner[b] # u})

(* ActiveHolds counts at least all of them.                                  *)
LEMMA OthersBound ==
  ASSUME TypeOK, NEW u \in Users
  PROVE  /\ IsFiniteSet(Others(u)) /\ Cardinality(Others(u)) \in Nat
         /\ ActiveHolds(u) \in Nat
         /\ Cardinality(Others(u)) <= ActiveHolds(u)
  <1> DEFINE H == {b \in held : Owner[b] # u}
             L == offerLive \ {u}
  <1>1. H \in SUBSET BookingIds
    BY DEF TypeOK, Pending
  <1>2. /\ IsFiniteSet(H) /\ IsFiniteSet(Holders(H))
        /\ Cardinality(H) \in Nat /\ Cardinality(Holders(H)) \in Nat
        /\ Cardinality(Holders(H)) <= Cardinality(H)
    BY <1>1, HoldersBound
  <1>3. IsFiniteSet(L) /\ Cardinality(L) \in Nat
    BY UsersAssumption, FS_Subset, FS_CardinalityType DEF TypeOK
  <1>4. Others(u) = L \cup Holders(H) /\ ActiveHolds(u) = Cardinality(L) + Cardinality(H)
    BY DEF Others, ActiveHolds
  <1> HIDE DEF H, L
  <1>5. /\ IsFiniteSet(L \cup Holders(H)) /\ Cardinality(L \cup Holders(H)) \in Nat
        /\ Cardinality(L \cup Holders(H)) <= Cardinality(L) + Cardinality(Holders(H))
    BY <1>2, <1>3, UnionBound
  <1>6. QED
    BY <1>2, <1>3, <1>4, <1>5

(* The promises are finitely many.                                           *)
LEMMA PromisedFinite ==
  /\ IsFiniteSet(PromisedTo) /\ Cardinality(PromisedTo) \in Nat
  BY UsersAssumption, FS_Subset, FS_CardinalityType DEF PromisedTo

(* A person with a promise has a live offer or holds a live booking.         *)
LEMMA PromisedAre ==
  ASSUME NEW u \in Users
  PROVE  /\ PromisedTo \subseteq Others(u) \cup {u}
         /\ PromisedTo \subseteq offerLive \cup Holders(held)
  <1>1. ASSUME NEW v \in PromisedTo
        PROVE  v \in offerLive \/ \E b \in held : Owner[b] = v
    BY <1>1 DEF PromisedTo, BookingsOf
  <1>2. QED
    BY <1>1 DEF Others, Holders

(* Fewer holds and offers make no new promises. *)
LEMMA PromisesShrink ==
  ASSUME held' \subseteq held, offerLive' \subseteq offerLive, participant' = participant
  PROVE  PromisedTo' \subseteq PromisedTo
  BY DEF PromisedTo, BookingsOf

LEMMA FewerPromises ==
  ASSUME TypeOK, PromisesFit, confirmedCount' = confirmedCount,
         held' \subseteq held, offerLive' \subseteq offerLive, participant' = participant
  PROVE  PromisesFit'
  <1>1. PromisedTo' \in SUBSET PromisedTo
    BY PromisesShrink
  <1>2. /\ Cardinality(PromisedTo') <= Cardinality(PromisedTo)
        /\ Cardinality(PromisedTo') \in Nat
    BY <1>1, PromisedFinite, FS_Subset, FS_CardinalityType
  <1>3. QED
    BY <1>2, PromisedFinite, CapacityAssumption DEF PromisesFit, TypeOK

(* Offers fit the seats that are free beside the promises there are; the     *)
(* people of X may lose the seat they had.                                   *)
LEMMA OffersFit ==
  ASSUME TypeOK, QueueInv, NEW count \in Int, NEW w \in SUBSET waiting, NEW o,
         NEW live \in SUBSET offerLive, OfferFreedSeats(count, w, o, live),
         NEW X, IsFiniteSet(X), count + Cardinality(PromisedTo \cup X) <= Capacity,
         held' = held, confirmedCount' = count,
         \A v \in Users \ X : participant'[v] = participant[v]
  PROVE  PromisesFit'
  <1> DEFINE next == Promoted(count, w, live)
             free == Capacity - count - Cardinality(live) - Cardinality(held)
  <1>1. IsFiniteSet(next) /\ (next = {} \/ Cardinality(next) <= free)
    BY PromotedFit
  <1>2. offerLive' = live \cup next
    BY DEF OfferFreedSeats
  <1> HIDE DEF next
  <1>3. CASE next = {}
    <2>1. PromisedTo' \in SUBSET (PromisedTo \cup X)
      BY <1>2, <1>3 DEF PromisedTo, BookingsOf
    <2>2. IsFiniteSet(PromisedTo \cup X)
      BY PromisedFinite, FS_Union
    <2>3. /\ Cardinality(PromisedTo') <= Cardinality(PromisedTo \cup X)
          /\ Cardinality(PromisedTo') \in Nat /\ Cardinality(PromisedTo \cup X) \in Nat
      BY <2>1, <2>2, FS_Subset, FS_CardinalityType
    <2>4. QED
      BY <2>3, CapacityAssumption DEF PromisesFit
  <1>4. CASE Cardinality(next) <= free
    <2>1. /\ IsFiniteSet(held) /\ IsFiniteSet(Holders(held))
          /\ Cardinality(held) \in Nat /\ Cardinality(Holders(held)) \in Nat
          /\ Cardinality(Holders(held)) <= Cardinality(held)
      <3>1. held \in SUBSET BookingIds
        BY DEF TypeOK, Pending
      <3>2. QED
        BY <3>1, HoldersBound
    <2>2. IsFiniteSet(live) /\ Cardinality(live) \in Nat /\ Cardinality(next) \in Nat
      BY <1>1, UsersAssumption, FS_Subset, FS_CardinalityType DEF TypeOK
    <2>3. /\ IsFiniteSet(live \cup next) /\ Cardinality(live \cup next) \in Nat
          /\ Cardinality(live \cup next) <= Cardinality(live) + Cardinality(next)
      BY <1>1, <2>2, UnionBound
    <2>4. LET all == (live \cup next) \cup Holders(held)
          IN  /\ IsFiniteSet(all) /\ Cardinality(all) \in Nat
              /\ Cardinality(all) <= Cardinality(live \cup next) + Cardinality(Holders(held))
      BY <2>1, <2>3, UnionBound
    <2>5. PromisedTo' \in SUBSET ((live \cup next) \cup Holders(held))
      BY <1>2 DEF PromisedTo, BookingsOf, Holders
    <2>6. /\ Cardinality(PromisedTo') \in Nat
          /\ Cardinality(PromisedTo') <= Cardinality((live \cup next) \cup Holders(held))
      BY <2>4, <2>5, FS_Subset, FS_CardinalityType
    <2>7. QED
      BY <1>4, <2>1, <2>2, <2>3, <2>4, <2>6, CapacityAssumption DEF PromisesFit
  <1>5. QED
    BY <1>1, <1>3, <1>4

(* A transaction that seats u or starts a hold of u has tested that there is *)
(* room beside the promises to the others.                                   *)
LEMMA TakenFits ==
  ASSUME TypeOK, NEW u \in Users, confirmedCount + ActiveHolds(u) < Capacity,
         \/ confirmedCount' = confirmedCount /\ PromisedTo' \subseteq Others(u) \cup {u}
         \/ confirmedCount' = confirmedCount + 1 /\ PromisedTo' \subseteq Others(u)
  PROVE  PromisesFit'
  <1>1. /\ IsFiniteSet(Others(u)) /\ Cardinality(Others(u)) \in Nat
        /\ ActiveHolds(u) \in Nat
        /\ Cardinality(Others(u)) <= ActiveHolds(u)
    BY OthersBound
  <1>2. /\ IsFiniteSet(Others(u) \cup {u}) /\ Cardinality(Others(u) \cup {u}) \in Nat
        /\ Cardinality(Others(u) \cup {u}) <= Cardinality(Others(u)) + 1
    BY <1>1, FS_Singleton, UnionBound
  <1>3. CASE confirmedCount' = confirmedCount /\ PromisedTo' \subseteq Others(u) \cup {u}
    <2>1. /\ Cardinality(PromisedTo') \in Nat
          /\ Cardinality(PromisedTo') <= Cardinality(Others(u) \cup {u})
      BY <1>2, <1>3, FS_Subset, FS_CardinalityType
    <2>2. QED
      BY <1>1, <1>2, <1>3, <2>1, CapacityAssumption DEF PromisesFit, TypeOK
  <1>4. CASE confirmedCount' = confirmedCount + 1 /\ PromisedTo' \subseteq Others(u)
    <2>1. /\ Cardinality(PromisedTo') \in Nat
          /\ Cardinality(PromisedTo') <= Cardinality(Others(u))
      BY <1>1, <1>4, FS_Subset, FS_CardinalityType
    <2>2. QED
      BY <1>1, <1>4, <2>1, CapacityAssumption DEF PromisesFit, TypeOK
  <1>5. QED
    BY <1>3, <1>4

-----------------------------------------------------------------------------
(* No admin override takes a seat away: that would leave the guest on the    *)
(* roster, which the override does not touch.                                *)
SeatedOverrides == AdminStatuses \subseteq SeatedStatuses

(* What a step may do to the roster: nothing, and then it takes no seat away *)
(* either; enter the owner of a booking it seats; or take off whoever is on  *)
(* it with the booking it cancels.                                           *)
RosterKept == participant' = participant /\ (SeatedOverrides => Seated \subseteq Seated')
RosterEntered(b) ==
  participant' = [participant EXCEPT ![Owner[b]] = b] /\ Seated \cup {b} \subseteq Seated'
RosterLeft(b) == LeaveRoster(b) /\ Seated \ {b} \subseteq Seated'

(* Every step has one of these effects. *)
LEMMA RosterEffect ==
  ASSUME TypeOK, [Next]_vars
  PROVE  RosterKept \/ \E b \in BookingIds : RosterEntered(b) \/ RosterLeft(b)
  <1> DEFINE Effect == RosterKept \/ \E b \in BookingIds : RosterEntered(b) \/ RosterLeft(b)
  <1> USE DEF Seated, SeatedStatuses
  <1>1. ASSUME NEW b \in BookingIds, status' = [status EXCEPT ![b] = "confirmed"],
               SeatConfirmedBooking(b)
        PROVE  Effect
    <2>1. RosterEntered(b)
      BY <1>1 DEF RosterEntered, SeatConfirmedBooking, TypeOK
    <2>2. QED
      BY <2>1
  <1>2. ASSUME UNCHANGED <<status, participant>>
        PROVE  RosterKept
    BY <1>2 DEF RosterKept
  <1>3. ASSUME NEW u \in Users, UserStep(u)
        PROVE  Effect
    <2>1. ASSUME NEW b \in BookingIds, CreatePaid(u, b)
          PROVE  RosterKept
      BY <2>1 DEF CreatePaid, RosterKept, Pending, TypeOK
    <2>2. ASSUME NEW b \in BookingIds, CreateFree(u, b)
          PROVE  Effect
      BY <2>2, <1>1 DEF CreateFree
    <2>3. QED
      BY <1>2, <1>3, <2>1, <2>2 DEF UserStep, JoinWaitlist, LeaveWaitlist, OfferLapses
  <1>4. ASSUME NEW c \in Callers, ConfirmStep(c)
        PROVE  Effect
    <2>1. CASE ConfirmSeat(c)
      <3>1. target[c] \in BookingIds
        BY <2>1 DEF ConfirmSeat, TypeOK
      <3>2. QED
        BY <2>1, <3>1, <1>1 DEF ConfirmSeat
    <2>2. CASE ConfirmFull(c) \/ ConfirmAbort(c) \/ \E b \in BookingIds : ConfirmRead(c, b)
      BY <2>2, <1>2 DEF ConfirmFull, ConfirmAbort, ConfirmRead
    <2>3. QED
      BY <1>4, <2>1, <2>2 DEF ConfirmStep
  <1>5. ASSUME NEW b \in BookingIds, NEW byHost \in BOOLEAN, Cancel(b, byHost)
        PROVE  Effect
    <2>1. CASE ReleaseHold(b)
      BY <2>1 DEF ReleaseHold, RosterKept, TypeOK
    <2>2. CASE ReleaseSeat(b, byHost)
      <3>1. RosterLeft(b)
        BY <2>2 DEF ReleaseSeat, RosterLeft, TypeOK
      <3>2. QED
        BY <3>1
    <2>3. QED
      BY <1>5, <2>1, <2>2 DEF Cancel
  <1>6. ASSUME NEW b \in BookingIds, BookingStep(b)
        PROVE  Effect
    <2>1. CASE CheckIn(b)
      BY <2>1 DEF CheckIn, RosterKept, TypeOK
    <2>2. ASSUME NEW s \in AdminStatuses, OverrideBookingStatus(b, s)
          PROVE  RosterKept
      BY <2>2 DEF OverrideBookingStatus, RosterKept, SeatedOverrides, TypeOK
    <2>3. QED
      BY <1>2, <1>5, <1>6, <2>1, <2>2 DEF BookingStep, CancelBookingAsUser, HoldLapses
  <1>7. CASE FanoutStep
    BY <1>2, <1>5, <1>7 DEF FanoutStep, FanoutExpireWaitlist, FanoutList, FanoutDone,
       FanoutCancel, FanoutRetry
  <1>8. CASE PlanStep
    <2>1. CASE MarkNoShows
      BY <2>1 DEF MarkNoShows, Confirmed, RosterKept, TypeOK
    <2>2. QED
      BY <1>2, <1>8, <2>1 DEF PlanStep, CancelPlan, CompleteEndedPlan, NextPhase
  <1>9. CASE WorkerStep
    <2>1. CASE ExpirePending
      BY <2>1 DEF ExpirePending, Lapsed, Pending, RosterKept, TypeOK
    <2>2. QED
      BY <1>2, <1>9, <2>1 DEF WorkerStep, SweepExpire, SweepOffer, WorkerCrash
  <1>10. CASE UNCHANGED vars
    BY <1>2, <1>10 DEF vars
  <1>11. QED
    BY <1>3, <1>4, <1>6, <1>7, <1>8, <1>9, <1>10 DEF Next

(* The roster and the bookings agree: nobody is on the roster with a booking *)
(* that has lost its seat, however confirmations and cancellations overlap.  *)
THEOREM RosterMatchesSeats ==
  ASSUME SeatedOverrides
  PROVE  Spec => []RosterHasSeats
  <1>1. Init => RosterHasSeats
    BY DEF Init, RosterHasSeats
  <1>2. TypeOK /\ RosterHasSeats /\ [Next]_vars => RosterHasSeats'
    <2> SUFFICES ASSUME TypeOK, RosterHasSeats, [Next]_vars, NEW u \in Users,
                        participant'[u] # NoBooking
                 PROVE  participant'[u] \in BookingsOf(u) /\ participant'[u] \in Seated'
      BY DEF RosterHasSeats, BookingsOf
    <2>1. CASE RosterKept
      BY <2>1 DEF RosterKept, RosterHasSeats
    <2>2. ASSUME NEW b \in BookingIds, RosterEntered(b)
          PROVE  participant'[u] \in BookingsOf(u) /\ participant'[u] \in Seated'
      BY <2>2, OwnerAssumption DEF RosterEntered, RosterHasSeats, BookingsOf, TypeOK
    <2>3. ASSUME NEW b \in BookingIds, RosterLeft(b)
          PROVE  participant'[u] \in BookingsOf(u) /\ participant'[u] \in Seated'
      <3>1. participant[u] # b /\ participant'[u] = participant[u]
        BY <2>3 DEF RosterLeft, LeaveRoster, TypeOK
      <3>2. QED
        BY <2>3, <3>1 DEF RosterLeft, RosterHasSeats
    <2>4. QED
      BY <2>1, <2>2, <2>3, RosterEffect
  <1>3. QED
    BY <1>1, <1>2, TypeCorrect, PTL DEF Spec

(* Whatever the overrides, a participant row belongs to its person. *)
LEMMA RosterOwnedStep ==
  ASSUME TypeOK, RosterOwned, [Next]_vars
  PROVE  RosterOwned'
  <1> SUFFICES ASSUME NEW u \in Users, participant'[u] # NoBooking
               PROVE  Owner[participant'[u]] = u
    BY DEF RosterOwned
  <1>1. CASE RosterKept
    BY <1>1 DEF RosterKept, RosterOwned
  <1>2. ASSUME NEW b \in BookingIds, RosterEntered(b)
        PROVE  Owner[participant'[u]] = u
    BY <1>2, OwnerAssumption DEF RosterEntered, RosterOwned, TypeOK
  <1>3. ASSUME NEW b \in BookingIds, RosterLeft(b)
        PROVE  Owner[participant'[u]] = u
    BY <1>3 DEF RosterLeft, LeaveRoster, RosterOwned, TypeOK
  <1>4. QED
    BY <1>1, <1>2, <1>3, RosterEffect

-----------------------------------------------------------------------------
(* Every step keeps the promises within the seats.                           *)
LEMMA PromisesStep ==
  ASSUME TypeOK, QueueInv, RosterOwned, PromisesFit, [Next]_vars
  PROVE  PromisesFit'
  <1> USE DEF TypeOK
  <1>0. confirmedCount \in Int /\ Cardinality(PromisedTo) \in Nat /\ IsFiniteSet(PromisedTo)
    BY PromisedFinite
  <1> USE PromisedFinite
  <1>1. ASSUME NEW b \in BookingIds, NEW u \in Users, u = Owner[b],
               confirmedCount + ActiveHolds(u) < Capacity,
               SeatConfirmedBooking(b), held' \subseteq held
        PROVE  PromisesFit'
    <2>1. PromisedTo' \subseteq Others(u)
      <3>1. participant'[u] = b /\ b # NoBooking
        BY <1>1, BookingIdsAssumption DEF SeatConfirmedBooking
      <3>2. offerLive' \subseteq offerLive
        BY <1>1 DEF SeatConfirmedBooking, LeaveLine
      <3>3. PromisedTo' \subseteq (offerLive \cup Holders(held)) \ {u}
        BY <1>1, <3>1, <3>2 DEF PromisedTo, BookingsOf, Holders
      <3>4. QED
        BY <3>3 DEF Others, Holders
    <2>2. confirmedCount' = confirmedCount + 1
      BY <1>1 DEF SeatConfirmedBooking
    <2>3. QED
      BY <1>1, <2>1, <2>2, TakenFits
  <1>2. ASSUME NEW u \in Users, UserStep(u)
        PROVE  PromisesFit'
    <2>1. ASSUME NEW b \in BookingIds, CreatePaid(u, b)
          PROVE  PromisesFit'
      <3>1. PromisedTo' \subseteq Others(u) \cup {u}
        BY <2>1 DEF CreatePaid, PromisedTo, BookingsOf, Others, Holders, waitlist
      <3>2. confirmedCount' = confirmedCount /\ confirmedCount + ActiveHolds(u) < Capacity
        BY <2>1 DEF CreatePaid, CanCreate
      <3>3. QED
        BY <3>1, <3>2, TakenFits
    <2>2. ASSUME NEW b \in BookingIds, CreateFree(u, b)
          PROVE  PromisesFit'
      BY <2>2, <1>1 DEF CreateFree, CanCreate, BookingsOf
    <2>3. CASE JoinWaitlist(u) \/ OfferLapses(u)
      BY <2>3, FewerPromises DEF JoinWaitlist, OfferLapses
    <2>4. CASE LeaveWaitlist(u)
      <3>1. /\ waiting \ {u} \in SUBSET waiting /\ offerLive \ {u} \in SUBSET offerLive
            /\ OfferFreedSeats(confirmedCount, waiting \ {u}, offered \ {u}, offerLive \ {u})
            /\ held' = held /\ confirmedCount' = confirmedCount /\ participant' = participant
        BY <2>4 DEF LeaveWaitlist
      <3>2. IsFiniteSet({}) /\ PromisedTo \cup {} = PromisedTo
        BY FS_EmptySet
      <3>3. QED
        BY <1>0, <3>1, <3>2, OffersFit DEF PromisesFit
    <2>5. QED
      BY <1>2, <2>1, <2>2, <2>3, <2>4 DEF UserStep
  <1>3. ASSUME NEW c \in Callers, ConfirmStep(c)
        PROVE  PromisesFit'
    <2>1. CASE ConfirmSeat(c)
      <3>1. target[c] \in BookingIds /\ Owner[target[c]] \in Users
        BY <2>1, OwnerAssumption DEF ConfirmSeat
      <3>2. QED
        BY <2>1, <3>1, <1>1 DEF ConfirmSeat, SeatFor
    <2>2. CASE ConfirmFull(c) \/ ConfirmAbort(c) \/ \E b \in BookingIds : ConfirmRead(c, b)
      BY <2>2, FewerPromises DEF ConfirmFull, ConfirmAbort, ConfirmRead, waitlist
    <2>3. QED
      BY <1>3, <2>1, <2>2 DEF ConfirmStep
  <1>4. ASSUME NEW b \in BookingIds, NEW byHost \in BOOLEAN, Cancel(b, byHost)
        PROVE  PromisesFit'
    <2>1. CASE ReleaseHold(b)
      BY <2>1, FewerPromises DEF ReleaseHold, waitlist
    <2>2. CASE ReleaseSeat(b, byHost)
      <3> DEFINE X == {Owner[b]}
      <3>1. /\ confirmedCount - 1 \in Int /\ waiting \in SUBSET waiting
            /\ offerLive \in SUBSET offerLive
            /\ OfferFreedSeats(confirmedCount - 1, waiting, offered, offerLive)
            /\ held' = held /\ confirmedCount' = confirmedCount - 1
        BY <2>2 DEF ReleaseSeat
      <3>2. \A v \in Users \ X : participant'[v] = participant[v]
        BY <2>2, BookingIdsAssumption DEF ReleaseSeat, LeaveRoster, RosterOwned
      <3>3. IsFiniteSet(X) /\ Cardinality(PromisedTo \cup X) \in Nat
            /\ Cardinality(PromisedTo \cup X) <= Cardinality(PromisedTo) + 1
        BY FS_Singleton, UnionBound
      <3>4. confirmedCount - 1 + Cardinality(PromisedTo \cup X) <= Capacity
        BY <1>0, <3>3, CapacityAssumption DEF PromisesFit
      <3> HIDE DEF X
      <3>5. QED
        BY <3>1, <3>2, <3>3, <3>4, OffersFit
    <2>3. QED
      BY <1>4, <2>1, <2>2 DEF Cancel
  <1>5. ASSUME NEW b \in BookingIds, BookingStep(b)
        PROVE  PromisesFit'
    BY <1>4, <1>5, FewerPromises DEF BookingStep, CancelBookingAsUser, CheckIn,
       OverrideBookingStatus, HoldLapses, waitlist
  <1>6. CASE FanoutStep
    <2>1. ASSUME NEW b \in BookingIds, FanoutCancel(b) \/ FanoutRetry(b)
          PROVE  PromisesFit'
      BY <2>1, <1>4, FewerPromises DEF FanoutCancel, FanoutRetry, waitlist
    <2>2. CASE FanoutExpireWaitlist \/ FanoutList \/ FanoutDone
      BY <2>2, FewerPromises DEF FanoutExpireWaitlist, FanoutList, FanoutDone, LeaveLine,
         waitlist
    <2>3. QED
      BY <1>6, <2>1, <2>2 DEF FanoutStep
  <1>7. CASE PlanStep
    BY <1>7, FewerPromises DEF PlanStep, CancelPlan, CompleteEndedPlan, MarkNoShows,
       NextPhase, waitlist
  <1>8. CASE WorkerStep
    <2>1. ASSUME NEW w \in Workers, SweepOffer(w)
          PROVE  PromisesFit'
      <3>1. /\ waiting \in SUBSET waiting /\ offerLive \in SUBSET offerLive
            /\ OfferFreedSeats(confirmedCount, waiting, offered, offerLive)
            /\ held' = held /\ confirmedCount' = confirmedCount /\ participant' = participant
        BY <2>1 DEF SweepOffer
      <3>2. IsFiniteSet({}) /\ PromisedTo \cup {} = PromisedTo
        BY FS_EmptySet
      <3>3. QED
        BY <1>0, <3>1, <3>2, OffersFit DEF PromisesFit
    <2>2. ASSUME NEW w \in Workers, SweepExpire(w)
          PROVE  PromisesFit'
      BY <2>2, FewerPromises DEF SweepExpire
    <2>3. CASE ExpirePending \/ WorkerCrash
      BY <2>3, FewerPromises DEF ExpirePending, WorkerCrash, waitlist
    <2>4. QED
      BY <1>8, <2>1, <2>2, <2>3 DEF WorkerStep
  <1>9. CASE UNCHANGED vars
    BY <1>9, FewerPromises DEF vars, waitlist
  <1>10. QED
    BY <1>2, <1>3, <1>5, <1>6, <1>7, <1>8, <1>9 DEF Next

(* Every live offer and every live hold has a seat behind it, whatever lapses, *)
(* confirmations, cancellations and offers interleave, and whatever an admin  *)
(* writes into a status.                                                      *)
THEOREM PromisesHaveSeats == Spec => []PromisesFit
  <1>1. Init => QueueInv /\ RosterOwned /\ PromisesFit
    <2> SUFFICES ASSUME Init PROVE QueueInv /\ RosterOwned /\ PromisesFit
      OBVIOUS
    <2>1. PromisedTo = {}
      BY DEF Init, PromisedTo
    <2>2. QED
      BY <2>1, FS_EmptySet, CapacityAssumption DEF Init, QueueInv, RosterOwned, PromisesFit
  <1>2. /\ TypeOK /\ QueueInv /\ [Next]_vars => QueueInv'
        /\ TypeOK /\ RosterOwned /\ [Next]_vars => RosterOwned'
        /\ TypeOK /\ QueueInv /\ RosterOwned /\ PromisesFit /\ [Next]_vars => PromisesFit'
    BY QueueStep, RosterOwnedStep, PromisesStep
  <1>3. QED
    BY <1>1, <1>2, TypeCorrect, PTL DEF Spec

-----------------------------------------------------------------------------
(* On a free plan, whose bookings nobody confirms a second time, a booking   *)
(* that was checked in keeps the status of the door, or is refunded.         *)
CheckedInStay ==
  /\ \A c \in Callers : target[c] = NoBooking
  /\ \A b \in checkins : status[b] \in {"attended", "refunded"}

(* Nobody who was checked in is recorded as a no-show, by the job or by a    *)
(* cancellation that overlaps it.                                            *)
THEOREM NoShowsWereAbsent ==
  ASSUME ~Priced, "no_show" \notin AdminStatuses
  PROVE  Spec => []NoShowWasAbsent
  <1>1. Init => CheckedInStay
    BY DEF Init, CheckedInStay
  <1>2. TypeOK /\ CheckedInStay /\ [Next]_vars => CheckedInStay'
    <2> SUFFICES ASSUME TypeOK, CheckedInStay, [Next]_vars PROVE CheckedInStay'
      OBVIOUS
    <2> USE DEF TypeOK, CheckedInStay
    <2>1. ASSUME NEW u \in Users, UserStep(u)
          PROVE  CheckedInStay'
      BY <2>1 DEF UserStep, CreatePaid, CreateFree, JoinWaitlist, LeaveWaitlist, OfferLapses
    <2>2. ASSUME NEW c \in Callers, ConfirmStep(c)
          PROVE  CheckedInStay'
      BY <2>2 DEF ConfirmStep, ConfirmRead, ConfirmSeat, ConfirmFull, ConfirmAbort
    <2>3. ASSUME NEW b \in BookingIds, NEW byHost \in BOOLEAN, Cancel(b, byHost),
                 UNCHANGED <<checkins, target>>
          PROVE  CheckedInStay'
      BY <2>3 DEF Cancel, ReleaseHold, ReleaseSeat
    <2>4. ASSUME NEW b \in BookingIds, BookingStep(b)
          PROVE  CheckedInStay'
      <3>1. ASSUME NEW s \in AdminStatuses, OverrideBookingStatus(b, s)
            PROVE  CheckedInStay'
        BY <3>1, AdminAssumption DEF OverrideBookingStatus
      <3>2. QED
        BY <2>3, <2>4, <3>1 DEF BookingStep, CancelBookingAsUser, CheckIn, HoldLapses
    <2>5. CASE FanoutStep
      BY <2>3, <2>5 DEF FanoutStep, FanoutExpireWaitlist, FanoutList, FanoutDone,
         FanoutCancel, FanoutRetry
    <2>6. CASE PlanStep
      BY <2>6 DEF PlanStep, CancelPlan, CompleteEndedPlan, MarkNoShows, NextPhase, Confirmed
    <2>7. CASE WorkerStep
      BY <2>7 DEF WorkerStep, ExpirePending, Lapsed, Pending, SweepExpire, SweepOffer,
         WorkerCrash
    <2>8. CASE UNCHANGED vars
      BY <2>8 DEF vars
    <2>9. QED
      BY <2>1, <2>2, <2>4, <2>5, <2>6, <2>7, <2>8 DEF Next
  <1>3. TypeOK /\ CheckedInStay => NoShowWasAbsent
    BY DEF CheckedInStay, NoShowWasAbsent
  <1>4. QED
    BY <1>1, <1>2, <1>3, TypeCorrect, PTL DEF Spec

-----------------------------------------------------------------------------
(* The composition with the payment path. *)

Stages == {"idle", "confirm", "again", "verify", "covered", "refund"}

(* Whoever reports a payment reports one of the orders. *)
ReportsAnOrder ==
  /\ stage \in [Callers -> Stages]
  /\ order \in [Callers -> Orders \cup {NoOrder}]
  /\ made \in [Buyers -> Orders \cup {NoOrder}]
  /\ \A c \in Callers : stage[c] # "idle" => order[c] \in Orders

LEMMA ReportsAnOrderInit == PaidInit => ReportsAnOrder
  BY DEF PaidInit, ReportsAnOrder, Stages

LEMMA ReportsAnOrderStep ==
  ASSUME ReportsAnOrder, [PaidNext]_allVars
  PROVE  ReportsAnOrder'
  <1>1. ASSUME NEW c \in Callers, Finish(c), made' = made
        PROVE  ReportsAnOrder'
    BY <1>1 DEF Finish, ReportsAnOrder, Stages
  <1>2. ASSUME UNCHANGED <<calls, made>>
        PROVE  ReportsAnOrder'
    BY <1>2 DEF calls, ReportsAnOrder
  <1>3. ASSUME NEW c \in Callers, NEW o \in Orders,
               ReportPayment(c, o) \/ VerifyPaidOrder(c, o)
        PROVE  ReportsAnOrder'
    BY <1>3 DEF ReportPayment, VerifyPaidOrder, ReportsAnOrder, Stages, buyers
  <1>4. ASSUME NEW c \in Callers, ReportFindsFull(c)
        PROVE  ReportsAnOrder'
    <2>1. CASE stage[c] \in {"confirm", "again"}
      BY <1>4, <2>1 DEF ReportFindsFull, ReportsAnOrder, Stages, buyers
    <2>2. CASE stage[c] \notin {"confirm", "again"}
      BY <1>1, <1>4, <2>2 DEF ReportFindsFull, buyers
    <2>3. QED
      BY <2>1, <2>2
  <1>5. ASSUME NEW c \in Callers, ReportReads(c)
        PROVE  ReportsAnOrder'
    BY <1>2, <1>5 DEF ReportReads, payments, buyers
  <1>6. ASSUME NEW c \in Callers,
               ReportStops(c) \/ ReportSeats(c) \/ ReportRefunds(c) \/ ReportDies(c)
        PROVE  ReportsAnOrder'
    BY <1>1, <1>6 DEF ReportStops, ReportSeats, ReportRefunds, ReportDies, buyers
  <1>7. ASSUME NEW c \in Callers, ReportStep(c)
        PROVE  ReportsAnOrder'
    BY <1>3, <1>4, <1>5, <1>6, <1>7 DEF ReportStep, ReportProgress
  <1>8. CASE BookingMoves \/ UNCHANGED allVars
    BY <1>2, <1>8 DEF BookingMoves, allVars, payments, buyers
  <1>9. ASSUME NEW k \in Buyers, NEW o \in Orders, OpenOrder(k, o) \/ OpenCovered(k, o)
        PROVE  ReportsAnOrder'
    BY <1>9 DEF OpenOrder, OpenCovered, InsertOrder, ReportsAnOrder, calls
  <1>10. ASSUME NEW k \in Buyers, NEW c \in Callers, MarkOrderPaid(k, c)
         PROVE  ReportsAnOrder'
    BY <1>10 DEF MarkOrderPaid, ReportsAnOrder, Stages
  <1>11. ASSUME NEW k \in Buyers, BuyerDies(k)
         PROVE  ReportsAnOrder'
    BY <1>11 DEF BuyerDies, ReportsAnOrder, calls
  <1>12. CASE OrderStep
    BY <1>2, <1>9, <1>10, <1>11, <1>12 DEF OrderStep, BeginOrder, OrderFails,
       CustomerPays, buyers
  <1>13. ASSUME NEW b \in BookingIds, CancelStep(b)
         PROVE  ReportsAnOrder'
    BY <1>2, <1>13 DEF CancelStep, GuestCancels, HostCancels, Announce, RefundCancelled,
       RefundUnacknowledged, RefundNewest, buyers
  <1>14. CASE PaymentJobs
    BY <1>2, <1>14 DEF PaymentJobs, ReconcileOrder, ReleaseAbandonedOrders, buyers
  <1>15. QED
    BY <1>7, <1>8, <1>12, <1>13, <1>14 DEF PaidNext

(* Refinement: the payment path reaches the seats only through the actions  *)
(* of the booking component.                                                *)
THEOREM PaymentsRespectBookings == PaidSpec => BookingsRespected
  <1>1. PaidInit => Init
    BY DEF PaidInit
  <1>2. ReportsAnOrder /\ [PaidNext]_allVars => [Next]_vars
    <2> SUFFICES ASSUME ReportsAnOrder, [PaidNext]_allVars PROVE [Next]_vars
      OBVIOUS
    <2>1. ASSUME NEW c \in Callers, ReportReads(c)
          PROVE  Next
      <3>1. OrderOf[order[c]] \in BookingIds
        BY <2>1, OrdersAssumption DEF ReportReads, Confirming, ReportsAnOrder
      <3>2. QED
        BY <2>1, <3>1 DEF ReportReads, Next, ConfirmStep
    <2>2. ASSUME NEW c \in Callers, ReportSeats(c) \/ ReportFindsFull(c) \/ ReportDies(c)
          PROVE  [Next]_vars
      BY <2>2 DEF ReportSeats, ReportFindsFull, ReportDies, Next, ConfirmStep
    <2>3. ASSUME NEW c \in Callers, ReportStep(c)
          PROVE  [Next]_vars
      BY <2>1, <2>2, <2>3 DEF ReportStep, ReportProgress, ReportPayment,
         VerifyPaidOrder, ReportStops, ReportRefunds
    <2>4. CASE BookingMoves
      BY <2>4 DEF BookingMoves, BookingAlone, Next, UserStep, BookingStep,
         WorkerStep, PlanStep, FanoutStep
    <2>5. CASE OrderStep
      BY <2>5 DEF OrderStep, BeginOrder, OpenOrder, OpenCovered, InsertOrder,
         MarkOrderPaid, OrderFails, BuyerDies, CustomerPays
    <2>6. ASSUME NEW b \in BookingIds, CancelStep(b)
          PROVE  [Next]_vars
      BY <2>6 DEF CancelStep, GuestCancels, HostCancels, RefundCancelled,
         RefundUnacknowledged, RefundNewest, Next, BookingStep, FanoutStep
    <2>7. CASE PaymentJobs
      BY <2>7 DEF PaymentJobs, ReconcileOrder, ReleaseAbandonedOrders
    <2>8. CASE UNCHANGED allVars
      BY <2>8 DEF allVars
    <2>9. QED
      BY <2>3, <2>4, <2>5, <2>6, <2>7, <2>8 DEF PaidNext
  <1>3. QED
    BY <1>1, <1>2, ReportsAnOrderInit, ReportsAnOrderStep, PTL
       DEF PaidSpec, BookingsRespected, Spec

(* No overbooking with payments: late, repeated and racing payment reports  *)
(* never take a seat the plan does not have.                                *)
THEOREM PaidSeatsWithinCapacity ==
  ASSUME NeutralOverrides
  PROVE  PaidSpec => []NoOverbooking
  BY PaymentsRespectBookings, SeatsWithinCapacity, PTL DEF BookingsRespected

(* Nor is a seat promised twice: the live holds and offers keep fitting the *)
(* plan while payments race.                                                *)
THEOREM PaidPromisesHaveSeats == PaidSpec => []PromisesFit
  BY PaymentsRespectBookings, PromisesHaveSeats, PTL DEF BookingsRespected

-----------------------------------------------------------------------------
(* The columns orders and payments are kept in.  A covered order waits for  *)
(* the one buyer that made it, and nobody can pay it at the gateway.        *)
CaptureInv ==
  /\ orderStatus \in [Orders -> {"none", "created", "cancelled", "paid"}]
  /\ captured \subseteq Orders /\ covered \subseteq Orders
  /\ made \in [Buyers -> Orders \cup {NoOrder}]
  /\ \A k \in Buyers : made[k] # NoOrder =>
       made[k] \in covered /\ orderStatus[made[k]] \in {"created", "cancelled"}
  /\ \A j, k \in Buyers : made[k] # NoOrder /\ made[j] = made[k] => j = k
  /\ \A o \in covered : orderStatus[o] # "none"
  /\ paidAt \subseteq Orders
  /\ \A o \in paidAt : o \notin covered /\ orderStatus[o] # "none"
  /\ CapturedOrdersArePaid

(* Closing unpaid orders leaves the paid ones as they are. *)
LEMMA CloseUnpaidKeepsPaid ==
  ASSUME CaptureInv, NEW os, CloseUnpaid(os), UNCHANGED <<captured, covered, made, paidAt>>
  PROVE  CaptureInv'
  BY OrdersAssumption DEF CloseUnpaid, CaptureInv, CapturedOrdersArePaid

(* Recording a payment, for the first time or again, marks its order. *)
LEMMA CaptureMarksPaid ==
  ASSUME CaptureInv, NEW o \in paidAt, Capture(o), UNCHANGED <<covered, made, paidAt>>
  PROVE  CaptureInv'
  <1>1. CASE o \in captured
    BY <1>1 DEF Capture, CaptureInv, CapturedOrdersArePaid
  <1>2. CASE o \notin captured
    <2>1. /\ o \in Orders /\ o \notin covered
          /\ orderStatus' = [orderStatus EXCEPT ![o] = "paid"]
          /\ captured' = captured \cup {o}
      BY <1>2 DEF Capture, CaptureInv
    <2>2. QED
      BY <2>1 DEF CaptureInv, CapturedOrdersArePaid
  <1>3. QED
    BY <1>1, <1>2

LEMMA CaptureInvStep ==
  ASSUME CaptureInv, [PaidNext]_allVars
  PROVE  CaptureInv'
  <1>1. ASSUME UNCHANGED <<orderStatus, captured, covered, made, paidAt>>
        PROVE  CaptureInv'
    BY <1>1 DEF CaptureInv, CapturedOrdersArePaid
  <1>2. ASSUME NEW k \in Buyers, NEW b \in BookingIds, BeginOrder(k, b)
        PROVE  CaptureInv'
    BY <1>2, CloseUnpaidKeepsPaid DEF BeginOrder, money
  <1>3. ASSUME NEW k \in Buyers, NEW o \in Orders, OpenOrder(k, o)
        PROVE  CaptureInv'
    BY <1>3, OrdersAssumption DEF OpenOrder, InsertOrder, money, CaptureInv, CapturedOrdersArePaid
  <1>4. ASSUME NEW k \in Buyers, NEW o \in Orders, OpenCovered(k, o)
        PROVE  CaptureInv'
    <2>1. /\ orderStatus[o] = "none"
          /\ orderStatus' = [orderStatus EXCEPT ![o] = "created"]
          /\ covered' = covered \cup {o} /\ made' = [made EXCEPT ![k] = o]
          /\ UNCHANGED <<captured, paidAt>>
      BY <1>4 DEF OpenCovered, InsertOrder, money
    <2>2. o \notin paidAt /\ o \notin covered /\ o \notin captured
      BY <2>1 DEF CaptureInv, CapturedOrdersArePaid
    <2>3. \A j \in Buyers : made[j] # o
      BY <2>2, OrdersAssumption DEF CaptureInv
    <2>4. CapturedOrdersArePaid'
      BY <2>1, <2>2 DEF CaptureInv, CapturedOrdersArePaid
    <2>5. (\A j, m \in Buyers : made[m] # NoOrder /\ made[j] = made[m] => j = m)'
      BY <2>1, <2>3 DEF CaptureInv
    <2>6. (\A j \in Buyers : made[j] # NoOrder =>
             made[j] \in covered /\ orderStatus[made[j]] \in {"created", "cancelled"})'
      BY <2>1, <2>3 DEF CaptureInv
    <2>7. QED
      BY <2>1, <2>2, <2>4, <2>5, <2>6 DEF CaptureInv
  <1>5. ASSUME NEW k \in Buyers, NEW c \in Callers, MarkOrderPaid(k, c)
        PROVE  CaptureInv'
    <2> DEFINE o == made[k]
    <2>1. /\ o # NoOrder /\ orderStatus' = [orderStatus EXCEPT ![o] = "paid"]
          /\ made' = [made EXCEPT ![k] = NoOrder]
          /\ UNCHANGED <<captured, covered, paidAt>>
      BY <1>5 DEF MarkOrderPaid, money
    <2>2. o \in Orders /\ o \in covered /\ o \notin captured
      BY <2>1 DEF CaptureInv, CapturedOrdersArePaid
    <2>3. CapturedOrdersArePaid'
      BY <2>1, <2>2 DEF CaptureInv, CapturedOrdersArePaid
    <2>4. (\A j \in Buyers : made[j] # NoOrder =>
             made[j] \in covered /\ orderStatus[made[j]] \in {"created", "cancelled"})'
      BY <2>1, <2>2 DEF CaptureInv
    <2>5. QED
      BY <2>1, <2>2, <2>3, <2>4 DEF CaptureInv
  <1>6. ASSUME NEW k \in Buyers, OrderFails(k)
        PROVE  CaptureInv'
    BY <1>6, CloseUnpaidKeepsPaid DEF OrderFails, money
  <1>7. ASSUME NEW k \in Buyers, BuyerDies(k)
        PROVE  CaptureInv'
    BY <1>7 DEF BuyerDies, money, CaptureInv, CapturedOrdersArePaid
  <1>8. ASSUME NEW o \in Orders, CustomerPays(o)
        PROVE  CaptureInv'
    BY <1>8 DEF CustomerPays, buyers, CaptureInv, CapturedOrdersArePaid
  <1>9. ASSUME NEW c \in Callers, NEW o \in Orders, ReportPayment(c, o)
        PROVE  CaptureInv'
    BY <1>9, CaptureMarksPaid DEF ReportPayment, buyers
  <1>10. ASSUME NEW c \in Callers, NEW o \in Orders, VerifyPaidOrder(c, o)
        PROVE  CaptureInv'
    BY <1>1, <1>10 DEF VerifyPaidOrder, money, buyers
  <1>11. ASSUME NEW c \in Callers, ReportProgress(c) \/ ReportDies(c)
        PROVE  CaptureInv'
    BY <1>1, <1>11 DEF ReportProgress, ReportReads, ReportStops, ReportSeats,
       ReportFindsFull, ReportRefunds, ReportDies, payments, money, buyers
  <1>12. ASSUME NEW o \in Orders, ReconcileOrder(o)
        PROVE  CaptureInv'
    BY <1>12, CaptureMarksPaid DEF ReconcileOrder, buyers
  <1>13. CASE ReleaseAbandonedOrders
    BY <1>13, CloseUnpaidKeepsPaid DEF ReleaseAbandonedOrders, money, buyers
  <1>14. ASSUME NEW b \in BookingIds, CancelStep(b)
         PROVE  CaptureInv'
    BY <1>1, <1>14 DEF CancelStep, GuestCancels, HostCancels, Announce, RefundCancelled,
       RefundUnacknowledged, RefundNewest, buyers
  <1>15. CASE BookingMoves \/ UNCHANGED allVars
    BY <1>1, <1>15 DEF BookingMoves, allVars, payments, money, buyers
  <1>16. QED
    BY <1>2, <1>3, <1>4, <1>5, <1>6, <1>7, <1>8, <1>9, <1>10, <1>11, <1>12,
       <1>13, <1>14, <1>15 DEF PaidNext, OrderStep, ReportStep, PaymentJobs

LEMMA CaptureInvInit == PaidInit => CaptureInv
  BY DEF PaidInit, CaptureInv, CapturedOrdersArePaid

(* A captured payment and a paid order are one and the same thing, however  *)
(* webhook, app and reconciliation race with orders opened and closed; an   *)
(* order credits and coupon covered is paid without a payment.              *)
THEOREM CapturesMatchOrders == PaidSpec => []CapturedOrdersArePaid
  <1>1. CaptureInv => CapturedOrdersArePaid
    BY DEF CaptureInv
  <1>2. QED
    BY <1>1, CaptureInvInit, CaptureInvStep, PTL DEF PaidSpec

-----------------------------------------------------------------------------
(* The money behind the seats.  What a booking has: the orders that were    *)
(* paid for it and not refunded.  What may still claim that money: its      *)
(* seat, the events that will refund it, the first reports on their way and *)
(* the orders stranded without one.  As long as no message about the        *)
(* booking was handled again, the claims never exceed the orders.           *)
Kept(b) == {o \in OrdersFor(b) : orderStatus[o] = "paid" /\ o \notin refunded}
FirstReports(b) ==
  {c \in Callers : stage[c] \in {"confirm", "covered", "refund"} /\ OrderOf[order[c]] = b}
Loose(b) == stranded \cap OrdersFor(b)
SeatCount(b) == IF b \in Seated THEN 1 ELSE 0

(* The columns of the payment path agree with one another. *)
LatestCaptured ==
  /\ latest \in [BookingIds -> Orders \cup {NoOrder}]
  /\ \A b \in BookingIds : latest[b] # NoOrder => latest[b] \in captured /\ OrderOf[latest[b]] = b
StrandedPaid == stranded \subseteq Orders /\ \A o \in stranded : orderStatus[o] = "paid"
ReportsPaid ==
  \A c \in Callers :
    /\ stage[c] # "idle" => orderStatus[order[c]] = "paid"
    /\ stage[c] \in {"confirm", "again", "refund"} => order[c] \in captured
    /\ target[c] # NoBooking => Confirming(c) /\ target[c] = OrderOf[order[c]]
SeatsOrdered == \A b \in Seated : \E o \in OrdersFor(b) : orderStatus[o] = "paid"
PaperInv ==
  /\ LatestCaptured
  /\ due \in [BookingIds -> Nat]
  /\ refunded \subseteq captured
  /\ StrandedPaid /\ ReportsPaid /\ SeatsOrdered

MoneyStands ==
  \A b \in BookingIds \ replayed :
    SeatCount(b) + due[b] + Cardinality(FirstReports(b)) + Cardinality(Loose(b))
      <= Cardinality(Kept(b))

(* The sets that are counted are finite. *)
LEMMA CountedFinite ==
  ASSUME NEW b
  PROVE  /\ IsFiniteSet(Kept(b)) /\ IsFiniteSet(FirstReports(b)) /\ IsFiniteSet(Loose(b))
         /\ Cardinality(Kept(b)) \in Nat
         /\ Cardinality(FirstReports(b)) \in Nat
         /\ Cardinality(Loose(b)) \in Nat
  <1>1. IsFiniteSet(Orders) /\ IsFiniteSet(Callers)
    BY OrdersAssumption, CallersAssumption
  <1>2. /\ Kept(b) \subseteq Orders /\ FirstReports(b) \subseteq Callers
        /\ Loose(b) \subseteq Orders
    BY DEF Kept, FirstReports, Loose, OrdersFor
  <1>3. IsFiniteSet(Kept(b)) /\ IsFiniteSet(FirstReports(b)) /\ IsFiniteSet(Loose(b))
    BY <1>1, <1>2, FS_Subset
  <1>4. QED
    BY <1>3, FS_CardinalityType

LEMMA CountedFiniteNext ==
  ASSUME NEW b
  PROVE  /\ IsFiniteSet(Kept(b)') /\ IsFiniteSet(FirstReports(b)') /\ IsFiniteSet(Loose(b)')
         /\ Cardinality(Kept(b)') \in Nat
         /\ Cardinality(FirstReports(b)') \in Nat
         /\ Cardinality(Loose(b)') \in Nat
  <1>1. IsFiniteSet(Orders) /\ IsFiniteSet(Callers)
    BY OrdersAssumption, CallersAssumption
  <1>2. /\ Kept(b)' \subseteq Orders /\ FirstReports(b)' \subseteq Callers
        /\ Loose(b)' \subseteq Orders
    BY DEF Kept, FirstReports, Loose, OrdersFor
  <1>3. IsFiniteSet(Kept(b)') /\ IsFiniteSet(FirstReports(b)') /\ IsFiniteSet(Loose(b)')
    BY <1>1, <1>2, FS_Subset
  <1>4. QED
    BY <1>3, FS_CardinalityType

(* How far apart two sets are in number. *)
LEMMA NoMore ==
  ASSUME NEW S, NEW T, IsFiniteSet(S), T \subseteq S
  PROVE  Cardinality(T) <= Cardinality(S)
  BY FS_Subset

LEMMA OneMoreAtMost ==
  ASSUME NEW S, NEW T, NEW x, IsFiniteSet(S), T \subseteq S \cup {x}
  PROVE  Cardinality(T) <= Cardinality(S) + 1
  <1>0. Cardinality(S) \in Nat
    BY FS_CardinalityType
  <1>1. /\ IsFiniteSet(S \cup {x})
        /\ \/ Cardinality(S \cup {x}) = Cardinality(S)
           \/ Cardinality(S \cup {x}) = Cardinality(S) + 1
    BY FS_AddElement
  <1>2. IsFiniteSet(T) /\ Cardinality(T) <= Cardinality(S \cup {x})
    BY <1>1, FS_Subset
  <1>3. Cardinality(T) \in Nat /\ Cardinality(S \cup {x}) \in Nat
    BY <1>1, <1>2, FS_CardinalityType
  <1>4. QED
    BY <1>0, <1>1, <1>2, <1>3

LEMMA OneFewer ==
  ASSUME NEW S, NEW T, NEW x \in S, IsFiniteSet(S), T \subseteq S \ {x}
  PROVE  Cardinality(T) + 1 <= Cardinality(S)
  <1>1. /\ IsFiniteSet(S \ {x}) /\ Cardinality(S) \in Nat
        /\ Cardinality(S \ {x}) = Cardinality(S) - 1
    BY FS_RemoveElement, FS_CardinalityType
  <1>2. IsFiniteSet(T) /\ Cardinality(T) <= Cardinality(S \ {x})
    BY <1>1, FS_Subset
  <1>3. Cardinality(T) \in Nat /\ Cardinality(S \ {x}) \in Nat
    BY <1>1, <1>2, FS_CardinalityType
  <1>4. QED
    BY <1>1, <1>2, <1>3

(* The account of booking b after a step: its claims grew by no more than   *)
(* its money.                                                               *)
Numbers(b) ==
  /\ SeatCount(b) \in Nat /\ SeatCount(b)' \in Nat
  /\ due[b] \in Nat /\ due'[b] \in Nat
  /\ Cardinality(FirstReports(b)) \in Nat /\ Cardinality(FirstReports(b)') \in Nat
  /\ Cardinality(Loose(b)) \in Nat /\ Cardinality(Loose(b)') \in Nat
  /\ Cardinality(Kept(b)) \in Nat /\ Cardinality(Kept(b)') \in Nat
Balanced(b) ==
  SeatCount(b)' + due'[b] + Cardinality(FirstReports(b)') + Cardinality(Loose(b)')
      + Cardinality(Kept(b))
    <= SeatCount(b) + due[b] + Cardinality(FirstReports(b)) + Cardinality(Loose(b))
      + Cardinality(Kept(b)')

LEMMA AreNumbers ==
  ASSUME NEW b \in BookingIds, due \in [BookingIds -> Nat], due' \in [BookingIds -> Nat]
  PROVE  Numbers(b)
  <1>1. SeatCount(b) \in Nat /\ SeatCount(b)' \in Nat
    BY DEF SeatCount
  <1>2. QED
    BY <1>1, CountedFinite, CountedFiniteNext DEF Numbers

LEMMA ClaimsFit ==
  ASSUME MoneyStands, due \in [BookingIds -> Nat], due' \in [BookingIds -> Nat],
         \A b \in BookingIds : b \notin replayed' => b \notin replayed /\ Balanced(b)
  PROVE  MoneyStands'
  <1> SUFFICES ASSUME NEW b \in BookingIds, b \notin replayed'
               PROVE  SeatCount(b)' + due'[b] + Cardinality(FirstReports(b)')
                        + Cardinality(Loose(b)') <= Cardinality(Kept(b)')
    BY DEF MoneyStands
  <1>1. Balanced(b) /\ Numbers(b)
    BY AreNumbers
  <1>2. SeatCount(b) + due[b] + Cardinality(FirstReports(b)) + Cardinality(Loose(b))
          <= Cardinality(Kept(b))
    BY DEF MoneyStands
  <1>3. QED
    BY <1>1, <1>2 DEF Balanced, Numbers

(* Nothing of a booking's account moved for the worse, but for ... *)
SeatQuiet(b) == b \in Seated' => b \in Seated
DueQuiet(b) == due'[b] = due[b]
ReportsQuiet(b) == FirstReports(b)' \subseteq FirstReports(b)
LooseQuiet(b) == Loose(b)' \subseteq Loose(b)
KeptQuiet(b) == Kept(b) \subseteq Kept(b)'

LEMMA QuietNumbers ==
  ASSUME NEW b \in BookingIds
  PROVE  /\ SeatQuiet(b) => SeatCount(b)' <= SeatCount(b)
         /\ ReportsQuiet(b) =>
              Cardinality(FirstReports(b)') <= Cardinality(FirstReports(b))
         /\ LooseQuiet(b) => Cardinality(Loose(b)') <= Cardinality(Loose(b))
         /\ KeptQuiet(b) => Cardinality(Kept(b)) <= Cardinality(Kept(b)')
  <1>1. SeatQuiet(b) => SeatCount(b)' <= SeatCount(b)
    BY DEF SeatCount, SeatQuiet
  <1>2. /\ IsFiniteSet(Kept(b)') /\ IsFiniteSet(FirstReports(b)) /\ IsFiniteSet(Loose(b))
    BY CountedFinite, CountedFiniteNext
  <1>3. QED
    BY <1>1, <1>2, NoMore DEF ReportsQuiet, LooseQuiet, KeptQuiet

LEMMA QuietBalances ==
  ASSUME NEW b \in BookingIds, Numbers(b), SeatQuiet(b), DueQuiet(b), ReportsQuiet(b),
         LooseQuiet(b), KeptQuiet(b)
  PROVE  Balanced(b)
  BY QuietNumbers DEF Balanced, Numbers, DueQuiet

-----------------------------------------------------------------------------
(* What the steps of the booking component do to the seats. *)

(* Without a report the booking component only gives seats back. *)
LEMMA CancelLeaves ==
  ASSUME TypeOK, NEW b \in BookingIds, NEW byHost \in BOOLEAN, Cancel(b, byHost)
  PROVE  /\ Seated' \subseteq Seated
         /\ status[b] = "confirmed" => b \in Seated /\ b \notin Seated'
  BY DEF TypeOK, Cancel, ReleaseHold, ReleaseSeat, Seated, SeatedStatuses

LEMMA AloneSeatsOnlyLeave ==
  ASSUME TypeOK, BookingAlone
  PROVE  Seated' \subseteq Seated /\ target' = target
  <1> USE DEF TypeOK, Seated
  <1>1. ASSUME NEW u \in Users, NEW b \in BookingIds, CreatePaid(u, b)
        PROVE  Seated' \subseteq Seated /\ target' = target
    BY <1>1 DEF CreatePaid, SeatedStatuses, Pending
  <1>2. ASSUME NEW b \in BookingIds, HoldLapses(b) \/ CheckIn(b) \/ FanoutRetry(b)
        PROVE  Seated' \subseteq Seated /\ target' = target
    BY <1>2 DEF HoldLapses, CheckIn, FanoutRetry, SeatedStatuses
  <1>3. CASE ExpirePending
    BY <1>3 DEF ExpirePending, Lapsed, Pending, SeatedStatuses
  <1>4. CASE CancelPlan \/ NextPhase \/ FanoutExpireWaitlist \/ FanoutList \/ FanoutDone
    BY <1>4 DEF CancelPlan, NextPhase, FanoutExpireWaitlist, FanoutList, FanoutDone
  <1>5. QED
    BY <1>1, <1>2, <1>3, <1>4 DEF BookingAlone

(* A paid order stays paid, a recorded payment recorded. *)
PaidStays ==
  /\ \A o \in Orders : orderStatus[o] = "paid" => orderStatus'[o] = "paid"
  /\ captured \subseteq captured'

LEMMA CapturePays ==
  ASSUME CaptureInv, NEW o \in paidAt, Capture(o)
  PROVE  /\ PaidStays /\ o \in Orders /\ orderStatus'[o] = "paid" /\ o \in captured'
         /\ captured' = captured \cup {o}
         /\ \A x \in Orders \ {o} : orderStatus'[x] = orderStatus[x]
  <1>1. CASE o \in captured
    BY <1>1 DEF Capture, CaptureInv, CapturedOrdersArePaid, PaidStays
  <1>2. CASE o \notin captured
    BY <1>2 DEF Capture, CaptureInv, PaidStays
  <1>3. QED
    BY <1>1, <1>2

LEMMA ClosePays ==
  ASSUME CaptureInv, NEW os, CloseUnpaid(os), captured' = captured
  PROVE  /\ PaidStays
         /\ \A o \in Orders : orderStatus'[o] = "paid" <=> orderStatus[o] = "paid"
  BY DEF CloseUnpaid, PaidStays, CaptureInv

(* Steps that touch neither the reports nor the money. *)
CallsStand == UNCHANGED <<target, stage, order, latest, due, refunded, stranded>>

LEMMA OrderMoves ==
  ASSUME CaptureInv, OrderStep,
         \A k \in Buyers, c \in Callers : ~MarkOrderPaid(k, c)
  PROVE  /\ PaidStays /\ captured' = captured /\ CallsStand /\ status' = status
         /\ replayed' = replayed
         /\ \A o \in Orders : orderStatus'[o] = "paid" <=> orderStatus[o] = "paid"
  <1> USE DEF CallsStand, money, calls, vars, history
  <1>1. ASSUME NEW k \in Buyers, NEW b \in BookingIds, BeginOrder(k, b)
        PROVE  /\ PaidStays /\ captured' = captured /\ CallsStand /\ status' = status
               /\ replayed' = replayed
               /\ \A o \in Orders : orderStatus'[o] = "paid" <=> orderStatus[o] = "paid"
    BY <1>1, ClosePays DEF BeginOrder
  <1>2. ASSUME NEW k \in Buyers, NEW o \in Orders, OpenOrder(k, o) \/ OpenCovered(k, o)
        PROVE  /\ PaidStays /\ captured' = captured /\ CallsStand /\ status' = status
               /\ replayed' = replayed
               /\ \A x \in Orders : orderStatus'[x] = "paid" <=> orderStatus[x] = "paid"
    BY <1>2 DEF OpenOrder, OpenCovered, InsertOrder, PaidStays, CaptureInv
  <1>3. ASSUME NEW k \in Buyers, OrderFails(k)
        PROVE  /\ PaidStays /\ captured' = captured /\ CallsStand /\ status' = status
               /\ replayed' = replayed
               /\ \A o \in Orders : orderStatus'[o] = "paid" <=> orderStatus[o] = "paid"
    BY <1>3, ClosePays DEF OrderFails
  <1>4. ASSUME NEW k \in Buyers, BuyerDies(k)
        PROVE  /\ PaidStays /\ captured' = captured /\ CallsStand /\ status' = status
               /\ replayed' = replayed
               /\ \A o \in Orders : orderStatus'[o] = "paid" <=> orderStatus[o] = "paid"
    BY <1>4 DEF BuyerDies, PaidStays
  <1>5. ASSUME NEW o \in Orders, CustomerPays(o)
        PROVE  /\ PaidStays /\ captured' = captured /\ CallsStand /\ status' = status
               /\ replayed' = replayed
               /\ \A x \in Orders : orderStatus'[x] = "paid" <=> orderStatus[x] = "paid"
    BY <1>5 DEF CustomerPays, PaidStays
  <1>6. QED
    BY <1>1, <1>2, <1>3, <1>4, <1>5 DEF OrderStep

LEMMA PaperKept ==
  ASSUME PaperInv, ReportsAnOrder, PaidStays, CallsStand, Seated' \subseteq Seated
  PROVE  PaperInv'
  <1>1. LatestCaptured' /\ (due \in [BookingIds -> Nat])' /\ (refunded \subseteq captured)'
    BY DEF PaperInv, CallsStand, PaidStays, LatestCaptured
  <1>2. StrandedPaid'
    BY DEF PaperInv, CallsStand, PaidStays, StrandedPaid
  <1>3. ReportsPaid'
    BY DEF PaperInv, CallsStand, PaidStays, ReportsPaid, ReportsAnOrder, Confirming
  <1>4. SeatsOrdered'
    BY DEF PaperInv, PaidStays, SeatsOrdered, OrdersFor
  <1>5. QED
    BY <1>1, <1>2, <1>3, <1>4 DEF PaperInv

-----------------------------------------------------------------------------
(* The account of every booking after each step of the composition. *)
MoneyInv == TypeOK /\ CaptureInv /\ ReportsAnOrder /\ PaperInv
Accounted ==
  /\ PaperInv'
  /\ \A b \in BookingIds : b \notin replayed' => b \notin replayed /\ Balanced(b)

LEMMA MoneyInvNumbers ==
  ASSUME MoneyInv, PaperInv'
  PROVE  \A b \in BookingIds : Numbers(b)
  BY AreNumbers DEF MoneyInv, PaperInv

(* The calls after a step of caller c. *)
LEMMA CallerLeaves ==
  ASSUME ReportsAnOrder, NEW c \in Callers, Finish(c), NEW b
  PROVE  FirstReports(b)' \subseteq FirstReports(b) \ {c}
  BY DEF Finish, FirstReports, ReportsAnOrder

LEMMA CallerEnters ==
  ASSUME ReportsAnOrder, NEW c \in Callers, NEW s, NEW o,
         stage' = [stage EXCEPT ![c] = s], order' = [order EXCEPT ![c] = o], NEW b
  PROVE  /\ FirstReports(b)' \subseteq FirstReports(b) \cup {c}
         /\ s \notin {"confirm", "covered", "refund"} \/ OrderOf[o] # b =>
              FirstReports(b)' \subseteq FirstReports(b)
  BY DEF FirstReports, ReportsAnOrder

(* A first report of an order of b, or nothing b counts on. *)
LEMMA LeaverCounts ==
  ASSUME ReportsAnOrder, NEW c \in Callers, Finish(c), NEW b
  PROVE  /\ ReportsQuiet(b)
         /\ c \in FirstReports(b) =>
              Cardinality(FirstReports(b)') + 1 <= Cardinality(FirstReports(b))
  <1>1. FirstReports(b)' \subseteq FirstReports(b) \ {c}
    BY CallerLeaves
  <1>2. IsFiniteSet(FirstReports(b))
    BY CountedFinite
  <1>3. QED
    BY <1>1, <1>2, OneFewer DEF ReportsQuiet

LEMMA QuietStep ==
  ASSUME MoneyInv, PaidStays, CallsStand, replayed' = replayed, Seated' \subseteq Seated,
         \A o \in Orders : orderStatus'[o] = "paid" <=> orderStatus[o] = "paid"
  PROVE  Accounted
  <1>1. PaperInv'
    BY PaperKept DEF MoneyInv
  <1>2. ASSUME NEW b \in BookingIds
        PROVE  Balanced(b)
    <2>1. SeatQuiet(b) /\ DueQuiet(b) /\ LooseQuiet(b) /\ KeptQuiet(b)
      BY DEF SeatQuiet, DueQuiet, LooseQuiet, KeptQuiet, Loose, Kept, CallsStand, OrdersFor
    <2>2. ReportsQuiet(b)
      BY DEF ReportsQuiet, FirstReports, CallsStand
    <2>3. QED
      BY <1>1, <2>1, <2>2, MoneyInvNumbers, QuietBalances
  <1>3. QED
    BY <1>1, <1>2 DEF Accounted

(* A buyer that marks a covered order paid brings the claim and its order. *)
LEMMA MarkAccounted ==
  ASSUME MoneyInv, NEW k \in Buyers, NEW c \in Callers, MarkOrderPaid(k, c)
  PROVE  Accounted
  <1> DEFINE o == made[k]
  <1>1. /\ o # NoOrder /\ stage[c] = "idle"
        /\ orderStatus' = [orderStatus EXCEPT ![o] = "paid"]
        /\ stage' = [stage EXCEPT ![c] = "covered"]
        /\ order' = [order EXCEPT ![c] = o]
        /\ UNCHANGED <<status, target, captured, latest, refunded, due, stranded, replayed>>
    BY DEF MarkOrderPaid, vars, money, history
  <1>2. /\ o \in Orders /\ orderStatus[o] # "paid" /\ o \notin captured
        /\ orderStatus \in [Orders -> {"none", "created", "cancelled", "paid"}]
    BY <1>1 DEF MoneyInv, CaptureInv, CapturedOrdersArePaid
  <1>3. o \notin refunded /\ OrderOf[o] \in BookingIds
    BY <1>2, OrdersAssumption DEF MoneyInv, PaperInv
  <1>4. PaidStays
    BY <1>1, <1>2 DEF PaidStays
  <1>5. PaperInv'
    <2>1. LatestCaptured' /\ (due \in [BookingIds -> Nat])' /\ (refunded \subseteq captured)'
      BY <1>1 DEF MoneyInv, PaperInv, LatestCaptured
    <2>2. StrandedPaid'
      BY <1>1, <1>4 DEF MoneyInv, PaperInv, StrandedPaid, PaidStays
    <2>3. ReportsPaid'
      BY <1>1, <1>2 DEF MoneyInv, PaperInv, ReportsPaid, ReportsAnOrder, Confirming
    <2>4. SeatsOrdered'
      BY <1>1, <1>4 DEF MoneyInv, PaperInv, PaidStays, SeatsOrdered, OrdersFor, Seated
    <2>5. QED
      BY <2>1, <2>2, <2>3, <2>4 DEF PaperInv
  <1>6. ASSUME NEW b \in BookingIds
        PROVE  Balanced(b)
    <2>1. SeatQuiet(b) /\ DueQuiet(b) /\ LooseQuiet(b)
      BY <1>1 DEF SeatQuiet, DueQuiet, LooseQuiet, Loose, Seated
    <2>2. /\ Kept(b) \subseteq Kept(b)'
          /\ b = OrderOf[o] => o \in Kept(b)' /\ Kept(b) \subseteq Kept(b)' \ {o}
      BY <1>1, <1>2, <1>3 DEF Kept, OrdersFor
    <2>3. /\ FirstReports(b)' \subseteq FirstReports(b) \cup {c}
          /\ b # OrderOf[o] => FirstReports(b)' \subseteq FirstReports(b)
      BY <1>1 DEF FirstReports, MoneyInv, ReportsAnOrder
    <2>4. CASE b # OrderOf[o]
      BY <1>5, <2>1, <2>2, <2>3, <2>4, MoneyInvNumbers, QuietBalances
         DEF ReportsQuiet, KeptQuiet
    <2>5. CASE b = OrderOf[o]
      <3>1. Cardinality(Kept(b)) + 1 <= Cardinality(Kept(b)')
        BY <2>2, <2>5, CountedFiniteNext, OneFewer
      <3>2. Cardinality(FirstReports(b)') <= Cardinality(FirstReports(b)) + 1
        BY <2>3, CountedFinite, OneMoreAtMost
      <3>3. QED
        BY <1>5, <2>1, <3>1, <3>2, QuietNumbers, MoneyInvNumbers
           DEF Balanced, Numbers, DueQuiet
    <2>6. QED
      BY <2>4, <2>5
  <1>7. QED
    BY <1>1, <1>5, <1>6 DEF Accounted

(* An order that becomes paid adds to what its booking has. *)
LEMMA KeptGrows ==
  ASSUME MoneyInv, PaidStays, refunded' = refunded, NEW o \in Orders,
         orderStatus[o] # "paid", orderStatus'[o] = "paid", o \notin refunded,
         NEW b \in BookingIds
  PROVE  /\ KeptQuiet(b)
         /\ b = OrderOf[o] => Cardinality(Kept(b)) + 1 <= Cardinality(Kept(b)')
  <1>1. /\ Kept(b) \subseteq Kept(b)'
        /\ b = OrderOf[o] => o \in Kept(b)' /\ Kept(b) \subseteq Kept(b)' \ {o}
    BY DEF Kept, OrdersFor, PaidStays
  <1>2. QED
    BY <1>1, CountedFiniteNext, OneFewer DEF KeptQuiet

(* The newest payment is a recorded one after Capture as before. *)
LEMMA CaptureLatest ==
  ASSUME MoneyInv, NEW o \in paidAt, Capture(o)
  PROVE  LatestCaptured'
  <1>1. CASE o \in captured
    BY <1>1 DEF Capture, MoneyInv, PaperInv, LatestCaptured
  <1>2. CASE o \notin captured
    BY <1>2, OrdersAssumption DEF Capture, MoneyInv, PaperInv, CaptureInv, LatestCaptured
  <1>3. QED
    BY <1>1, <1>2

(* The first report brings a claim and its order, the report of a stranded  *)
(* order takes the claim over, a repeated one changes nothing.              *)
LEMMA ReportAccounted ==
  ASSUME MoneyInv, NEW c \in Callers, NEW o \in Orders, ReportPayment(c, o)
  PROVE  Accounted
  <1> DEFINE s == IF o \in captured \ stranded THEN "again" ELSE "confirm"
  <1>1. /\ o \in paidAt /\ stage[c] = "idle" /\ Capture(o)
        /\ stage' = [stage EXCEPT ![c] = s] /\ order' = [order EXCEPT ![c] = o]
        /\ stranded' = stranded \ {o}
        /\ UNCHANGED <<status, target, refunded, due, replayed>>
    BY DEF ReportPayment, vars
  <1>2. /\ PaidStays /\ orderStatus'[o] = "paid" /\ captured' = captured \cup {o}
        /\ OrderOf[o] \in BookingIds
    BY <1>1, CapturePays, OrdersAssumption DEF MoneyInv
  <1>3. o \notin captured => orderStatus[o] # "paid" /\ o \notin refunded /\ o \notin stranded
    BY <1>1 DEF MoneyInv, CaptureInv, CapturedOrdersArePaid, PaperInv, StrandedPaid
  <1>4. PaperInv'
    <2>1. LatestCaptured' /\ (due \in [BookingIds -> Nat])' /\ (refunded \subseteq captured)'
      BY <1>1, <1>2, CaptureLatest DEF MoneyInv, PaperInv
    <2>2. StrandedPaid'
      BY <1>1, <1>2 DEF MoneyInv, PaperInv, StrandedPaid, PaidStays
    <2>3. ReportsPaid'
      BY <1>1, <1>2 DEF MoneyInv, PaperInv, ReportsPaid, ReportsAnOrder, Confirming, PaidStays
    <2>4. SeatsOrdered'
      BY <1>1, <1>2 DEF MoneyInv, PaperInv, PaidStays, SeatsOrdered, OrdersFor, Seated
    <2>5. QED
      BY <2>1, <2>2, <2>3, <2>4 DEF PaperInv
  <1>5. ASSUME NEW b \in BookingIds
        PROVE  Balanced(b)
    <2>1. SeatQuiet(b) /\ DueQuiet(b) /\ LooseQuiet(b) /\ KeptQuiet(b)
      BY <1>1, <1>2 DEF SeatQuiet, DueQuiet, LooseQuiet, KeptQuiet, Loose, Kept, Seated,
         PaidStays, OrdersFor
    <2>2. /\ FirstReports(b)' \subseteq FirstReports(b) \cup {c}
          /\ s = "again" \/ b # OrderOf[o] => FirstReports(b)' \subseteq FirstReports(b)
      BY <1>1, CallerEnters DEF MoneyInv
    <2>3. Cardinality(FirstReports(b)') <= Cardinality(FirstReports(b)) + 1
      BY <2>2, CountedFinite, OneMoreAtMost
    <2>4. CASE s = "again" \/ b # OrderOf[o]
      BY <1>4, <2>1, <2>2, <2>4, MoneyInvNumbers, QuietBalances DEF ReportsQuiet
    <2>5. CASE b = OrderOf[o] /\ o \notin captured
      <3>1. Cardinality(Kept(b)) + 1 <= Cardinality(Kept(b)')
        BY <1>1, <1>2, <1>3, <2>5, KeptGrows
      <3>2. QED
        BY <1>4, <2>1, <2>3, <3>1, QuietNumbers, MoneyInvNumbers
           DEF Balanced, Numbers, DueQuiet
    <2>6. CASE b = OrderOf[o] /\ o \in stranded
      <3>1. o \in Loose(b) /\ Loose(b)' \subseteq Loose(b) \ {o}
        BY <1>1, <2>6 DEF Loose, OrdersFor
      <3>2. Cardinality(Loose(b)') + 1 <= Cardinality(Loose(b))
        BY <3>1, CountedFinite, OneFewer
      <3>3. QED
        BY <1>4, <2>1, <2>3, <3>2, QuietNumbers, MoneyInvNumbers
           DEF Balanced, Numbers, DueQuiet
    <2>7. QED
      BY <2>4, <2>5, <2>6
  <1>6. QED
    BY <1>1, <1>4, <1>5 DEF Accounted

(* The reconciliation records a payment and strands its order. *)
LEMMA ReconcileAccounted ==
  ASSUME MoneyInv, NEW o \in Orders, ReconcileOrder(o)
  PROVE  Accounted
  <1>1. /\ o \in paidAt /\ orderStatus[o] # "paid" /\ Capture(o)
        /\ stranded' = stranded \cup {o}
        /\ UNCHANGED <<status, target, refunded, due, replayed, stage, order>>
    BY DEF ReconcileOrder, vars, calls
  <1>2. /\ PaidStays /\ orderStatus'[o] = "paid" /\ captured' = captured \cup {o}
        /\ o \notin refunded
    BY <1>1, CapturePays DEF MoneyInv, CaptureInv, CapturedOrdersArePaid, PaperInv
  <1>3. PaperInv'
    <2>1. LatestCaptured' /\ (due \in [BookingIds -> Nat])' /\ (refunded \subseteq captured)'
      BY <1>1, <1>2, CaptureLatest DEF MoneyInv, PaperInv
    <2>2. StrandedPaid'
      BY <1>1, <1>2 DEF MoneyInv, PaperInv, StrandedPaid, PaidStays
    <2>3. ReportsPaid'
      BY <1>1, <1>2 DEF MoneyInv, PaperInv, ReportsPaid, ReportsAnOrder, Confirming, PaidStays
    <2>4. SeatsOrdered'
      BY <1>1, <1>2 DEF MoneyInv, PaperInv, PaidStays, SeatsOrdered, OrdersFor, Seated
    <2>5. QED
      BY <2>1, <2>2, <2>3, <2>4 DEF PaperInv
  <1>4. ASSUME NEW b \in BookingIds
        PROVE  Balanced(b)
    <2>1. SeatQuiet(b) /\ DueQuiet(b) /\ ReportsQuiet(b)
      BY <1>1 DEF SeatQuiet, DueQuiet, ReportsQuiet, FirstReports, Seated
    <2>2. /\ KeptQuiet(b)
          /\ b = OrderOf[o] => Cardinality(Kept(b)) + 1 <= Cardinality(Kept(b)')
      BY <1>1, <1>2, KeptGrows
    <2>3. /\ Loose(b)' \subseteq Loose(b) \cup {o}
          /\ b # OrderOf[o] => LooseQuiet(b)
      BY <1>1 DEF Loose, LooseQuiet, OrdersFor
    <2>4. Cardinality(Loose(b)') <= Cardinality(Loose(b)) + 1
      BY <2>3, CountedFinite, OneMoreAtMost
    <2>5. CASE b = OrderOf[o]
      BY <1>3, <2>1, <2>2, <2>4, <2>5, QuietNumbers, MoneyInvNumbers
         DEF Balanced, Numbers, DueQuiet
    <2>6. CASE b # OrderOf[o]
      BY <1>3, <2>1, <2>2, <2>3, <2>6, MoneyInvNumbers, QuietBalances
    <2>7. QED
      BY <2>5, <2>6
  <1>5. QED
    BY <1>1, <1>3, <1>4 DEF Accounted

(* Caller c's call ends, and with it its work on a booking. *)
LEMMA LeaverPaid ==
  ASSUME MoneyInv, NEW c \in Callers, Finish(c), UNCHANGED <<orderStatus, captured>>,
         \/ target[c] = NoBooking /\ target' = target
         \/ target' = [target EXCEPT ![c] = NoBooking]
  PROVE  ReportsPaid'
  <1>1. target \in [Callers -> BookingIds \cup {NoBooking}]
    BY DEF MoneyInv, TypeOK
  <1>2. target'[c] = NoBooking /\ \A x \in Callers \ {c} : target'[x] = target[x]
    BY <1>1
  <1>3. /\ stage'[c] = "idle"
        /\ \A x \in Callers \ {c} : stage'[x] = stage[x] /\ order'[x] = order[x]
    BY DEF Finish, MoneyInv, ReportsAnOrder
  <1>4. QED
    BY <1>2, <1>3 DEF MoneyInv, PaperInv, ReportsPaid, Confirming

(* What the call of an active caller is about. *)
LEMMA CallerKnows ==
  ASSUME MoneyInv, NEW c \in Callers, stage[c] # "idle"
  PROVE  /\ order[c] \in Orders /\ OrderOf[order[c]] \in BookingIds
         /\ orderStatus[order[c]] = "paid"
         /\ stage[c] \in {"confirm", "covered", "refund"} =>
              c \in FirstReports(OrderOf[order[c]])
  BY OrdersAssumption DEF MoneyInv, ReportsAnOrder, PaperInv, ReportsPaid, FirstReports

(* A step that leaves orders, payments and seats alone keeps their columns  *)
(* in agreement.                                                            *)
LEMMA PaperStands ==
  ASSUME MoneyInv, UNCHANGED <<orderStatus, captured, latest>>, ReportsPaid',
         due' \in [BookingIds -> Nat], refunded' \subseteq captured,
         \A o \in stranded' \ stranded : o \in Orders /\ orderStatus[o] = "paid",
         \A b \in Seated' \ Seated : \E o \in OrdersFor(b) : orderStatus[o] = "paid"
  PROVE  PaperInv'
  <1>1. LatestCaptured'
    BY DEF MoneyInv, PaperInv, LatestCaptured
  <1>2. StrandedPaid'
    BY DEF MoneyInv, PaperInv, StrandedPaid
  <1>3. SeatsOrdered'
    BY DEF MoneyInv, PaperInv, SeatsOrdered, OrdersFor
  <1>4. QED
    BY <1>1, <1>2, <1>3 DEF PaperInv

LEMMA VerifyAccounted ==
  ASSUME MoneyInv, NEW c \in Callers, NEW o \in Orders, VerifyPaidOrder(c, o)
  PROVE  Accounted
  <1>1. /\ stage[c] = "idle" /\ orderStatus[o] = "paid"
        /\ stage' = [stage EXCEPT ![c] = "verify"] /\ order' = [order EXCEPT ![c] = o]
        /\ UNCHANGED <<status, target, orderStatus, captured, latest, refunded, due,
                       stranded, replayed>>
    BY DEF VerifyPaidOrder, vars, money, history
  <1>2. ReportsPaid'
    BY <1>1 DEF MoneyInv, PaperInv, ReportsPaid, ReportsAnOrder, Confirming
  <1>3. PaperInv'
    BY <1>1, <1>2, PaperStands DEF MoneyInv, PaperInv, Seated
  <1>4. ASSUME NEW b \in BookingIds
        PROVE  Balanced(b)
    <2>1. SeatQuiet(b) /\ DueQuiet(b) /\ LooseQuiet(b) /\ KeptQuiet(b)
      BY <1>1 DEF SeatQuiet, DueQuiet, LooseQuiet, KeptQuiet, Loose, Kept, Seated
    <2>2. ReportsQuiet(b)
      BY <1>1 DEF MoneyInv, ReportsAnOrder, ReportsQuiet, FirstReports
    <2>3. QED
      BY <1>3, <2>1, <2>2, MoneyInvNumbers, QuietBalances
  <1>5. QED
    BY <1>1, <1>3, <1>4 DEF Accounted

LEMMA ReadsAccounted ==
  ASSUME MoneyInv, NEW c \in Callers, ReportReads(c)
  PROVE  Accounted
  <1>1. /\ Confirming(c) /\ target' = [target EXCEPT ![c] = OrderOf[order[c]]]
        /\ UNCHANGED <<status, orderStatus, captured, latest, refunded, due, stage, order,
                       stranded, replayed>>
    BY DEF ReportReads, ConfirmRead, payments, money, calls, history
  <1>2. ReportsPaid'
    BY <1>1 DEF MoneyInv, TypeOK, PaperInv, ReportsPaid, Confirming
  <1>3. PaperInv'
    BY <1>1, <1>2, PaperStands DEF MoneyInv, PaperInv, Seated
  <1>4. ASSUME NEW b \in BookingIds
        PROVE  Balanced(b)
    <2>1. SeatQuiet(b) /\ DueQuiet(b) /\ LooseQuiet(b) /\ KeptQuiet(b) /\ ReportsQuiet(b)
      BY <1>1 DEF SeatQuiet, DueQuiet, LooseQuiet, KeptQuiet, Loose, Kept, Seated,
         ReportsQuiet, FirstReports
    <2>2. QED
      BY <1>3, <2>1, MoneyInvNumbers, QuietBalances
  <1>5. QED
    BY <1>1, <1>3, <1>4 DEF Accounted

LEMMA StopsAccounted ==
  ASSUME MoneyInv, NEW c \in Callers, ReportStops(c)
  PROVE  Accounted
  <1>1. /\ target[c] = NoBooking /\ Finish(c)
        /\ UNCHANGED <<status, target, orderStatus, captured, latest, refunded, due,
                       stranded, replayed>>
    BY DEF ReportStops, vars, money, history
  <1>2. PaperInv'
    BY <1>1, LeaverPaid, PaperStands DEF MoneyInv, PaperInv, Seated
  <1>3. ASSUME NEW b \in BookingIds
        PROVE  Balanced(b)
    <2>1. SeatQuiet(b) /\ DueQuiet(b) /\ LooseQuiet(b) /\ KeptQuiet(b)
      BY <1>1 DEF SeatQuiet, DueQuiet, LooseQuiet, KeptQuiet, Loose, Kept, Seated
    <2>2. ReportsQuiet(b)
      BY <1>1, LeaverCounts DEF MoneyInv
    <2>3. QED
      BY <1>2, <2>1, <2>2, MoneyInvNumbers, QuietBalances
  <1>4. QED
    BY <1>1, <1>2, <1>3 DEF Accounted

(* The report that takes the seat gives up its claim for it, or that of the *)
(* stranded order; a repeated report that takes a seat is remembered.       *)
LEMMA SeatsAccounted ==
  ASSUME MoneyInv, NEW c \in Callers, ReportSeats(c)
  PROVE  Accounted
  <1> DEFINE o == order[c]
             d == OrderOf[o]
             first == stage[c] \in {"confirm", "covered"} \/ o \in stranded
  <1>1. /\ target[c] # NoBooking /\ target' = [target EXCEPT ![c] = NoBooking]
        /\ status' = [status EXCEPT ![target[c]] = "confirmed"]
        /\ Finish(c) /\ stranded' = stranded \ {o}
        /\ replayed' = IF first \/ d \in Seated THEN replayed ELSE replayed \cup {d}
        /\ UNCHANGED <<orderStatus, captured, latest, refunded, due>>
    BY DEF ReportSeats, ConfirmSeat, money
  <1>2. target[c] = d /\ Confirming(c)
    BY <1>1 DEF MoneyInv, PaperInv, ReportsPaid
  <1>3. /\ o \in Orders /\ d \in BookingIds /\ orderStatus[o] = "paid"
        /\ stage[c] \in {"confirm", "covered"} => c \in FirstReports(d)
    BY <1>2, CallerKnows DEF Confirming
  <1>4. Seated' \subseteq Seated \cup {d}
    BY <1>1, <1>2, <1>3 DEF Seated, MoneyInv, TypeOK
  <1>5. PaperInv'
    <2>1. ReportsPaid'
      BY <1>1, LeaverPaid
    <2>2. QED
      BY <1>1, <1>3, <1>4, <2>1, PaperStands DEF MoneyInv, PaperInv, OrdersFor
  <1>6. ASSUME NEW b \in BookingIds, b \notin replayed'
        PROVE  b \notin replayed /\ Balanced(b)
    <2>1. DueQuiet(b) /\ LooseQuiet(b) /\ KeptQuiet(b) /\ ReportsQuiet(b)
      BY <1>1, LeaverCounts DEF MoneyInv, DueQuiet, LooseQuiet, KeptQuiet, Loose, Kept
    <2>2. b \notin replayed
      BY <1>1, <1>6
    <2>3. CASE b # d \/ d \in Seated
      <3>1. SeatQuiet(b)
        BY <1>4, <2>3 DEF SeatQuiet
      <3>2. QED
        BY <1>5, <2>1, <2>2, <3>1, MoneyInvNumbers, QuietBalances
    <2>4. CASE b = d /\ d \notin Seated
      <3>1. first
        BY <1>1, <1>6, <2>4
      <3>2. SeatCount(b)' <= SeatCount(b) + 1
        BY DEF SeatCount
      <3>3. CASE stage[c] \in {"confirm", "covered"}
        <4>1. Cardinality(FirstReports(b)') + 1 <= Cardinality(FirstReports(b))
          BY <1>1, <1>3, <2>4, <3>3, LeaverCounts DEF MoneyInv
        <4>2. QED
          BY <1>5, <2>1, <2>2, <3>2, <4>1, QuietNumbers, MoneyInvNumbers
             DEF Balanced, Numbers, DueQuiet
      <3>4. CASE o \in stranded
        <4>1. o \in Loose(b) /\ Loose(b)' \subseteq Loose(b) \ {o}
          BY <1>1, <1>3, <2>4, <3>4 DEF Loose, OrdersFor
        <4>2. Cardinality(Loose(b)') + 1 <= Cardinality(Loose(b))
          BY <4>1, CountedFinite, OneFewer
        <4>3. QED
          BY <1>5, <2>1, <2>2, <3>2, <4>2, QuietNumbers, MoneyInvNumbers
             DEF Balanced, Numbers, DueQuiet
      <3>5. QED
        BY <3>1, <3>3, <3>4
    <2>5. QED
      BY <2>3, <2>4
  <1>7. QED
    BY <1>5, <1>6 DEF Accounted

(* Full: the first report goes on to the refund with its claim, that of a   *)
(* covered order leaves it stranded.                                        *)
LEMMA FullAccounted ==
  ASSUME MoneyInv, NEW c \in Callers, ReportFindsFull(c)
  PROVE  Accounted
  <1> DEFINE o == order[c]
             d == OrderOf[o]
  <1>1. /\ target[c] # NoBooking /\ target' = [target EXCEPT ![c] = NoBooking]
        /\ stranded' = IF stage[c] = "covered" THEN stranded \cup {o} ELSE stranded
        /\ replayed' = IF stage[c] = "again" THEN replayed \cup {d} ELSE replayed
        /\ UNCHANGED <<status, orderStatus, captured, latest, refunded, due>>
    BY DEF ReportFindsFull, ConfirmFull, money
  <1>2. target[c] = d /\ Confirming(c)
    BY <1>1 DEF MoneyInv, PaperInv, ReportsPaid
  <1>3. /\ o \in Orders /\ d \in BookingIds /\ orderStatus[o] = "paid"
        /\ stage[c] \in {"confirm", "covered", "refund"} => c \in FirstReports(d)
    BY <1>2, CallerKnows DEF Confirming
  <1>4. CASE stage[c] \in {"confirm", "again"}
    <2>1. stage' = [stage EXCEPT ![c] = "refund"] /\ order' = order
          /\ stranded' = stranded /\ o \in captured
      BY <1>1, <1>4 DEF ReportFindsFull, MoneyInv, PaperInv, ReportsPaid
    <2>2. ReportsPaid'
      BY <1>1, <2>1 DEF MoneyInv, TypeOK, ReportsAnOrder, PaperInv, ReportsPaid, Confirming
    <2>3. PaperInv'
      BY <1>1, <2>1, <2>2, PaperStands DEF MoneyInv, PaperInv, Seated
    <2>4. ASSUME NEW b \in BookingIds, b \notin replayed'
          PROVE  b \notin replayed /\ Balanced(b)
      <3>1. SeatQuiet(b) /\ DueQuiet(b) /\ LooseQuiet(b) /\ KeptQuiet(b)
        BY <1>1, <2>1 DEF SeatQuiet, DueQuiet, LooseQuiet, KeptQuiet, Loose, Kept, Seated
      <3>2. b # d \/ stage[c] = "confirm"
        BY <1>1, <1>4, <2>4
      <3>3. ReportsQuiet(b)
        BY <2>1, <3>2 DEF ReportsQuiet, FirstReports, MoneyInv, ReportsAnOrder
      <3>4. b \notin replayed
        BY <1>1, <2>4
      <3>5. QED
        BY <2>3, <3>1, <3>3, <3>4, MoneyInvNumbers, QuietBalances
    <2>5. QED
      BY <2>3, <2>4 DEF Accounted
  <1>5. CASE stage[c] \notin {"confirm", "again"}
    <2>1. Finish(c) /\ replayed' = replayed
      BY <1>1, <1>5 DEF ReportFindsFull
    <2>2. PaperInv'
      <3>1. ReportsPaid'
        BY <1>1, <2>1, LeaverPaid
      <3>2. QED
        BY <1>1, <1>3, <3>1, PaperStands DEF MoneyInv, PaperInv, Seated
    <2>3. ASSUME NEW b \in BookingIds
          PROVE  Balanced(b)
      <3>1. SeatQuiet(b) /\ DueQuiet(b) /\ KeptQuiet(b) /\ ReportsQuiet(b)
        BY <1>1, <2>1, LeaverCounts
           DEF MoneyInv, SeatQuiet, DueQuiet, KeptQuiet, Kept, Seated
      <3>2. CASE b # d \/ stage[c] # "covered"
        <4>1. LooseQuiet(b)
          BY <1>1, <3>2 DEF LooseQuiet, Loose, OrdersFor
        <4>2. QED
          BY <2>2, <3>1, <4>1, MoneyInvNumbers, QuietBalances
      <3>3. CASE b = d /\ stage[c] = "covered"
        <4>1. Cardinality(FirstReports(b)') + 1 <= Cardinality(FirstReports(b))
          BY <1>3, <2>1, <3>3, LeaverCounts DEF MoneyInv
        <4>2. Loose(b)' \subseteq Loose(b) \cup {o}
          BY <1>1 DEF Loose
        <4>3. Cardinality(Loose(b)') <= Cardinality(Loose(b)) + 1
          BY <4>2, CountedFinite, OneMoreAtMost
        <4>4. QED
          BY <2>2, <3>1, <4>1, <4>3, QuietNumbers, MoneyInvNumbers
             DEF Balanced, Numbers, DueQuiet
      <3>4. QED
        BY <3>2, <3>3
    <2>4. QED
      BY <2>1, <2>2, <2>3 DEF Accounted
  <1>6. QED
    BY <1>4, <1>5

(* The refund takes the order along with the claim. *)
LEMMA RefundsAccounted ==
  ASSUME MoneyInv, NEW c \in Callers, ReportRefunds(c)
  PROVE  Accounted
  <1> DEFINE o == order[c]
             d == OrderOf[o]
  <1>1. /\ stage[c] = "refund" /\ refunded' = refunded \cup {o} /\ Finish(c)
        /\ UNCHANGED <<status, target, orderStatus, captured, latest, due, stranded, replayed>>
    BY DEF ReportRefunds, vars, history
  <1>2. /\ o \in Orders /\ d \in BookingIds /\ c \in FirstReports(d)
        /\ o \in captured /\ target[c] = NoBooking
    BY <1>1, CallerKnows DEF MoneyInv, PaperInv, ReportsPaid, Confirming
  <1>3. PaperInv'
    <2>1. ReportsPaid'
      BY <1>1, <1>2, LeaverPaid
    <2>2. QED
      BY <1>1, <1>2, <2>1, PaperStands DEF MoneyInv, PaperInv, Seated
  <1>4. ASSUME NEW b \in BookingIds
        PROVE  Balanced(b)
    <2>1. SeatQuiet(b) /\ DueQuiet(b) /\ LooseQuiet(b) /\ ReportsQuiet(b)
      BY <1>1, LeaverCounts DEF MoneyInv, SeatQuiet, DueQuiet, LooseQuiet, Loose, Seated
    <2>2. /\ Kept(b) \subseteq Kept(b)' \cup {o}
          /\ b # d => KeptQuiet(b)
      BY <1>1 DEF Kept, KeptQuiet, OrdersFor
    <2>3. CASE b # d
      BY <1>3, <2>1, <2>2, <2>3, MoneyInvNumbers, QuietBalances
    <2>4. CASE b = d
      <3>1. Cardinality(FirstReports(b)') + 1 <= Cardinality(FirstReports(b))
        BY <1>1, <1>2, <2>4, LeaverCounts DEF MoneyInv
      <3>2. Cardinality(Kept(b)) <= Cardinality(Kept(b)') + 1
        BY <2>2, CountedFiniteNext, OneMoreAtMost
      <3>3. QED
        BY <1>3, <2>1, <3>1, <3>2, QuietNumbers, MoneyInvNumbers
           DEF Balanced, Numbers, DueQuiet
    <2>5. QED
      BY <2>3, <2>4
  <1>5. QED
    BY <1>1, <1>3, <1>4 DEF Accounted

(* A first report that dies leaves its order stranded. *)
LEMMA DiesAccounted ==
  ASSUME MoneyInv, NEW c \in Callers, ReportDies(c)
  PROVE  Accounted
  <1> DEFINE o == order[c]
             d == OrderOf[o]
             first == stage[c] \in {"confirm", "covered", "refund"}
  <1>1. /\ stage[c] # "idle" /\ Finish(c)
        /\ stranded' = IF first THEN stranded \cup {o} ELSE stranded
        /\ UNCHANGED <<status, orderStatus, captured, latest, refunded, due, replayed>>
    BY DEF ReportDies, ConfirmAbort, vars, money
  <1>2. \/ target[c] = NoBooking /\ target' = target
        \/ target' = [target EXCEPT ![c] = NoBooking]
    BY DEF ReportDies, ConfirmAbort, vars
  <1>3. /\ o \in Orders /\ d \in BookingIds /\ orderStatus[o] = "paid"
        /\ first => c \in FirstReports(d)
    BY <1>1, CallerKnows
  <1>4. PaperInv'
    <2>1. ReportsPaid'
      BY <1>1, <1>2, LeaverPaid
    <2>2. QED
      BY <1>1, <1>3, <2>1, PaperStands DEF MoneyInv, PaperInv, Seated
  <1>5. ASSUME NEW b \in BookingIds
        PROVE  Balanced(b)
    <2>1. SeatQuiet(b) /\ DueQuiet(b) /\ KeptQuiet(b) /\ ReportsQuiet(b)
      BY <1>1, LeaverCounts DEF MoneyInv, SeatQuiet, DueQuiet, KeptQuiet, Kept, Seated
    <2>2. CASE b # d \/ ~first
      <3>1. LooseQuiet(b)
        BY <1>1, <2>2 DEF LooseQuiet, Loose, OrdersFor
      <3>2. QED
        BY <1>4, <2>1, <3>1, MoneyInvNumbers, QuietBalances
    <2>3. CASE b = d /\ first
      <3>1. Cardinality(FirstReports(b)') + 1 <= Cardinality(FirstReports(b))
        BY <1>1, <1>3, <2>3, LeaverCounts DEF MoneyInv
      <3>2. Loose(b)' \subseteq Loose(b) \cup {o}
        BY <1>1 DEF Loose
      <3>3. Cardinality(Loose(b)') <= Cardinality(Loose(b)) + 1
        BY <3>2, CountedFinite, OneMoreAtMost
      <3>4. QED
        BY <1>4, <2>1, <3>1, <3>3, QuietNumbers, MoneyInvNumbers
           DEF Balanced, Numbers, DueQuiet
    <2>4. QED
      BY <2>2, <2>3
  <1>6. QED
    BY <1>1, <1>4, <1>5 DEF Accounted

(* The cancellation of a confirmed booking trades the seat for the event    *)
(* that refunds it, any other one frees nothing.                            *)
LEMMA CancelAccounted ==
  ASSUME MoneyInv, NEW d \in BookingIds, NEW byHost \in BOOLEAN, NEW percent,
         Cancel(d, byHost), target' = target, Announce(d, percent)
  PROVE  Accounted
  <1> DEFINE refundable == status[d] = "confirmed" /\ percent = 100
  <1>1. /\ due' = IF refundable THEN [due EXCEPT ![d] = @ + 1] ELSE due
        /\ UNCHANGED <<orderStatus, captured, latest, refunded, stage, order, stranded, replayed>>
    BY DEF Announce, calls, history
  <1>2. /\ Seated' \subseteq Seated
        /\ refundable => d \in Seated /\ d \notin Seated'
    BY CancelLeaves DEF MoneyInv
  <1>3. due \in [BookingIds -> Nat] /\ due' \in [BookingIds -> Nat]
    BY <1>1 DEF MoneyInv, PaperInv
  <1>4. PaperInv'
    <2>1. ReportsPaid'
      BY <1>1 DEF MoneyInv, PaperInv, ReportsPaid, Confirming
    <2>2. QED
      BY <1>1, <1>2, <1>3, <2>1, PaperStands DEF MoneyInv, PaperInv
  <1>5. ASSUME NEW b \in BookingIds
        PROVE  Balanced(b)
    <2>1. SeatQuiet(b) /\ LooseQuiet(b) /\ KeptQuiet(b) /\ ReportsQuiet(b)
      BY <1>1, <1>2 DEF SeatQuiet, LooseQuiet, KeptQuiet, ReportsQuiet, Loose, Kept, FirstReports
    <2>2. CASE b # d \/ ~refundable
      <3>1. DueQuiet(b)
        BY <1>1, <1>3, <2>2 DEF DueQuiet
      <3>2. QED
        BY <1>4, <2>1, <3>1, MoneyInvNumbers, QuietBalances
    <2>3. CASE b = d /\ refundable
      <3>1. SeatCount(b)' = 0 /\ SeatCount(b) = 1
        BY <1>2, <2>3 DEF SeatCount
      <3>2. due'[b] = due[b] + 1
        BY <1>1, <1>3, <2>3
      <3>3. QED
        BY <1>4, <2>1, <3>1, <3>2, QuietNumbers, MoneyInvNumbers DEF Balanced, Numbers
    <2>4. QED
      BY <2>2, <2>3
  <1>6. QED
    BY <1>1, <1>4, <1>5 DEF Accounted

(* The event takes an order along when it is done; when it is not, its      *)
(* booking is remembered.                                                   *)
LEMMA EventAccounted ==
  ASSUME MoneyInv, NEW d \in BookingIds, RefundCancelled(d) \/ RefundUnacknowledged(d)
  PROVE  Accounted
  <1> DEFINE o == latest[d]
  <1>1. /\ due[d] > 0 /\ refunded' = refunded \cup ({o} \ {NoOrder})
        /\ \/ due' = [due EXCEPT ![d] = @ - 1] /\ replayed' = replayed
           \/ due' = due /\ replayed' = replayed \cup {d}
        /\ UNCHANGED <<status, target, orderStatus, captured, latest, stage, order, stranded>>
    BY DEF RefundCancelled, RefundUnacknowledged, RefundNewest, vars, calls
  <1>2. due \in [BookingIds -> Nat] /\ (o # NoOrder => o \in captured /\ OrderOf[o] = d)
    BY DEF MoneyInv, PaperInv, LatestCaptured
  <1>3. due' \in [BookingIds -> Nat]
    BY <1>1, <1>2
  <1>4. PaperInv'
    <2>1. ReportsPaid'
      BY <1>1 DEF MoneyInv, PaperInv, ReportsPaid, Confirming
    <2>2. QED
      BY <1>1, <1>2, <1>3, <2>1, PaperStands DEF MoneyInv, PaperInv, Seated
  <1>5. ASSUME NEW b \in BookingIds, b \notin replayed'
        PROVE  b \notin replayed /\ Balanced(b)
    <2>1. SeatQuiet(b) /\ LooseQuiet(b) /\ ReportsQuiet(b)
      BY <1>1 DEF SeatQuiet, LooseQuiet, ReportsQuiet, Loose, FirstReports, Seated
    <2>2. b \notin replayed
      BY <1>1, <1>5
    <2>3. CASE b # d
      <3>1. DueQuiet(b) /\ KeptQuiet(b)
        BY <1>1, <1>2, <2>3 DEF DueQuiet, KeptQuiet, Kept, OrdersFor
      <3>2. QED
        BY <1>4, <2>1, <2>2, <3>1, MoneyInvNumbers, QuietBalances
    <2>4. CASE b = d
      <3>1. due'[b] + 1 = due[b]
        BY <1>1, <1>2, <1>5, <2>4
      <3>2. Kept(b) \subseteq Kept(b)' \cup {o}
        BY <1>1 DEF Kept
      <3>3. Cardinality(Kept(b)) <= Cardinality(Kept(b)') + 1
        BY <3>2, CountedFiniteNext, OneMoreAtMost
      <3>4. QED
        BY <1>4, <2>1, <2>2, <3>1, <3>3, QuietNumbers, MoneyInvNumbers DEF Balanced, Numbers
    <2>5. QED
      BY <2>3, <2>4
  <1>6. QED
    BY <1>4, <1>5 DEF Accounted

LEMMA StepAccounted ==
  ASSUME MoneyInv, [PaidNext]_allVars
  PROVE  Accounted
  <1>1. CASE BookingMoves
    <2>1. /\ Seated' \subseteq Seated /\ target' = target
          /\ UNCHANGED payments
      BY <1>1, AloneSeatsOnlyLeave DEF BookingMoves, MoneyInv
    <2>2. QED
      BY <2>1, QuietStep DEF payments, money, calls, history, PaidStays, CallsStand
  <1>2. CASE UNCHANGED allVars
    <2>1. UNCHANGED <<status, target, payments>>
      BY <1>2 DEF allVars, vars
    <2>2. QED
      BY <2>1, QuietStep DEF payments, money, calls, history, PaidStays, CallsStand, Seated
  <1>3. CASE OrderStep
    <2>1. CASE \E k \in Buyers, c \in Callers : MarkOrderPaid(k, c)
      BY <2>1, MarkAccounted
    <2>2. CASE \A k \in Buyers, c \in Callers : ~MarkOrderPaid(k, c)
      <3>1. /\ PaidStays /\ CallsStand /\ status' = status /\ replayed' = replayed
            /\ \A o \in Orders : orderStatus'[o] = "paid" <=> orderStatus[o] = "paid"
        BY <1>3, <2>2, OrderMoves DEF MoneyInv
      <3>2. Seated' \subseteq Seated
        BY <3>1 DEF Seated
      <3>3. QED
        BY <3>1, <3>2, QuietStep
    <2>3. QED
      BY <2>1, <2>2
  <1>4. ASSUME NEW c \in Callers, ReportStep(c)
        PROVE  Accounted
    <2>1. ASSUME NEW o \in Orders, ReportPayment(c, o) \/ VerifyPaidOrder(c, o)
          PROVE  Accounted
      BY <2>1, ReportAccounted, VerifyAccounted
    <2>2. CASE ReportProgress(c)
      BY <2>2, ReadsAccounted, StopsAccounted, SeatsAccounted, FullAccounted,
         RefundsAccounted DEF ReportProgress
    <2>3. QED
      BY <1>4, <2>1, <2>2, DiesAccounted DEF ReportStep
  <1>5. ASSUME NEW b \in BookingIds, CancelStep(b)
        PROVE  Accounted
    <2>1. CASE GuestCancels(b)
      <3>1. Cancel(b, FALSE) /\ target' = target /\ Announce(b, RefundPercent(FALSE))
        BY <2>1 DEF GuestCancels, CancelBookingAsUser
      <3>2. QED
        BY <3>1, CancelAccounted
    <2>2. CASE HostCancels(b)
      <3>1. Cancel(b, TRUE) /\ target' = target /\ Announce(b, RefundPercent(TRUE))
        BY <2>2 DEF HostCancels, FanoutCancel
      <3>2. QED
        BY <3>1, CancelAccounted
    <2>3. QED
      BY <1>5, <2>1, <2>2, EventAccounted DEF CancelStep
  <1>6. CASE PaymentJobs
    <2>1. ASSUME NEW o \in Orders, ReconcileOrder(o)
          PROVE  Accounted
      BY <2>1, ReconcileAccounted
    <2>2. CASE ReleaseAbandonedOrders
      <3>1. /\ UNCHANGED <<status, captured>> /\ CallsStand /\ replayed' = replayed
            /\ CloseUnpaid({o \in Orders : status[OrderOf[o]] # "payment_pending"})
        BY <2>2 DEF ReleaseAbandonedOrders, vars, money, calls, history, CallsStand
      <3>2. PaidStays /\ \A o \in Orders : orderStatus'[o] = "paid" <=> orderStatus[o] = "paid"
        BY <3>1, ClosePays DEF MoneyInv
      <3>3. Seated' \subseteq Seated
        BY <3>1 DEF Seated
      <3>4. QED
        BY <3>1, <3>2, <3>3, QuietStep
    <2>3. QED
      BY <1>6, <2>1, <2>2 DEF PaymentJobs
  <1>7. QED
    BY <1>1, <1>2, <1>3, <1>4, <1>5, <1>6 DEF PaidNext

LEMMA MoneyStandsInit ==
  ASSUME PaidInit
  PROVE  PaperInv /\ MoneyStands
  <1>1. Seated = {} /\ \A c \in Callers : target[c] = NoBooking
    BY DEF PaidInit, Init, Seated, SeatedStatuses
  <1>2. PaperInv
    BY <1>1 DEF PaidInit, PaperInv, LatestCaptured, StrandedPaid, ReportsPaid, SeatsOrdered
  <1>3. ASSUME NEW b \in BookingIds
        PROVE  /\ SeatCount(b) + due[b] + Cardinality(FirstReports(b))
                    + Cardinality(Loose(b)) <= Cardinality(Kept(b))
    <2>1. /\ FirstReports(b) = {} /\ Loose(b) = {} /\ Kept(b) = {}
          /\ SeatCount(b) = 0 /\ due[b] = 0
      <3>1. FirstReports(b) = {}
        BY DEF PaidInit, FirstReports
      <3>2. Loose(b) = {} /\ due[b] = 0
        BY DEF PaidInit, Loose
      <3>3. Kept(b) = {}
        BY DEF PaidInit, Kept, OrdersFor
      <3>4. QED
        BY <1>1, <3>1, <3>2, <3>3 DEF SeatCount
    <2>2. Cardinality({}) = 0
      BY FS_EmptySet
    <2>3. QED
      BY <2>1, <2>2
  <1>4. QED
    BY <1>2, <1>3 DEF MoneyStands

(* Whoever has a seat on a priced plan has an order that was paid and whose *)
(* money was not given back, however many payments, reports, deaths,        *)
(* cancellations and refunds interleave; only a message about the booking   *)
(* handled a second time can leave a seat whose money has gone back.        *)
THEOREM PaidSeatsArePaidFor == PaidSpec => []SeatsArePaidFor
  <1>1. PaperInv /\ MoneyStands => SeatsArePaidFor
    <2> SUFFICES ASSUME PaperInv, MoneyStands, NEW b \in Seated
                 PROVE  \E o \in OrdersFor(b) :
                          orderStatus[o] = "paid" /\ (o \notin refunded \/ b \in replayed)
      BY DEF SeatsArePaidFor
    <2>1. CASE b \in replayed
      BY <2>1 DEF PaperInv, SeatsOrdered
    <2>2. CASE b \notin replayed
      <3>1. b \in BookingIds /\ SeatCount(b) = 1 /\ due[b] \in Nat
        BY DEF Seated, SeatCount, PaperInv
      <3>2. Cardinality(Kept(b)) >= 1
        BY <2>2, <3>1, CountedFinite DEF MoneyStands
      <3>3. Kept(b) # {}
        BY <3>2, FS_EmptySet
      <3>4. QED
        BY <3>3 DEF Kept
    <2>3. QED
      BY <2>1, <2>2
  <1>2. TypeOK /\ CaptureInv /\ ReportsAnOrder /\ PaperInv /\ MoneyStands /\ [PaidNext]_allVars
          => (PaperInv /\ MoneyStands)'
    <2> SUFFICES ASSUME TypeOK, CaptureInv, ReportsAnOrder, PaperInv, MoneyStands,
                        [PaidNext]_allVars
                 PROVE  (PaperInv /\ MoneyStands)'
      OBVIOUS
    <2>1. Accounted
      BY StepAccounted DEF MoneyInv
    <2>2. QED
      BY <2>1, ClaimsFit DEF Accounted, PaperInv
  <1>3. PaidSpec => []TypeOK
    BY PaymentsRespectBookings, TypeCorrect, PTL DEF BookingsRespected
  <1>4. QED
    BY <1>1, <1>2, <1>3, MoneyStandsInit, CaptureInvInit, CaptureInvStep,
       ReportsAnOrderInit, ReportsAnOrderStep, PTL DEF PaidSpec
=============================================================================
