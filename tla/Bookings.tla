------------------------------ MODULE Bookings ------------------------------
(***************************************************************************)
(* The booking component (internal/bookings) for one published plan: the   *)
(* seats, the 15-minute payment holds, the waitlist with its timed offers, *)
(* check-in, and the jobs and event handlers of cmd/worker that touch      *)
(* them.  Every action is one database transaction or one statement run    *)
(* outside a transaction.  The plan row lock (SELECT ... FOR UPDATE) makes *)
(* Create, Cancel, JoinWaitlist, LeaveWaitlist and the re-offer atomic;    *)
(* ConfirmPaid is two actions because it reads the booking before it takes *)
(* that lock.  Clocks are abstracted: a hold or an offer is live until it  *)
(* lapses, and the plan moves through five phases of its calendar.         *)
(***************************************************************************)
EXTENDS Integers, FiniteSets

CONSTANTS
  Users,          \* people who may book the plan
  BookingIds,     \* booking rows that can be inserted
  Owner,          \* Owner[b]: bookings.user_id of row b
  Capacity,       \* plans.capacity
  Priced,         \* plans.price_minor > 0
  HasEnd,         \* plans.ends_at > plans.starts_at
  Callers,        \* concurrent callers of ConfirmPaid
  Workers,        \* worker replicas that run SweepWaitlist
  AdminStatuses,  \* statuses an admin override is allowed to write in a run
  LastPhase,      \* bound: how far the plan's calendar moves
  MaxDeliver,     \* how often the bus delivers one message (maxDeliveries)
  MaxCancels,     \* bound: PLAN_CANCELLED messages in the stream at a time
  MaxCrashes,     \* bound: worker crashes in a behaviour
  NoBooking       \* "no row"

ASSUME UsersAssumption == IsFiniteSet(Users)
ASSUME BookingIdsAssumption == IsFiniteSet(BookingIds) /\ NoBooking \notin BookingIds
ASSUME OwnerAssumption == Owner \in [BookingIds -> Users]
ASSUME CapacityAssumption == Capacity \in Nat
ASSUME FlagsAssumption == Priced \in BOOLEAN /\ HasEnd \in BOOLEAN
ASSUME BusAssumption == MaxDeliver \in Nat \ {0}
ASSUME BoundsAssumption ==
  LastPhase \in 0..4 /\ MaxCancels \in Nat /\ MaxCrashes \in Nat
ASSUME AdminAssumption == AdminStatuses \subseteq {"refunded", "no_show", "attended"}

VARIABLES
  status,          \* bookings.status, "none" before the row is inserted
  held,            \* payment_pending rows whose expires_at is in the future
  waiting,         \* users with a 'waiting' waitlist entry
  ahead,           \* ahead[u]: waiting users whose entry is older than u's
  offered,         \* users with an 'offered' entry
  offerLive,       \* ... whose offer_expires_at is in the future
  planStatus,      \* plans.status
  phase,           \* where the clock stands relative to the plan
  confirmedCount,  \* plans.confirmed_count
  participant,     \* booking_id of the user's 'confirmed' plan_participants row
  checkins,        \* bookings with a checkins row
  cancelEvents,    \* BOOKING_CANCELLED rows written: <<booking, refund_percent>>
  target,          \* target[c]: booking caller c read and is about to confirm
  reoffering,      \* workers between the two statements of SweepWaitlist
  fanout,          \* where the PLAN_CANCELLED handler stands
  todo,            \* bookings that handler still has to cancel
  deliveries,      \* deliveries the PLAN_CANCELLED messages have left
  crashes          \* worker crashes so far

waitlist == <<waiting, ahead, offered, offerLive>>
worker == <<reoffering, fanout, todo, deliveries, crashes>>
vars == <<status, held, waitlist, planStatus, phase, confirmedCount,
          participant, checkins, cancelEvents, target, worker>>

Statuses == {"none", "payment_pending", "confirmed", "cancelled", "attended",
             "no_show", "refunded"}

Far == 0       \* at least RefundFullHours before the start
Near == 1      \* less than that, not started
Started == 2
Ended == 3     \* ends_at is past
NoShowDue == 4 \* ends_at + noShowGrace is past

(* A booking that has its seat; the other statuses have none. *)
SeatedStatuses == {"confirmed", "attended", "no_show"}
Seated == {b \in BookingIds : status[b] \in SeatedStatuses}

BookingsOf(u) == {b \in BookingIds : Owner[b] = u}
Pending == {b \in BookingIds : status[b] = "payment_pending"}
Confirmed == {b \in BookingIds : status[b] = "confirmed"}

Init ==
  /\ status = [b \in BookingIds |-> "none"]
  /\ held = {}
  /\ waiting = {} /\ offered = {} /\ offerLive = {}
  /\ ahead = [u \in Users |-> {}]
  /\ planStatus = "published" /\ phase = Far
  /\ confirmedCount = 0
  /\ participant = [u \in Users |-> NoBooking]
  /\ checkins = {}
  /\ cancelEvents = {}
  /\ target = [c \in Callers |-> NoBooking]
  /\ reoffering = {} /\ fanout = "none" /\ todo = {}
  /\ deliveries = 0 /\ crashes = 0

-----------------------------------------------------------------------------
(* Shared pieces of the transactions. *)

(* Wrong variant: forgets the offers. *)
ActiveHoldsWithoutOffers(u) == Cardinality({b \in held : Owner[b] # u})

(* Seats held for anyone but u: live offers plus live payment holds. *)
ActiveHolds(u) ==
  Cardinality(offerLive \ {u}) + Cardinality({b \in held : Owner[b] # u})

(* The queue once only the entries of w are waiting. *)
Line(w) == [u \in Users |-> IF u \in w THEN ahead[u] \cap w ELSE {}]

(* Entries of users gone leave the waitlist (accepted, left or expired). *)
LeaveLine(gone) ==
  /\ waiting' = waiting \ gone
  /\ ahead' = Line(waiting \ gone)
  /\ offered' = offered \ gone
  /\ offerLive' = offerLive \ gone

(* Wrong variant: the waitlist entry is left behind. *)
SeatConfirmedBookingKeepsEntry(b) ==
  /\ participant' = [participant EXCEPT ![Owner[b]] = b]
  /\ confirmedCount' = confirmedCount + 1
  /\ UNCHANGED waitlist

(* seatConfirmedBooking: the participant row, the count, the used entry. *)
SeatConfirmedBooking(b) ==
  /\ participant' = [participant EXCEPT ![Owner[b]] = b]
  /\ confirmedCount' = confirmedCount + 1
  /\ LeaveLine({Owner[b]})

(* Seats offerFreedSeats may offer once count seats are confirmed and the   *)
(* offers of live are outstanding.                                          *)
FreeSeats(count, live) ==
  IF planStatus = "published" /\ phase < Started
  THEN Capacity - count - Cardinality(live) - Cardinality(held)
  ELSE 0

(* Wrong variant: the newest come first. *)
PromotedNewest(count, w, live) ==
  {u \in w : Cardinality({v \in w : u \in ahead[v]}) < FreeSeats(count, live)}

(* The heads of the line (w waits) that get those seats. *)
Promoted(count, w, live) ==
  {u \in w : Cardinality(ahead[u] \cap w) < FreeSeats(count, live)}

(* offerFreedSeats, after the caller's own change left count seats          *)
(* confirmed and the users of w, o and live waiting, offered, offered live. *)
OfferFreedSeats(count, w, o, live) ==
  LET next == Promoted(count, w, live) IN
  /\ waiting' = w \ next
  /\ ahead' = Line(w \ next)
  /\ offered' = o \cup next
  /\ offerLive' = live \cup next

(* RefundPercent: the platform's cancellation policy. *)
RefundPercent(byHost) == IF byHost \/ phase = Far THEN 100 ELSE 0

-----------------------------------------------------------------------------
(* Booking a seat. *)

(* The checks of Create, made under the plan row lock. *)
CanCreate(u) ==
  /\ planStatus = "published"
  /\ confirmedCount + ActiveHolds(u) < Capacity
  /\ BookingsOf(u) \cap Confirmed = {}

(* Wrong variant: every retry starts a new hold. *)
HasNoHoldIgnored(u) == TRUE

(* Create looks for a live hold of the same user first. *)
HasNoHold(u) == BookingsOf(u) \cap held = {}

(* Create on a priced plan: the user's dead holds are closed and a new one  *)
(* starts.  With a live hold of their own the call returns that booking.    *)
CreatePaid(u, b) ==
  /\ Priced
  /\ CanCreate(u)
  /\ HasNoHold(u)
  /\ b \in BookingsOf(u) /\ status[b] = "none"
  /\ status' = [x \in BookingIds |->
                  IF x = b THEN "payment_pending"
                  ELSE IF x \in BookingsOf(u) \cap Pending THEN "cancelled"
                  ELSE status[x]]
  /\ held' = held \cup {b}
  /\ UNCHANGED <<waitlist, planStatus, phase, confirmedCount, participant,
                 checkins, cancelEvents, target, worker>>

(* Create on a free plan confirms at once. *)
CreateFree(u, b) ==
  /\ ~Priced
  /\ CanCreate(u)
  /\ b \in BookingsOf(u) /\ status[b] = "none"
  /\ status' = [status EXCEPT ![b] = "confirmed"]
  /\ SeatConfirmedBooking(b)
  /\ UNCHANGED <<held, planStatus, phase, checkins, cancelEvents, target, worker>>

(* ConfirmPaid, first half: the booking is read without a lock.  Any order  *)
(* ever made for the booking may be paid late and be reported again, so the *)
(* call can come in every status.  Confirmed and attended bookings return   *)
(* nil and the rest ErrBookingNotFound, both without a change of state.     *)
ConfirmRead(c, b) ==
  /\ Priced
  /\ target[c] = NoBooking
  /\ status[b] \in {"payment_pending", "cancelled"}
  /\ target' = [target EXCEPT ![c] = b]
  /\ UNCHANGED <<status, held, waitlist, planStatus, phase, confirmedCount,
                 participant, checkins, cancelEvents, worker>>

(* Wrong variants: off by one, and no check of the capacity at all. *)
SeatForOneMore(b) ==
  planStatus = "published" /\ confirmedCount + ActiveHolds(Owner[b]) <= Capacity
SeatForAnyone(b) == planStatus = "published"

(* ConfirmPaid seats a booking of a published plan that is not full. *)
SeatFor(b) ==
  planStatus = "published" /\ confirmedCount + ActiveHolds(Owner[b]) < Capacity

(* ConfirmPaid, second half, under the plan row lock: there is a seat. *)
ConfirmSeat(c) ==
  LET b == target[c] IN
  /\ b # NoBooking
  /\ SeatFor(b)
  /\ status' = [status EXCEPT ![b] = "confirmed"]
  /\ held' = held \ {b}
  /\ SeatConfirmedBooking(b)
  /\ target' = [target EXCEPT ![c] = NoBooking]
  /\ UNCHANGED <<planStatus, phase, checkins, cancelEvents, worker>>

(* ... or there is none: ErrPlanFull. *)
ConfirmFull(c) ==
  LET b == target[c] IN
  /\ b # NoBooking
  /\ ~SeatFor(b)
  /\ target' = [target EXCEPT ![c] = NoBooking]
  /\ UNCHANGED <<status, held, waitlist, planStatus, phase, confirmedCount,
                 participant, checkins, cancelEvents, worker>>

(* The transaction is rolled back: the process died or the database failed. *)
ConfirmAbort(c) ==
  /\ target[c] # NoBooking
  /\ target' = [target EXCEPT ![c] = NoBooking]
  /\ UNCHANGED <<status, held, waitlist, planStatus, phase, confirmedCount,
                 participant, checkins, cancelEvents, worker>>

(* Wrong variant: the holds of a plan that is over are forgotten. *)
LapsedOfPublishedPlan == IF planStatus = "published" THEN Pending \ held ELSE {}

(* What the expire_pending job selects. *)
Lapsed == Pending \ held

(* The expire_pending job: one UPDATE over the lapsed holds.  It takes no   *)
(* plan lock and offers the seats to nobody.                                *)
ExpirePending ==
  /\ Lapsed # {}
  /\ status' = [b \in BookingIds |-> IF b \in Lapsed THEN "cancelled" ELSE status[b]]
  /\ UNCHANGED <<held, waitlist, planStatus, phase, confirmedCount,
                 participant, checkins, cancelEvents, target, worker>>

-----------------------------------------------------------------------------
(* Giving a seat back. *)

(* Wrong variant: the hold outlives its booking. *)
ReleaseHoldLate(b) ==
  /\ status[b] = "payment_pending"
  /\ status' = [status EXCEPT ![b] = "cancelled"]
  /\ UNCHANGED <<held, waitlist, confirmedCount, participant, cancelEvents>>

(* Repository.Cancel of a booking that was only waiting for its payment. *)
ReleaseHold(b) ==
  /\ status[b] = "payment_pending"
  /\ status' = [status EXCEPT ![b] = "cancelled"]
  /\ held' = held \ {b}
  /\ UNCHANGED <<waitlist, confirmedCount, participant, cancelEvents>>

(* Wrong variant: the participant row stays confirmed. *)
LeaveRosterNever(b) == participant' = participant

(* The participant row of the booking is cancelled. *)
LeaveRoster(b) ==
  participant' = [u \in Users |->
                    IF participant[u] = b THEN NoBooking ELSE participant[u]]

(* Repository.Cancel of a confirmed booking. *)
ReleaseSeat(b, byHost) ==
  /\ status[b] = "confirmed"
  /\ status' = [status EXCEPT ![b] = "cancelled"]
  /\ confirmedCount' = confirmedCount - 1
  /\ LeaveRoster(b)
  /\ OfferFreedSeats(confirmedCount - 1, waiting, offered, offerLive)
  /\ cancelEvents' = cancelEvents \cup {<<b, RefundPercent(byHost)>>}
  /\ UNCHANGED held

Cancel(b, byHost) == ReleaseHold(b) \/ ReleaseSeat(b, byHost)

(* CancelBookingAsUser and LeavePlan.  The guest, the plan's host and an    *)
(* admin take this path alike, and none of them counts as the host.         *)
CancelBookingAsUser(b) ==
  /\ Cancel(b, FALSE)
  /\ UNCHANGED <<planStatus, phase, checkins, target, worker>>

(* plans.Repository.Cancel, whatever the plan's status, with its event: one *)
(* more message for the handler below.                                      *)
CancelPlan ==
  /\ deliveries + MaxDeliver <= MaxCancels * MaxDeliver
  /\ planStatus' = "cancelled"
  /\ fanout' = IF fanout \in {"none", "given_up"} THEN "queued" ELSE fanout
  /\ deliveries' = deliveries + MaxDeliver
  /\ UNCHANGED <<status, held, waitlist, phase, confirmedCount, participant,
                 checkins, cancelEvents, target, reoffering, todo, crashes>>

(* The PLAN_CANCELLED handler of the worker: expire the waitlist ... *)
FanoutExpireWaitlist ==
  /\ fanout = "queued"
  /\ LeaveLine(Users)
  /\ fanout' = "listing"
  /\ deliveries' = deliveries - 1
  /\ UNCHANGED <<status, held, planStatus, phase, confirmedCount, participant,
                 checkins, cancelEvents, target, reoffering, todo, crashes>>

(* ... list the confirmed bookings ... *)
FanoutList ==
  /\ fanout = "listing"
  /\ todo' = Confirmed
  /\ fanout' = "cancelling"
  /\ UNCHANGED <<status, held, waitlist, planStatus, phase, confirmedCount,
                 participant, checkins, cancelEvents, target, reoffering,
                 deliveries, crashes>>

(* ... cancel them one by one, as the host ... *)
FanoutCancel(b) ==
  /\ fanout = "cancelling"
  /\ b \in todo
  /\ Cancel(b, TRUE)
  /\ todo' = todo \ {b}
  /\ UNCHANGED <<planStatus, phase, checkins, target, reoffering, fanout,
                 deliveries, crashes>>

(* Wrong variant: the event is acknowledged although a step failed. *)
RedeliverNever == fanout' = "none" /\ todo' = {} /\ UNCHANGED deliveries

(* A delivery of PLAN_CANCELLED failed: the bus delivers it again and its   *)
(* handler starts over, unless this was the last delivery it allows; the    *)
(* message is then given up (Term).                                         *)
Redeliver ==
  /\ fanout' = IF deliveries > 0 THEN "queued" ELSE "given_up"
  /\ todo' = {}
  /\ UNCHANGED deliveries

(* ... and stop at the first that is no longer confirmed: the error goes    *)
(* back to the bus.                                                         *)
FanoutRetry(b) ==
  /\ fanout = "cancelling"
  /\ b \in todo
  /\ status[b] \notin {"confirmed", "payment_pending"}
  /\ Redeliver
  /\ UNCHANGED <<status, held, waitlist, planStatus, phase, confirmedCount,
                 participant, checkins, cancelEvents, target, reoffering, crashes>>

(* The message is acknowledged.  A second one would find the plan empty.    *)
FanoutDone ==
  /\ fanout = "cancelling"
  /\ todo = {}
  /\ fanout' = "none"
  /\ deliveries' = 0
  /\ UNCHANGED <<status, held, waitlist, planStatus, phase, confirmedCount,
                 participant, checkins, cancelEvents, target, reoffering, todo,
                 crashes>>

-----------------------------------------------------------------------------
(* The waitlist. *)

(* JoinWaitlist is refused once the plan started, to a confirmed user, and  *)
(* while there is a free seat; a live offer is reported back as it is.  A   *)
(* waiting entry keeps its place, and so does an offered one whose offer    *)
(* lapsed and was not swept yet.                                            *)
JoinWaitlist(u) ==
  /\ planStatus = "published" /\ phase < Started
  /\ BookingsOf(u) \cap Confirmed = {}
  /\ confirmedCount + ActiveHolds(u) >= Capacity
  /\ u \notin waiting \cup offered
  /\ waiting' = waiting \cup {u}
  /\ ahead' = [ahead EXCEPT ![u] = waiting]
  /\ UNCHANGED <<status, held, offered, offerLive, planStatus, phase,
                 confirmedCount, participant, checkins, cancelEvents, target,
                 worker>>

(* LeaveWaitlist releases a held offer to the next in line. *)
LeaveWaitlist(u) ==
  /\ OfferFreedSeats(confirmedCount, waiting \ {u}, offered \ {u},
                     offerLive \ {u})
  /\ UNCHANGED <<status, held, planStatus, phase, confirmedCount, participant,
                 checkins, cancelEvents, target, worker>>

(* SweepWaitlist, first statement: the lapsed offers expire. *)
SweepExpire(w) ==
  /\ w \notin reoffering
  /\ offered # offerLive
  /\ offered' = offerLive
  /\ reoffering' = reoffering \cup {w}
  /\ UNCHANGED <<status, held, waiting, ahead, offerLive, planStatus, phase,
                 confirmedCount, participant, checkins, cancelEvents, target,
                 fanout, todo, deliveries, crashes>>

(* SweepWaitlist, second transaction: their seats are offered again. *)
SweepOffer(w) ==
  /\ w \in reoffering
  /\ OfferFreedSeats(confirmedCount, waiting, offered, offerLive)
  /\ reoffering' = reoffering \ {w}
  /\ UNCHANGED <<status, held, planStatus, phase, confirmedCount, participant,
                 checkins, cancelEvents, target, fanout, todo, deliveries,
                 crashes>>

(* A worker process dies: a half-done sweep is forgotten, the delivery it   *)
(* was handling has failed.                                                 *)
WorkerCrash ==
  /\ crashes < MaxCrashes
  /\ reoffering # {} \/ fanout \in {"listing", "cancelling"}
  /\ crashes' = crashes + 1
  /\ reoffering' = {}
  /\ IF fanout \in {"listing", "cancelling"}
     THEN Redeliver
     ELSE UNCHANGED <<fanout, todo, deliveries>>
  /\ UNCHANGED <<status, held, waitlist, planStatus, phase, confirmedCount,
                 participant, checkins, cancelEvents, target>>

-----------------------------------------------------------------------------
(* The day of the plan. *)

(* Wrong variant: the booking keeps its status at the door. *)
CheckInRowOnly(b) ==
  /\ status[b] = "confirmed"
  /\ checkins' = checkins \cup {b}
  /\ UNCHANGED <<status, held, waitlist, planStatus, phase, confirmedCount,
                 participant, cancelEvents, target, worker>>

(* CheckIn and ScanPass: only a confirmed booking is checked in. *)
CheckIn(b) ==
  /\ status[b] = "confirmed"
  /\ status' = [status EXCEPT ![b] = "attended"]
  /\ checkins' = checkins \cup {b}
  /\ UNCHANGED <<held, waitlist, planStatus, phase, confirmedCount,
                 participant, cancelEvents, target, worker>>

(* The complete_plans job. *)
CompleteEndedPlan ==
  /\ planStatus = "published" /\ HasEnd /\ phase >= Ended
  /\ planStatus' = "completed"
  /\ UNCHANGED <<status, held, waitlist, phase, confirmedCount, participant,
                 checkins, cancelEvents, target, worker>>

(* The mark_no_shows job, only where the host used check-in at all. *)
MarkNoShows ==
  /\ HasEnd /\ phase = NoShowDue
  /\ checkins # {}
  /\ Confirmed # {}
  /\ status' = [b \in BookingIds |->
                  IF b \in Confirmed THEN "no_show" ELSE status[b]]
  /\ UNCHANGED <<held, waitlist, planStatus, phase, confirmedCount,
                 participant, checkins, cancelEvents, target, worker>>

(* The admin override writes the status and nothing else. *)
OverrideBookingStatus(b, s) ==
  /\ status[b] # "none"
  /\ status' = [status EXCEPT ![b] = s]
  /\ held' = held \ {b}
  /\ UNCHANGED <<waitlist, planStatus, phase, confirmedCount, participant,
                 checkins, cancelEvents, target, worker>>

(* Time: a hold lapses, an offer lapses, the plan's calendar moves on. *)
HoldLapses(b) ==
  /\ b \in held
  /\ held' = held \ {b}
  /\ UNCHANGED <<status, waitlist, planStatus, phase, confirmedCount,
                 participant, checkins, cancelEvents, target, worker>>

OfferLapses(u) ==
  /\ u \in offerLive
  /\ offerLive' = offerLive \ {u}
  /\ UNCHANGED <<status, held, waiting, ahead, offered, planStatus, phase,
                 confirmedCount, participant, checkins, cancelEvents, target,
                 worker>>

NextPhase ==
  /\ phase < LastPhase
  /\ phase' = phase + 1
  /\ UNCHANGED <<status, held, waitlist, planStatus, confirmedCount,
                 participant, checkins, cancelEvents, target, worker>>

-----------------------------------------------------------------------------
BookingStep(b) ==
  \/ CancelBookingAsUser(b)
  \/ CheckIn(b)
  \/ \E s \in AdminStatuses : OverrideBookingStatus(b, s)
  \/ HoldLapses(b)

UserStep(u) ==
  \/ \E b \in BookingIds : CreatePaid(u, b) \/ CreateFree(u, b)
  \/ JoinWaitlist(u) \/ LeaveWaitlist(u)
  \/ OfferLapses(u)

ConfirmStep(c) ==
  \/ \E b \in BookingIds : ConfirmRead(c, b)
  \/ ConfirmSeat(c) \/ ConfirmFull(c) \/ ConfirmAbort(c)

FanoutStep ==
  \/ FanoutExpireWaitlist \/ FanoutList \/ FanoutDone
  \/ \E b \in BookingIds : FanoutCancel(b) \/ FanoutRetry(b)

PlanStep == CancelPlan \/ CompleteEndedPlan \/ MarkNoShows \/ NextPhase

WorkerStep ==
  \/ ExpirePending
  \/ \E w \in Workers : SweepExpire(w) \/ SweepOffer(w)
  \/ WorkerCrash

Next ==
  \/ \E b \in BookingIds : BookingStep(b)
  \/ \E u \in Users : UserStep(u)
  \/ \E c \in Callers : ConfirmStep(c)
  \/ FanoutStep \/ PlanStep \/ WorkerStep

Spec == Init /\ [][Next]_vars

(* The worker ticks every minute and its consumers keep polling, and the    *)
(* clock moves; nobody is obliged to book, pay, cancel or check in.         *)
Fairness ==
  /\ WF_vars(ExpirePending)
  /\ WF_vars(FanoutStep)
  /\ \A b \in BookingIds : WF_vars(HoldLapses(b))
  /\ \A u \in Users : WF_vars(OfferLapses(u))
  /\ \A w \in Workers : WF_vars(SweepExpire(w)) /\ WF_vars(SweepOffer(w))

FairSpec == Spec /\ Fairness

-----------------------------------------------------------------------------
(* Properties. *)

(* Every column holds a value of its type; the live holds and offers are    *)
(* among the pending bookings and the offered entries.                      *)
TypeOK ==
  /\ status \in [BookingIds -> Statuses]
  /\ held \subseteq Pending
  /\ waiting \subseteq Users /\ offered \subseteq Users
  /\ ahead \in [Users -> SUBSET Users]
  /\ offerLive \subseteq offered
  /\ planStatus \in {"published", "completed", "cancelled"}
  /\ phase \in Far..NoShowDue
  /\ confirmedCount \in Int
  /\ participant \in [Users -> BookingIds \cup {NoBooking}]
  /\ checkins \subseteq BookingIds
  /\ cancelEvents \subseteq BookingIds \X {0, 100}
  /\ target \in [Callers -> BookingIds \cup {NoBooking}]
  /\ reoffering \subseteq Workers
  /\ fanout \in {"none", "queued", "listing", "cancelling", "given_up"}
  /\ todo \subseteq BookingIds
  /\ deliveries \in Nat /\ (fanout = "queued" => deliveries > 0)
  /\ crashes \in Nat

(* The counter Create and ConfirmPaid test never runs below the seats that  *)
(* are really taken, nor above the capacity, whatever confirmations, hold   *)
(* expiries and cancellations interleave: the plan is never overbooked.     *)
NoOverbooking ==
  /\ Cardinality(Seated) <= confirmedCount
  /\ confirmedCount <= Capacity

(* People who were promised a seat and are not on the roster yet. *)
PromisedTo ==
  {u \in Users : /\ u \in offerLive \/ BookingsOf(u) \cap held # {}
                 /\ participant[u] = NoBooking}

(* Every live waitlist offer and every live payment hold has a seat behind  *)
(* it: the counter and the promises together fit the plan.                  *)
PromisesFit ==
  confirmedCount + Cardinality(PromisedTo) <= Capacity

(* A retried "Reserve" never stacks holds: a person has at most one.        *)
OneHoldEach == \A u \in Users : Cardinality(BookingsOf(u) \cap held) <= 1

(* The roster and the bookings agree: a participant row that is not         *)
(* cancelled belongs to a booking of that user that still has its seat.     *)
RosterHasSeats ==
  \A u \in Users :
    LET b == participant[u] IN
    b # NoBooking => b \in BookingsOf(u) /\ b \in Seated

(* Nobody holds a confirmed booking and a place in line or an offer at the  *)
(* same time, so no offer is wasted on someone who already has a seat.      *)
ConfirmedLeaveLine ==
  \A u \in Users : BookingsOf(u) \cap Confirmed # {} => u \notin waiting \cup offered

(* Seats are offered in the order people joined: nobody gets an offer while *)
(* someone who has waited longer keeps waiting.                             *)
OffersInOrder ==
  [][\A u \in Users, v \in Users :
       (v \in offered' \ offered /\ u \in ahead[v]) => u \notin waiting']_vars

(* Nobody who was checked in at the door is recorded as a no-show.          *)
NoShowWasAbsent == \A b \in BookingIds : status[b] = "no_show" => b \notin checkins

(* A hold nobody pays for is released in the end, and the seat with it.     *)
HoldsEnd ==
  \A b \in BookingIds :
    status[b] = "payment_pending" ~> status[b] # "payment_pending"

(* The fan-out of a cancelled plan reaches every confirmed booking, though  *)
(* guests cancel at the same time and the worker may die half way - unless  *)
(* MaxDeliver deliveries of its message failed and the bus gave it up.      *)
CancelledPlanEmpties ==
  planStatus = "cancelled" ~>
    \/ Confirmed = {} /\ waiting \cup offered = {}
    \/ fanout = "given_up"

(* Seats are taken and given back as the abstract ledger allows. *)
Ledger == INSTANCE SeatLedger WITH seated <- Seated
ImplementsLedger == Ledger!LedgerSpec

-----------------------------------------------------------------------------
(* What the comments and the README say and the code does not keep: each is *)
(* the property of a configuration that TLC reports violated.               *)

(* ConfirmPaid "is idempotent (already confirmed -> nil)": one booking never *)
(* counts for two seats.                                                    *)
CountIsExact == confirmedCount = Cardinality(Seated)

(* "The seat is held until then; pay before it or the hold is released": a  *)
(* payment that arrives within its hold finds a seat.                       *)
LiveHoldHasSeat == planStatus = "published" => \A b \in held : SeatFor(b)

(* SweepWaitlist "re-offers the freed seats": a free seat does not stay     *)
(* unoffered for ever while somebody waits for it.                          *)
FreeSeatReachesLine ==
  (waiting # {} /\ FreeSeats(confirmedCount, offerLive) > 0)
    ~> ~(waiting # {} /\ FreeSeats(confirmedCount, offerLive) > 0)

=============================================================================
