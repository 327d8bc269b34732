---------------------------- MODULE PaidBookings ----------------------------
(***************************************************************************)
(* Bookings composed with the payment path (internal/payments, the         *)
(* Cashfree webhook of cmd/api, the reconcile_payments and                 *)
(* release_abandoned_orders jobs and the BOOKING_CANCELLED handler of      *)
(* cmd/worker): orders, captured payments, and the money that goes back.   *)
(*                                                                         *)
(* A report of a payment runs payments.MarkCaptured: it records the        *)
(* payment, then calls ConfirmPaid (two actions of Bookings), then refunds *)
(* if the seat is gone.  An order that credits and coupon cover in full    *)
(* has no payment: its buyer marks it paid and calls ConfirmPaid.  Every   *)
(* step is an action, payments are reported any number of times, and the   *)
(* API process may die between any two steps.  A refund succeeds at once   *)
(* or its caller gives up; Refunds.tla has its failures in detail.  The    *)
(* waitlist is left to Bookings.                                           *)
(***************************************************************************)
EXTENDS Bookings

CONSTANTS
  Orders,      \* order rows that can be inserted
  OrderOf,     \* OrderOf[o]: orders.booking_id
  Buyers,      \* concurrent CreateOrder calls
  NoOrder,     \* "no order"
  MaxDue       \* bound: BOOKING_CANCELLED events of a booking to be handled

ASSUME OrdersAssumption ==
  IsFiniteSet(Orders) /\ NoOrder \notin Orders /\ OrderOf \in [Orders -> BookingIds]
ASSUME CallersAssumption == IsFiniteSet(Callers)
ASSUME MaxDueAssumption == MaxDue \in Nat

VARIABLES
  orderStatus,  \* orders.status, "none" before the row is inserted
  covered,      \* orders with nothing left to charge (amount_minor = 0)
  ordering,     \* ordering[k]: booking buyer k's CreateOrder is working on
  made,         \* made[k]: covered order k inserted and has not marked paid yet
  paidAt,       \* orders whose payment succeeded at the gateway
  captured,     \* orders with a payments row
  latest,       \* latest[b]: order of b's newest captured payment
  refunded,     \* orders whose payment was returned in full
  stage,        \* stage[c]: where caller c's report stands
  order,        \* order[c]: the order it reports
  due,          \* due[b]: BOOKING_CANCELLED events at 100 percent not acknowledged
  stranded,     \* history: paid orders nobody confirms or refunds any more
  replayed      \* history: bookings a message handled again was about

buyers == <<covered, ordering, made>>
calls == <<stage, order>>
money == <<paidAt, captured, latest, refunded, due>>
history == <<stranded, replayed>>
payments == <<orderStatus, buyers, money, calls, history>>
allVars == <<vars, payments>>

OrdersFor(b) == {o \in Orders : OrderOf[o] = b}

PaidInit ==
  /\ Init
  /\ orderStatus = [o \in Orders |-> "none"]
  /\ covered = {}
  /\ ordering = [k \in Buyers |-> NoBooking]
  /\ made = [k \in Buyers |-> NoOrder]
  /\ paidAt = {} /\ captured = {} /\ refunded = {}
  /\ latest = [b \in BookingIds |-> NoOrder]
  /\ stage = [c \in Callers |-> "idle"]
  /\ order = [c \in Callers |-> NoOrder]
  /\ due = [b \in BookingIds |-> 0]
  /\ stranded = {} /\ replayed = {}

-----------------------------------------------------------------------------
(* Opening an order. *)

(* Wrong variant: a paid order is closed too. *)
CloseEvenPaid(os) ==
  orderStatus' = [o \in Orders |->
    IF o \in os /\ orderStatus[o] # "none" THEN "cancelled" ELSE orderStatus[o]]

(* CancelUnpaidOrders of the orders of os: unpaid ones are closed. *)
CloseUnpaid(os) ==
  orderStatus' = [o \in Orders |->
    IF o \in os /\ orderStatus[o] = "created" THEN "cancelled" ELSE orderStatus[o]]

(* CreateOrder, first half: the booking must be waiting for its payment;    *)
(* orders started before are closed.                                        *)
BeginOrder(k, b) ==
  /\ ordering[k] = NoBooking /\ made[k] = NoOrder
  /\ status[b] = "payment_pending"
  /\ CloseUnpaid(OrdersFor(b))
  /\ ordering' = [ordering EXCEPT ![k] = b]
  /\ UNCHANGED <<vars, covered, made, money, calls, history>>

(* The row of buyer k's order is inserted. *)
InsertOrder(k, o) ==
  /\ ordering[k] = OrderOf[o]
  /\ orderStatus[o] = "none"
  /\ orderStatus' = [orderStatus EXCEPT ![o] = "created"]
  /\ ordering' = [ordering EXCEPT ![k] = NoBooking]
  /\ UNCHANGED <<vars, money, calls, history>>

(* CreateOrder, second half: the row and its session at the gateway ...     *)
OpenOrder(k, o) ==
  /\ InsertOrder(k, o)
  /\ UNCHANGED <<covered, made>>

(* ... or the row of an order with nothing left to charge ...               *)
OpenCovered(k, o) ==
  /\ InsertOrder(k, o)
  /\ covered' = covered \cup {o}
  /\ made' = [made EXCEPT ![k] = o]

(* ... which becomes paid, even if it was closed meanwhile, without any     *)
(* payments row; the buyer goes on to ConfirmPaid as caller c.              *)
MarkOrderPaid(k, c) ==
  /\ made[k] # NoOrder
  /\ stage[c] = "idle"
  /\ orderStatus' = [orderStatus EXCEPT ![made[k]] = "paid"]
  /\ stage' = [stage EXCEPT ![c] = "covered"]
  /\ order' = [order EXCEPT ![c] = made[k]]
  /\ made' = [made EXCEPT ![k] = NoOrder]
  /\ UNCHANGED <<vars, covered, ordering, money, history>>

(* The gateway refuses and the booking's orders are closed again. *)
OrderFails(k) ==
  /\ ordering[k] # NoBooking
  /\ CloseUnpaid(OrdersFor(ordering[k]))
  /\ ordering' = [ordering EXCEPT ![k] = NoBooking]
  /\ UNCHANGED <<vars, covered, made, money, calls, history>>

(* CreateOrder ends half way: an error, or the API process died. *)
BuyerDies(k) ==
  /\ ordering[k] # NoBooking \/ made[k] # NoOrder
  /\ ordering' = [ordering EXCEPT ![k] = NoBooking]
  /\ made' = [made EXCEPT ![k] = NoOrder]
  /\ UNCHANGED <<vars, orderStatus, covered, money, calls, history>>

(* The customer pays a session at the gateway.  It does not know which      *)
(* orders this system has closed meanwhile.                                 *)
CustomerPays(o) ==
  /\ orderStatus[o] # "none" /\ o \notin covered
  /\ o \notin paidAt
  /\ paidAt' = paidAt \cup {o}
  /\ UNCHANGED <<vars, orderStatus, buyers, captured, latest, refunded, due,
                 calls, history>>

-----------------------------------------------------------------------------
(* MarkCaptured and VerifyOrder in cmd/api. *)

(* Repository.MarkCaptured: the payment row (once per gateway payment), the *)
(* order becomes paid.                                                      *)
Capture(o) ==
  IF o \in captured
  THEN UNCHANGED <<orderStatus, captured, latest>>
  ELSE /\ orderStatus' = [orderStatus EXCEPT ![o] = "paid"]
       /\ captured' = captured \cup {o}
       /\ latest' = [latest EXCEPT ![OrderOf[o]] = o]

(* The webhook, or VerifyOrder for an order that is not paid yet, reports a *)
(* successful payment.  The code cannot tell and does not ask whether the   *)
(* payment was reported before; "again" is only the model's note of it.     *)
ReportPayment(c, o) ==
  /\ stage[c] = "idle"
  /\ o \in paidAt
  /\ Capture(o)
  /\ stage' = [stage EXCEPT ![c] =
                 IF o \in captured \ stranded THEN "again" ELSE "confirm"]
  /\ order' = [order EXCEPT ![c] = o]
  /\ stranded' = stranded \ {o}
  /\ UNCHANGED <<vars, buyers, paidAt, refunded, due, replayed>>

(* VerifyOrder of a paid order only makes sure the booking followed. *)
VerifyPaidOrder(c, o) ==
  /\ stage[c] = "idle"
  /\ orderStatus[o] = "paid"
  /\ stage' = [stage EXCEPT ![c] = "verify"]
  /\ order' = [order EXCEPT ![c] = o]
  /\ UNCHANGED <<vars, orderStatus, buyers, money, history>>

Confirming(c) == stage[c] \in {"confirm", "again", "verify", "covered"}
Finish(c) ==
  /\ stage' = [stage EXCEPT ![c] = "idle"]
  /\ order' = [order EXCEPT ![c] = NoOrder]

(* ConfirmPaid reads the booking ... *)
ReportReads(c) ==
  /\ Confirming(c)
  /\ ConfirmRead(c, OrderOf[order[c]])
  /\ UNCHANGED payments

(* ... and is done if it has its seat, or fails if it can have none. *)
ReportStops(c) ==
  /\ Confirming(c) /\ target[c] = NoBooking
  /\ status[OrderOf[order[c]]] \notin {"payment_pending", "cancelled"}
  /\ Finish(c)
  /\ UNCHANGED <<vars, orderStatus, buyers, money, history>>

(* A seat taken for an order whose report came before: it is what a         *)
(* stranded order was waiting for, or the work of a repeated report.        *)
ReportSeats(c) ==
  LET o == order[c]
      b == OrderOf[o]
      first == stage[c] \in {"confirm", "covered"} \/ o \in stranded IN
  /\ ConfirmSeat(c)
  /\ Finish(c)
  /\ stranded' = stranded \ {o}
  /\ replayed' = IF first \/ b \in Seated THEN replayed ELSE replayed \cup {b}
  /\ UNCHANGED <<orderStatus, buyers, money>>


(* ErrPlanFull: MarkCaptured goes on to refund, VerifyOrder ignores it, and *)
(* CreateOrder returns it and leaves its order paid.                        *)
ReportFindsFull(c) ==
  LET o == order[c] IN
  /\ ConfirmFull(c)
  /\ IF stage[c] \in {"confirm", "again"}
     THEN stage' = [stage EXCEPT ![c] = "refund"] /\ order' = order
     ELSE Finish(c)
  /\ stranded' = IF stage[c] = "covered" THEN stranded \cup {o} ELSE stranded
  /\ replayed' = IF stage[c] = "again" THEN replayed \cup {OrderOf[o]} ELSE replayed
  /\ UNCHANGED <<orderStatus, buyers, money>>

(* Wrong variant: the refund also closes the booking, behind its back. *)
ReportRefundsBooking(c) ==
  /\ stage[c] = "refund"
  /\ refunded' = refunded \cup {order[c]}
  /\ status' = [status EXCEPT ![OrderOf[order[c]]] = "refunded"]
  /\ Finish(c)
  /\ UNCHANGED <<held, waitlist, planStatus, phase, confirmedCount, participant,
                 checkins, cancelEvents, target, worker, orderStatus, buyers,
                 paidAt, captured, latest, due, history>>

(* refund(payment, whole amount): BeginRefund refuses what was returned.    *)
ReportRefunds(c) ==
  /\ stage[c] = "refund"
  /\ refunded' = refunded \cup {order[c]}
  /\ Finish(c)
  /\ UNCHANGED <<vars, orderStatus, buyers, paidAt, captured, latest, due, history>>

(* The API process dies, the request runs into its timeout, or the refund   *)
(* fails.  If it was the first report its order is on its own now.          *)
ReportDies(c) ==
  /\ stage[c] # "idle"
  /\ IF target[c] # NoBooking THEN ConfirmAbort(c) ELSE UNCHANGED vars
  /\ Finish(c)
  /\ stranded' = IF stage[c] \in {"confirm", "covered", "refund"}
                 THEN stranded \cup {order[c]} ELSE stranded
  /\ UNCHANGED <<orderStatus, buyers, money, replayed>>

-----------------------------------------------------------------------------
(* The worker. *)

(* reconcile_payments.  The worker's payment service has no booking port:   *)
(* the payment is recorded and nothing else happens.                        *)
ReconcileOrder(o) ==
  /\ orderStatus[o] \in {"created", "cancelled"}
  /\ o \in paidAt
  /\ Capture(o)
  /\ stranded' = stranded \cup {o}
  /\ UNCHANGED <<vars, buyers, paidAt, refunded, due, calls, replayed>>

(* release_abandoned_orders. *)
ReleaseAbandonedOrders ==
  /\ CloseUnpaid({o \in Orders : status[OrderOf[o]] # "payment_pending"})
  /\ UNCHANGED <<vars, buyers, money, calls, history>>

(* Wrong variant: every payment the booking ever had goes back. *)
RefundEvery(b) ==
  /\ due[b] > 0
  /\ refunded' = refunded \cup (captured \cap OrdersFor(b))
  /\ UNCHANGED <<vars, orderStatus, buyers, paidAt, captured, latest, calls, stranded>>

(* The BOOKING_CANCELLED handler at 100 percent: what the newest captured   *)
(* payment of the booking is owed goes back.                                *)
RefundNewest(b) ==
  /\ due[b] > 0
  /\ refunded' = refunded \cup ({latest[b]} \ {NoOrder})
  /\ UNCHANGED <<vars, orderStatus, buyers, paidAt, captured, latest, calls, stranded>>

RefundCancelled(b) ==
  /\ RefundNewest(b)
  /\ due' = [due EXCEPT ![b] = @ - 1]
  /\ UNCHANGED replayed

(* ... and the worker dies before the event is acknowledged, so that it     *)
(* will be handled again.                                                   *)
RefundUnacknowledged(b) ==
  /\ RefundNewest(b)
  /\ replayed' = replayed \cup {b}
  /\ UNCHANGED due

-----------------------------------------------------------------------------
(* The steps of the booking component that this composition leaves to their *)
(* own actors; ConfirmPaid is driven by the reports above.                  *)
BookingAlone ==
  \/ \E u \in Users, b \in BookingIds : CreatePaid(u, b)
  \/ \E b \in BookingIds : HoldLapses(b) \/ CheckIn(b) \/ FanoutRetry(b)
  \/ ExpirePending \/ CancelPlan \/ NextPhase
  \/ FanoutExpireWaitlist \/ FanoutList \/ FanoutDone

BookingMoves == BookingAlone /\ UNCHANGED payments

(* A cancelled booking announces itself with the refund it is due; at 0     *)
(* percent the handler of the event returns nothing.                        *)
Announce(b, percent) ==
  LET refundable == status[b] = "confirmed" /\ percent = 100 IN
  /\ refundable => due[b] < MaxDue
  /\ due' = IF refundable THEN [due EXCEPT ![b] = @ + 1] ELSE due
  /\ UNCHANGED <<orderStatus, buyers, paidAt, captured, latest, refunded, calls,
                 history>>

GuestCancels(b) == CancelBookingAsUser(b) /\ Announce(b, RefundPercent(FALSE))
HostCancels(b) == FanoutCancel(b) /\ Announce(b, RefundPercent(TRUE))

OrderStep ==
  \/ \E k \in Buyers :
       \/ \E b \in BookingIds : BeginOrder(k, b)
       \/ \E o \in Orders : OpenOrder(k, o) \/ OpenCovered(k, o)
       \/ \E c \in Callers : MarkOrderPaid(k, c)
       \/ OrderFails(k) \/ BuyerDies(k)
  \/ \E o \in Orders : CustomerPays(o)

ReportProgress(c) ==
  \/ ReportReads(c) \/ ReportStops(c) \/ ReportSeats(c)
  \/ ReportFindsFull(c) \/ ReportRefunds(c)

ReportStep(c) ==
  \/ \E o \in Orders : ReportPayment(c, o) \/ VerifyPaidOrder(c, o)
  \/ ReportProgress(c)
  \/ ReportDies(c)

CancelStep(b) ==
  \/ GuestCancels(b) \/ HostCancels(b)
  \/ RefundCancelled(b) \/ RefundUnacknowledged(b)

PaymentJobs ==
  \/ \E o \in Orders : ReconcileOrder(o)
  \/ ReleaseAbandonedOrders

PaidNext ==
  \/ BookingMoves \/ OrderStep
  \/ \E c \in Callers : ReportStep(c)
  \/ \E b \in BookingIds : CancelStep(b)
  \/ PaymentJobs

PaidSpec == PaidInit /\ [][PaidNext]_allVars

(* Jobs run every minute, an event stays in the stream until it is handled, *)
(* a started report goes on or dies, and holds lapse.  Whether a payment is *)
(* ever reported by webhook or app is up to the network.                    *)
PaidFairness ==
  /\ WF_allVars(\E o \in Orders : ReconcileOrder(o))
  /\ WF_allVars(ExpirePending /\ UNCHANGED payments)
  /\ \A c \in Callers : WF_allVars(ReportProgress(c) \/ ReportDies(c))
  /\ \A b \in BookingIds :
       /\ WF_allVars(RefundCancelled(b))
       /\ WF_allVars(HoldLapses(b) /\ UNCHANGED payments)

PaidFairSpec == PaidSpec /\ PaidFairness

-----------------------------------------------------------------------------
(* Properties. *)

PaidTypeOK ==
  /\ TypeOK
  /\ orderStatus \in [Orders -> {"none", "created", "cancelled", "paid"}]
  /\ covered \subseteq Orders
  /\ ordering \in [Buyers -> BookingIds \cup {NoBooking}]
  /\ made \in [Buyers -> Orders \cup {NoOrder}]
  /\ refunded \subseteq captured /\ captured \subseteq paidAt
  /\ paidAt \subseteq Orders
  /\ latest \in [BookingIds -> Orders \cup {NoOrder}]
  /\ stage \in [Callers -> {"idle", "confirm", "again", "verify", "covered", "refund"}]
  /\ order \in [Callers -> Orders \cup {NoOrder}]
  /\ due \in [BookingIds -> Nat]
  /\ stranded \subseteq Orders /\ replayed \subseteq BookingIds

(* Every step of the composition is a step of the booking component: the    *)
(* payment path reaches the seats only through ConfirmPaid.                 *)
BookingsRespected == Spec

(* A captured payment and a paid order are one and the same thing, however  *)
(* webhook, app and worker race, except where credits and coupon covered    *)
(* the order: such an order is paid without any payment.  So money is never *)
(* recorded for an order that a later CreateOrder or job can still close.   *)
CapturedOrdersArePaid ==
  \A o \in Orders : o \in captured <=> orderStatus[o] = "paid" /\ o \notin covered

(* Whoever has a seat on a priced plan has an order that was paid, and its  *)
(* money was not given back, whatever confirmations, deaths, cancellations, *)
(* refunds and second orders interleave.  Only a message about the booking  *)
(* that was handled again (a payment reported once more, a cancellation     *)
(* event redelivered) can leave a seat whose money has gone back.           *)
SeatsArePaidFor ==
  \A b \in Seated :
    \E o \in OrdersFor(b) :
      orderStatus[o] = "paid" /\ (o \notin refunded \/ b \in replayed)

(* The customer of o has the seat, the money, or cancelled too late for it. *)
Settled(o) ==
  \/ OrderOf[o] \in Seated
  \/ o \in refunded
  \/ <<OrderOf[o], 0>> \in cancelEvents


-----------------------------------------------------------------------------
(* What the comments say and the code does not keep. *)

(* MarkCaptured: "Replays are harmless."  A payment reported once more does *)
(* not hand out a seat whose money has gone back.                           *)
ReplaysAreHarmless ==
  \A b \in Seated :
    \E o \in OrdersFor(b) : orderStatus[o] = "paid" /\ o \notin refunded

(* ReconcileOrders is "the safety net": "A payment that lands after its     *)
(* seat was released is refunded by MarkCaptured."                          *)
EveryPaymentSettles ==
  \A o \in Orders :
    o \in captured /\ latest[OrderOf[o]] = o
      ~> Settled(o) \/ latest[OrderOf[o]] # o

=============================================================================
