------------------------------- MODULE Refunds -------------------------------
(***************************************************************************)
(* The money that goes back (internal/payments): the refund attempts for   *)
(* one captured payment, started by the BOOKING_CANCELLED handler of the   *)
(* workers and by calls in cmd/api (a staff refund, or a payment whose     *)
(* seat was lost), and the gateway's late word on them.                    *)
(*                                                                         *)
(* The event reaches the workers through Outbox.  The handler reads what   *)
(* was returned already without a lock; BeginRefund checks again under the *)
(* payment row lock; the gateway is called outside any transaction.        *)
(***************************************************************************)
EXTENDS Outbox, FiniteSetsExt

CONSTANTS
  Paid,         \* payments.amount_minor
  Staff,        \* concurrent refund calls in cmd/api
  Attempts,     \* bound: refund rows, numbered in the order of insertion
  MaxErrors,    \* bound: errors of the gateway and deaths of cmd/api
  Percents,     \* refund_percent of the events
  LateFailures  \* the gateway may fail a refund it had accepted

ASSUME PaidAssumption == Paid \in Nat \ {0}
ASSUME AttemptsAssumption == Attempts \in Nat /\ MaxErrors \in Nat
ASSUME StaffAssumption == Staff \cap Workers = {}
ASSUME PercentsAssumption == Percents \subseteq Nat
ASSUME GatewayAssumption == LateFailures \in BOOLEAN

Refunders == Workers \cup Staff
Rows == 1..Attempts

VARIABLES
  status,    \* refunds.status, "none" before the row is inserted
  amount,    \* refunds.amount_minor
  gateway,   \* what the gateway does with the refund of that id
  entries,   \* refunds with a reconciliation entry
  stage,     \* stage[c]: where caller c stands
  owed,      \* owed[c]: what c is about to return
  row,       \* row[c]: its attempt
  percent,   \* percent[e]: refund_percent event e carries
  unheard,   \* history: refunds the gateway took while the caller got an error
  errors     \* errors and deaths so far

call == <<stage, owed, row>>
refund == <<status, amount, gateway, entries>>
others == <<percent, unheard, errors>>
all == <<outbox, refund, call, others>>

RefundsInit ==
  /\ OutboxInit
  /\ status = [r \in Rows |-> "none"]
  /\ amount = [r \in Rows |-> 0]
  /\ gateway = [r \in Rows |-> "none"]
  /\ entries = {}
  /\ stage = [c \in Refunders |-> "idle"]
  /\ owed = [c \in Refunders |-> 0]
  /\ row = [c \in Refunders |-> None]
  /\ percent \in [Events -> Percents]
  /\ unheard = {}
  /\ errors = 0

Total(rs) == MapThenSumSet(LAMBDA r : amount[r], rs)

(* Wrong variant: an attempt counts only once it is settled. *)
CountedSettled == {r \in Rows : status[r] = "processed"}

(* The attempts RefundedTotal and BeginRefund add up. *)
Counted == {r \in Rows : status[r] \notin {"none", "failed"}}
RefundedTotal == Total(Counted)

Error == errors < MaxErrors /\ errors' = errors + 1 /\ UNCHANGED percent
Goes(c, s) == stage' = [stage EXCEPT ![c] = s]

-----------------------------------------------------------------------------
(* A refund starts. *)

(* The worker gets BOOKING_CANCELLED of this booking. *)
HandleCancelled(w, m) ==
  /\ Deliver(w, m)
  /\ Goes(w, "read")
  /\ UNCHANGED <<refund, owed, row, others>>

(* What event e returns of the payment: nothing at 0 percent. *)
Target(e) == (Paid * Min({percent[e], 100})) \div 100

(* RefundBookingIfCaptured: what is owed, less what was returned already. *)
ReadOwed(w) ==
  LET target == Target(handling[w][1]) IN
  /\ stage[w] = "read"
  /\ IF RefundedTotal < target
     THEN owed' = [owed EXCEPT ![w] = target - RefundedTotal] /\ Goes(w, "begin")
     ELSE UNCHANGED owed /\ Goes(w, "notify")
  /\ UNCHANGED <<outbox, refund, row, others>>

(* RefundPayment by staff, any amount; MarkCaptured returns all of it. *)
RefundPayment(c, n) ==
  /\ c \in Staff
  /\ stage[c] = "idle"
  /\ owed' = [owed EXCEPT ![c] = n]
  /\ Goes(c, "begin")
  /\ UNCHANGED <<outbox, refund, row, others>>

Fits(c) == RefundedTotal + owed[c] <= Paid
Inserted == {r \in Rows : status[r] # "none"}

(* Wrong variant: the reconciliation entry is written with the attempt. *)
BeginRefundWithEntry(c, r) ==
  /\ stage[c] = "begin"
  /\ Fits(c)
  /\ Inserted = 1..(r - 1)
  /\ status' = [status EXCEPT ![r] = "pending"]
  /\ amount' = [amount EXCEPT ![r] = owed[c]]
  /\ entries' = entries \cup {r}
  /\ row' = [row EXCEPT ![c] = r]
  /\ Goes(c, "gateway")
  /\ UNCHANGED <<outbox, gateway, owed, others>>

(* BeginRefund, under the payment row lock. *)
BeginRefund(c, r) ==
  /\ stage[c] = "begin"
  /\ Fits(c)
  /\ Inserted = 1..(r - 1)
  /\ status' = [status EXCEPT ![r] = "pending"]
  /\ amount' = [amount EXCEPT ![r] = owed[c]]
  /\ row' = [row EXCEPT ![c] = r]
  /\ Goes(c, "gateway")
  /\ UNCHANGED <<outbox, gateway, entries, owed, others>>

(* The call ends: with an error the worker's message is refused.            *)
Ends(c) ==
  /\ Goes(c, "idle")
  /\ owed' = [owed EXCEPT ![c] = 0]
  /\ row' = [row EXCEPT ![c] = None]

(* Wrong variant: the first error terminates the message. *)
EndsWithErrorForGood(c) ==
  /\ Ends(c)
  /\ IF c \in Workers
     THEN /\ closed' = closed \cup {handling[c]}
          /\ StopHandling(c)
          /\ UNCHANGED <<written, drain, published, deliveries, handled, faults>>
     ELSE UNCHANGED outbox

EndsWithError(c) ==
  /\ Ends(c)
  /\ IF c \in Workers THEN HandlerFails(c) ELSE UNCHANGED outbox

(* ErrPaymentNotRefundable: more than was paid would go back. *)
RefundRefused(c) ==
  /\ stage[c] = "begin"
  /\ ~Fits(c)
  /\ EndsWithError(c)
  /\ UNCHANGED <<refund, others>>

-----------------------------------------------------------------------------
(* The gateway is asked, and the attempt settled. *)

GatewayAccepts(c) ==
  /\ stage[c] = "gateway"
  /\ gateway' = [gateway EXCEPT ![row[c]] = "accepted"]
  /\ Goes(c, "complete")
  /\ UNCHANGED <<outbox, status, amount, entries, owed, row, others>>

(* The caller gets an error.  After a timeout, or with an answer it cannot  *)
(* read, the gateway has taken the refund all the same.                     *)
GatewayErrs(c) ==
  /\ stage[c] = "gateway"
  /\ Error
  /\ \/ UNCHANGED <<gateway, unheard>>
     \/ /\ gateway' = [gateway EXCEPT ![row[c]] = "accepted"]
        /\ unheard' = unheard \cup {row[c]}
  /\ Goes(c, "fail")
  /\ UNCHANGED <<outbox, status, amount, entries, owed, row>>

(* FailRefund: the attempt no longer counts. *)
FailRefund(c) ==
  /\ stage[c] = "fail"
  /\ status' = [status EXCEPT ![row[c]] = "failed"]
  /\ EndsWithError(c)
  /\ UNCHANGED <<amount, gateway, entries, others>>

(* CompleteRefund, whatever the row says by now; then the worker notifies   *)
(* the guest.                                                               *)
CompleteRefund(c) ==
  /\ stage[c] = "complete"
  /\ status' = [status EXCEPT ![row[c]] = "processed"]
  /\ entries' = entries \cup {row[c]}
  /\ IF c \in Workers THEN Goes(c, "notify") /\ UNCHANGED <<owed, row>> ELSE Ends(c)
  /\ UNCHANGED <<outbox, amount, gateway, others>>

(* Wrong variant: a message is acknowledged as soon as it is read. *)
AcknowledgeAtOnce(w) ==
  /\ stage[w] \in {"read", "notify"}
  /\ HandlerSucceeds(w)
  /\ Ends(w)
  /\ UNCHANGED <<refund, others>>

(* The notification is recorded and the message acknowledged ... *)
Acknowledge(w) ==
  /\ stage[w] = "notify"
  /\ HandlerSucceeds(w)
  /\ Ends(w)
  /\ UNCHANGED <<refund, others>>

(* ... or recording it fails, and everything is tried again. *)
NotificationFails(w) ==
  /\ stage[w] = "notify"
  /\ EndsWithError(w)
  /\ UNCHANGED <<refund, others>>

(* The process dies between any two steps. *)
CallDies(c) ==
  /\ IF c \in Workers
     THEN WorkerDies(c) /\ UNCHANGED <<percent, errors>>
     ELSE stage[c] # "idle" /\ Error /\ UNCHANGED outbox
  /\ Ends(c)
  /\ UNCHANGED <<refund, unheard>>

-----------------------------------------------------------------------------
(* The gateway's last word, and its webhook, which may come early or twice. *)

GatewaySettles(r) ==
  /\ gateway[r] = "accepted"
  /\ gateway' = [gateway EXCEPT ![r] = "done"]
  /\ UNCHANGED <<outbox, status, amount, entries, call, others>>

GatewayFails(r) ==
  /\ LateFailures
  /\ gateway[r] = "accepted"
  /\ Error
  /\ gateway' = [gateway EXCEPT ![r] = "failed"]
  /\ UNCHANGED <<outbox, status, amount, entries, call, unheard>>

(* Wrong variant: every result is taken for a failure. *)
RecordRefundFailed(r) ==
  /\ gateway[r] \in {"done", "failed"}
  /\ status' = [status EXCEPT ![r] = "failed"]
  /\ UNCHANGED <<outbox, amount, gateway, entries, call, others>>

(* RecordRefundResult. *)
RecordRefundResult(r) ==
  /\ gateway[r] \in {"done", "failed"}
  /\ status' = [status EXCEPT ![r] = IF gateway[r] = "done" THEN "processed" ELSE "failed"]
  /\ UNCHANGED <<outbox, amount, gateway, entries, call, others>>

-----------------------------------------------------------------------------
OutboxStep ==
  /\ \/ \E e \in Events : Enqueue(e)
     \/ \E w \in Workers : DrainStep(w) \/ DrainFails(w)
  /\ UNCHANGED <<refund, call, others>>

WorkerStep(w) ==
  \/ \E m \in Messages : HandleCancelled(w, m)
  \/ ReadOwed(w) \/ Acknowledge(w)

RefundStep(c) ==
  \/ \E r \in Rows : BeginRefund(c, r)
  \/ RefundRefused(c) \/ GatewayAccepts(c) \/ CompleteRefund(c) \/ FailRefund(c)

GatewayStep(r) == GatewaySettles(r) \/ GatewayFails(r) \/ RecordRefundResult(r)

RefundsNext ==
  \/ OutboxStep
  \/ \E w \in Workers : WorkerStep(w) \/ NotificationFails(w)
  \/ \E c \in Staff, n \in 1..Paid : RefundPayment(c, n)
  \/ \E c \in Refunders : RefundStep(c) \/ GatewayErrs(c) \/ CallDies(c)
  \/ \E r \in Rows : GatewayStep(r)

RefundsSpec == RefundsInit /\ [][RefundsNext]_all

(* Workers poll and handlers run on; the gateway answers and reports in     *)
(* the end.  Staff need not refund anything.                                *)
RefundsFairness ==
  /\ \A w \in Workers :
       WF_all(WorkerStep(w)) /\ WF_all(DrainStep(w) /\ UNCHANGED <<refund, call, others>>)
  /\ \A c \in Refunders : WF_all(RefundStep(c))
  /\ \A r \in Rows : WF_all(GatewaySettles(r)) /\ WF_all(RecordRefundResult(r))

RefundsFairSpec == RefundsSpec /\ RefundsFairness

-----------------------------------------------------------------------------
(* Properties. *)

RefundsTypeOK ==
  /\ OutboxTypeOK
  /\ status \in [Rows -> {"none", "pending", "processed", "failed"}]
  /\ amount \in [Rows -> 0..Paid]
  /\ gateway \in [Rows -> {"none", "accepted", "done", "failed"}]
  /\ entries \subseteq Inserted
  /\ stage \in [Refunders -> {"idle", "read", "begin", "gateway", "complete",
                              "fail", "notify"}]
  /\ owed \in [Refunders -> 0..Paid]
  /\ row \in [Refunders -> Rows \cup {None}]
  /\ percent \in [Events -> Percents]
  /\ unheard \subseteq Inserted
  /\ errors \in 0..MaxErrors

(* Refunds whose money left the platform and did not come back. *)
MoneyOut == {r \in Rows : gateway[r] \in {"accepted", "done"}}

(* Duplicates of the event, the retries of its handler and refunds by staff *)
(* all at once return at most what was paid - of what somebody heard of: a  *)
(* refund the gateway took while its caller got an error is not counted and *)
(* a retry may pay it again (NeverExceedsPaid).                             *)
MoneyWithinPayment == Total(MoneyOut \ unheard) <= Paid

(* No refund is forgotten: an attempt whose money is on its way never stops *)
(* counting, whatever retries, deaths and webhooks do to it, so that no     *)
(* retry pays it a second time.  Only a lost answer makes the code forget.  *)
MoneyOutIsCounted == MoneyOut \subseteq Counted \cup unheard

(* Every reconciliation entry of a refund belongs to one the gateway took.  *)
EntriesAreReal == \A r \in entries : gateway[r] # "none"

(* A cancellation is acknowledged only once all that it returns of the      *)
(* payment is on its way, whoever started the refunds, unless an attempt    *)
(* failed (what happens then is FailedRefundRetried).                       *)
AcknowledgedIsRefunded ==
  (\A r \in Rows : status[r] # "failed") =>
    \A e \in handled : RefundedTotal >= Target(e)

(* The refund path moves events only as the outbox does. *)
OutboxRespected == OutboxSpec

-----------------------------------------------------------------------------
(* What the comments say and the code does not keep. *)

(* refund: "the money already returned by earlier attempts is counted, so   *)
(* the total can never exceed what was paid".                               *)
NeverExceedsPaid == Total(MoneyOut) <= Paid

(* refund: "A gateway failure marks the attempt failed and is returned (the *)
(* worker retries with a fresh attempt)": after a failed attempt the        *)
(* payment is returned all the same, or the event is given up.              *)
FailedRefundRetried ==
  \A r \in Rows :
    status[r] = "failed" ~> RefundedTotal >= Paid \/ \E e \in Events : GivenUp(e)

=============================================================================
