-------------------------------- MODULE Payouts --------------------------------
(***************************************************************************)
(* What a host is paid (internal/host, with internal/subscriptions for the *)
(* commission tier and internal/admin for approval and transfer): one      *)
(* host, one payout account, requests for a payout that run at once.       *)
(*                                                                         *)
(* RequestPayoutLocked holds the account row from its first statement to   *)
(* its commit.  The payments and refunds it adds up are not locked: they   *)
(* move while a request is under way.  Sums stand for the rows: captured   *)
(* is the sum of captured payments of the host's plans, refunded that of   *)
(* the processed refunds, paid that of the payouts.                        *)
(***************************************************************************)
EXTENDS Integers

CONSTANTS
  Calls,        \* concurrent calls of RequestPayout
  Nobody,       \* the account row is not locked
  Percent,      \* commissionRate, in percent
  ProPercent,   \* businessCommissionRate, in percent
  Amounts,      \* what a payment or a refund may be
  MaxCaptured   \* bound: payments captured

ASSUME Rates == Percent \in 0..100 /\ ProPercent \in 0..Percent
ASSUME Money == Amounts \subseteq Nat \ {0} /\ MaxCaptured \in Nat
ASSUME NobodyCalls == Nobody \notin Calls

VARIABLES
  account,    \* payout_accounts.status, "none" before the host applied
  pro,        \* the host has the business_pro entitlement
  captured, refunded, paid,
  pending,    \* payouts that no operator has transferred yet
  holder,     \* the request that holds the account row
  at, rate, found  \* per call: where it stands, its rate, what it found

tier == <<account, pro>>
money == <<captured, refunded, paid, pending>>
requests == <<holder, at, rate, found>>
payoutVars == <<tier, money, requests>>

(* What is left of net after the commission, which is cut to whole units.  *)
Share(net, percent) == net - ((net * percent) \div 100)

PayoutsInit ==
  /\ account = "none" /\ pro = FALSE
  /\ captured = 0 /\ refunded = 0 /\ paid = 0 /\ pending = 0
  /\ holder = Nobody
  /\ at = [c \in Calls |-> "idle"]
  /\ rate = [c \in Calls |-> Percent]
  /\ found = [c \in Calls |-> 0]

GoesTo(c, s) == at' = [at EXCEPT ![c] = s]

-----------------------------------------------------------------------------
(* The account and the tier. *)

(* An account that is active stays so when the host applies again. *)
ApplyForHost ==
  /\ account = "none"
  /\ account' = "pending"
  /\ UNCHANGED <<pro, money, requests>>

ApproveHost ==
  /\ account = "pending"
  /\ account' = "active"
  /\ UNCHANGED <<pro, money, requests>>

(* Subscribe grants the entitlement for good: Cancel leaves it.            *)
Subscribe ==
  /\ ~pro
  /\ pro' = TRUE
  /\ UNCHANGED <<account, money, requests>>

-----------------------------------------------------------------------------
(* The money the host's plans bring in. *)

PaymentCaptured(n) ==
  /\ captured + n <= MaxCaptured
  /\ captured' = captured + n
  /\ UNCHANGED <<tier, refunded, paid, pending, requests>>

(* Never more than was paid goes back. *)
RefundProcessed(n) ==
  /\ refunded + n <= captured
  /\ refunded' = refunded + n
  /\ UNCHANGED <<tier, captured, paid, pending, requests>>

(* A refund the gateway fails after it was processed counts no more.       *)
RefundFails(n) ==
  /\ n <= refunded
  /\ refunded' = refunded - n
  /\ UNCHANGED <<tier, captured, paid, pending, requests>>

-----------------------------------------------------------------------------
(* A payout. *)

(* HasEntitlement, before the transaction. *)
ReadTier(c) ==
  /\ at[c] = "idle"
  /\ rate' = [rate EXCEPT ![c] = IF pro THEN ProPercent ELSE Percent]
  /\ GoesTo(c, "lock")
  /\ UNCHANGED <<tier, money, holder, found>>

(* Wrong variant: the row is read without FOR UPDATE. *)
ReadAccount(c) ==
  /\ at[c] = "lock"
  /\ account = "active"
  /\ holder' = c
  /\ GoesTo(c, "sum")
  /\ UNCHANGED <<tier, money, rate, found>>

LockAccount(c) ==
  /\ at[c] = "lock"
  /\ holder = Nobody
  /\ account = "active"
  /\ holder' = c
  /\ GoesTo(c, "sum")
  /\ UNCHANGED <<tier, money, rate, found>>

(* The transaction ends and lets go of the row. *)
LetsGo(c) ==
  /\ holder' = IF holder = c THEN Nobody ELSE holder
  /\ GoesTo(c, "idle")
  /\ found' = [found EXCEPT ![c] = 0]
  /\ UNCHANGED <<tier, captured, refunded, rate>>

(* ErrHostNotApproved, ErrPayoutAccountNotFound. *)
RefuseAccount(c) ==
  /\ at[c] = "lock"
  /\ holder = Nobody
  /\ account # "active"
  /\ LetsGo(c)
  /\ UNCHANGED <<paid, pending>>

Available(c) == Share(captured - refunded, rate[c]) - paid

(* One statement adds up payments, refunds and earlier payouts. *)
SumEarnings(c) ==
  /\ at[c] = "sum"
  /\ Available(c) > 0
  /\ found' = [found EXCEPT ![c] = Available(c)]
  /\ GoesTo(c, "insert")
  /\ UNCHANGED <<tier, money, holder, rate>>

(* ErrNoPayoutBalance. *)
NothingToPay(c) ==
  /\ at[c] = "sum"
  /\ Available(c) <= 0
  /\ LetsGo(c)
  /\ UNCHANGED <<paid, pending>>

InsertPayout(c) ==
  /\ at[c] = "insert"
  /\ paid' = paid + found[c]
  /\ pending' = pending + 1
  /\ LetsGo(c)

Dies(c) ==
  /\ at[c] # "idle"
  /\ LetsGo(c)
  /\ UNCHANGED <<paid, pending>>

(* An operator has transferred a payout. *)
MarkPayoutProcessed ==
  /\ pending > 0
  /\ pending' = pending - 1
  /\ UNCHANGED <<tier, captured, refunded, paid, requests>>

-----------------------------------------------------------------------------
Request(c) ==
  \/ ReadTier(c) \/ LockAccount(c) \/ RefuseAccount(c)
  \/ SumEarnings(c) \/ NothingToPay(c) \/ InsertPayout(c)
  \/ Dies(c)

PayoutsNext ==
  \/ ApplyForHost \/ ApproveHost \/ Subscribe
  \/ \E n \in Amounts : PaymentCaptured(n) \/ RefundProcessed(n) \/ RefundFails(n)
  \/ \E c \in Calls : Request(c)
  \/ MarkPayoutProcessed

PayoutsSpec == PayoutsInit /\ [][PayoutsNext]_payoutVars

-----------------------------------------------------------------------------
(* Properties. *)

PayoutsTypeOK ==
  /\ account \in {"none", "pending", "active"}
  /\ pro \in BOOLEAN
  /\ captured \in Nat /\ refunded \in Nat /\ paid \in Nat /\ pending \in Nat
  /\ refunded <= captured
  /\ holder \in Calls \cup {Nobody}
  /\ at \in [Calls -> {"idle", "lock", "sum", "insert"}]
  /\ rate \in [Calls -> {Percent, ProPercent}]
  /\ found \in [Calls -> Nat]

(* A host is never paid the same earnings twice: all payouts together are  *)
(* at most the host's share, at the best rate, of everything ever captured *)
(* (RequestPayoutLocked; refunds that come after a payout may still leave  *)
(* the host overpaid with respect to the net).                             *)
PaidWithinEarnings == paid <= Share(captured, ProPercent)

=============================================================================
