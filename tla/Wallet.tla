-------------------------------- MODULE Wallet --------------------------------
(***************************************************************************)
(* What a person can pay with besides money: the credits of one user and   *)
(* one coupon (internal/payments), referral rewards (internal/referral),   *)
(* boosts (internal/meet) and the grants of staff (internal/admin).        *)
(*                                                                         *)
(* credit_ledger is append-only: balance is the sum of its rows, and       *)
(* spent[o] and returned[o] the rows of order o.  A checkout is a chain of *)
(* transactions, the gateway between two of them.  CreateOrderWithCredits  *)
(* reads the balance and spends it in one READ COMMITTED transaction: FOR  *)
(* UPDATE holds back another checkout but does not renew what its          *)
(* statement has read, so reading and spending are two steps.              *)
(***************************************************************************)
EXTENDS Integers, FiniteSetsExt

CONSTANTS
  Bookings,   \* bookings of this user that wait for their payment
  MaxOrders,  \* bound: orders rows, numbered in the order of insertion
  Calls,      \* concurrent calls of CreateOrder
  Friends,    \* who may apply this user's referral code
  Price,      \* what a booking owes
  Discount,   \* what the coupon takes off
  MaxUses,    \* promo_codes.max_uses, 0 for no limit
  Reward,     \* referral.RewardMinor
  Cap,        \* referral.Cap
  BoostCost,  \* meet.BoostCostMinor
  Grants,     \* amounts staff grant
  MaxGrants,  \* bound: grants by staff
  NoBooking   \* an order or call without a booking

ASSUME WalletNumbers ==
  /\ {Price, Discount, Reward, BoostCost} \cup Grants \subseteq Nat \ {0}
  /\ {MaxUses, Cap, MaxOrders, MaxGrants} \subseteq Nat
ASSUME WalletSets ==
  /\ IsFiniteSet(Friends)
  /\ NoBooking \notin Bookings

Orders == 1..MaxOrders
NoOrder == 0

VARIABLES
  booking,   \* booking[b]: "pending", "confirmed" or "cancelled"
  balance,   \* the sum of the ledger
  order,     \* order[o]: orders.status, "none" before it is inserted
  owner,     \* owner[o]: its booking
  spent,     \* credits order o took
  returned,  \* credits it gave back
  atGateway, \* orders the gateway knows
  uses,      \* promo_codes.uses_count
  active,    \* the coupon is active and not expired
  referred,  \* referrals rows of this user's code
  boosting,  \* a paid boost has read the balance and is about to spend
  grants,    \* grants so far
  stage, target, due, credits, made  \* per call: where it stands and what it holds

ledger == <<balance, order, owner, spent, returned>>
coupon == <<uses, active>>
extras == <<referred, boosting, grants>>
call == <<stage, target, due, credits, made>>
vars == <<booking, ledger, atGateway, coupon, extras, call>>


Init ==
  /\ booking = [b \in Bookings |-> "pending"]
  /\ balance = 0
  /\ order = [o \in Orders |-> "none"]
  /\ owner = [o \in Orders |-> NoBooking]
  /\ spent = [o \in Orders |-> 0]
  /\ returned = [o \in Orders |-> 0]
  /\ atGateway = {}
  /\ uses = 0 /\ active = TRUE
  /\ referred = {} /\ boosting = FALSE /\ grants = 0
  /\ stage = [c \in Calls |-> "idle"]
  /\ target = [c \in Calls |-> NoBooking]
  /\ due = [c \in Calls |-> 0]
  /\ credits = [c \in Calls |-> 0]
  /\ made = [c \in Calls |-> NoOrder]

Goes(c, s) == stage' = [stage EXCEPT ![c] = s]

(* CreateOrder returns, or its process stops. *)
Ends(c) ==
  /\ Goes(c, "idle")
  /\ target' = [target EXCEPT ![c] = NoBooking]
  /\ due' = [due EXCEPT ![c] = 0]
  /\ credits' = [credits EXCEPT ![c] = 0]
  /\ made' = [made EXCEPT ![c] = NoOrder]

Dies(c) ==
  /\ stage[c] # "idle"
  /\ Ends(c)
  /\ UNCHANGED <<booking, ledger, atGateway, coupon, extras>>

Least(m, n) == IF m < n THEN m ELSE n
Total(f, S) == MapThenSumSet(LAMBDA o : f[o], S)

-----------------------------------------------------------------------------
(* Closing orders. *)

Closes(S) ==
  /\ order' = [o \in Orders |-> IF o \in S THEN "cancelled" ELSE order[o]]
  /\ returned' = [o \in Orders |-> IF o \in S THEN returned[o] + spent[o] ELSE returned[o]]
  /\ balance' = balance + Total(spent, S)
  /\ UNCHANGED <<owner, spent>>

(* Wrong variant: an order closed before is closed again. *)
CloseUnpaidOrders(S) == Closes({o \in S : order[o] \notin {"none", "paid"}})

(* cancelUnpaid: one UPDATE picks the orders, a new row gives back what    *)
(* each took.                                                              *)
CancelUnpaid(S) == Closes({o \in S : order[o] = "created"})

OrdersOf(b) == {o \in Orders : owner[o] = b}

(* Wrong variant: only the orders of confirmed bookings. *)
ReleaseConfirmedOnly ==
  LET S == {o \in Orders : order[o] = "created" /\ booking[owner[o]] = "confirmed"}
  IN  /\ S # {}
      /\ CancelUnpaid(S)
      /\ UNCHANGED <<booking, atGateway, coupon, extras, call>>

(* ReleaseAbandonedOrders: those whose booking waits for no payment.       *)
ReleaseAbandonedOrders ==
  LET S == {o \in Orders : order[o] = "created" /\ booking[owner[o]] # "pending"}
  IN  /\ S # {}
      /\ CancelUnpaid(S)
      /\ UNCHANGED <<booking, atGateway, coupon, extras, call>>

-----------------------------------------------------------------------------
(* A checkout. *)

(* GetBookingCharge. *)
StartCheckout(c, b) ==
  /\ stage[c] = "idle"
  /\ booking[b] = "pending"
  /\ target' = [target EXCEPT ![c] = b]
  /\ due' = [due EXCEPT ![c] = Price]
  /\ Goes(c, "close")
  /\ UNCHANGED <<booking, ledger, atGateway, coupon, extras, credits, made>>

(* CancelUnpaidOrdersForBooking. *)
CloseEarlierOrders(c, withCoupon) ==
  /\ stage[c] = "close"
  /\ CancelUnpaid(OrdersOf(target[c]))
  /\ Goes(c, IF withCoupon THEN "coupon" ELSE "balance")
  /\ UNCHANGED <<booking, atGateway, coupon, extras, target, due, credits, made>>

(* ReserveCoupon looks the code up ... *)
FindCoupon(c) ==
  /\ stage[c] = "coupon"
  /\ IF active
     THEN Goes(c, "reserve") /\ UNCHANGED <<target, due, credits, made>>
     ELSE Ends(c)
  /\ UNCHANGED <<booking, ledger, atGateway, coupon, extras>>

TakesDiscount(c) ==
  /\ uses' = uses + 1
  /\ due' = [due EXCEPT ![c] = @ - Least(Discount, @)]
  /\ Goes(c, "balance")
  /\ UNCHANGED <<booking, ledger, atGateway, active, extras, target, credits, made>>

(* Wrong variant: the limit was looked at with the code. *)
ReserveUnguarded(c) ==
  /\ stage[c] = "reserve"
  /\ TakesDiscount(c)

(* ... and takes one use if there is one left, in one statement. *)
ReserveCoupon(c) ==
  /\ stage[c] = "reserve"
  /\ MaxUses = 0 \/ uses < MaxUses
  /\ TakesDiscount(c)

CouponExhausted(c) ==
  /\ stage[c] = "reserve"
  /\ MaxUses # 0 /\ uses >= MaxUses
  /\ Ends(c)
  /\ UNCHANGED <<booking, ledger, atGateway, coupon, extras>>

(* CreateOrderWithCredits: the balance its statement sees ... *)
ReadBalance(c, useCredits) ==
  /\ stage[c] = "balance"
  /\ credits' = [credits EXCEPT ![c] =
                   IF useCredits /\ balance > 0 THEN Least(balance, due[c]) ELSE 0]
  /\ Goes(c, "insert")
  /\ UNCHANGED <<booking, ledger, atGateway, coupon, extras, target, due, made>>

(* ... and the order and what it spends, committed together. *)
InsertOrder(c, o) ==
  /\ stage[c] = "insert"
  /\ {p \in Orders : order[p] # "none"} = 1..(o - 1)
  /\ order' = [order EXCEPT ![o] = "created"]
  /\ owner' = [owner EXCEPT ![o] = target[c]]
  /\ spent' = [spent EXCEPT ![o] = credits[c]]
  /\ balance' = balance - credits[c]
  /\ made' = [made EXCEPT ![c] = o]
  /\ due' = [due EXCEPT ![c] = 0]
  /\ credits' = [credits EXCEPT ![c] = 0]
  /\ Goes(c, IF due[c] = credits[c] THEN "settle" ELSE "gateway")
  /\ UNCHANGED <<booking, returned, atGateway, coupon, extras, target>>

(* MarkOrderPaid: nothing is left to charge. *)
MarkOrderPaid(c) ==
  /\ stage[c] = "settle"
  /\ order' = [order EXCEPT ![made[c]] = "paid"]
  /\ Goes(c, "confirm")
  /\ UNCHANGED <<booking, balance, owner, spent, returned, atGateway, coupon, extras,
                 target, due, credits, made>>

(* ConfirmPaidBooking: seated, or refused because the plan is full. *)
ConfirmCovered(c, seated) ==
  /\ stage[c] = "confirm"
  /\ booking' = IF seated THEN [booking EXCEPT ![target[c]] = "confirmed"] ELSE booking
  /\ Ends(c)
  /\ UNCHANGED <<ledger, atGateway, coupon, extras>>

GatewayTakesOrder(c) ==
  /\ stage[c] = "gateway"
  /\ atGateway' = atGateway \cup {made[c]}
  /\ Ends(c)
  /\ UNCHANGED <<booking, ledger, coupon, extras>>

GatewayRefuses(c) ==
  /\ stage[c] = "gateway"
  /\ Goes(c, "giveBack")
  /\ UNCHANGED <<booking, ledger, atGateway, coupon, extras, target, due, credits, made>>

GiveBack(c) ==
  /\ stage[c] = "giveBack"
  /\ CancelUnpaid(OrdersOf(target[c]))
  /\ Ends(c)
  /\ UNCHANGED <<booking, atGateway, coupon, extras>>

(* MarkCaptured: the payment of an order, also of one closed meanwhile.    *)
Captured(o, seated) ==
  /\ o \in atGateway
  /\ order[o] # "paid"
  /\ order' = [order EXCEPT ![o] = "paid"]
  /\ booking' = IF seated THEN [booking EXCEPT ![owner[o]] = "confirmed"] ELSE booking
  /\ UNCHANGED <<balance, owner, spent, returned, atGateway, coupon, extras, call>>

(* The hold ends, or the guest cancels. *)
BookingEnds(b) ==
  /\ booking[b] = "pending"
  /\ booking' = [booking EXCEPT ![b] = "cancelled"]
  /\ UNCHANGED <<ledger, atGateway, coupon, extras, call>>

-----------------------------------------------------------------------------
(* Other rows of the ledger. *)

GrantCredit(n) ==
  /\ grants < MaxGrants
  /\ grants' = grants + 1
  /\ balance' = balance + n
  /\ UNCHANGED <<booking, order, owner, spent, returned, atGateway, coupon, referred, boosting, call>>

Rewards(f) ==
  /\ referred' = referred \cup {f}
  /\ balance' = balance + Reward
  /\ UNCHANGED <<booking, order, owner, spent, returned, atGateway, coupon, boosting, grants, call>>

(* Wrong variant: the friend who reaches the cap is counted too late. *)
ApplyPastCap(f) ==
  /\ f \notin referred
  /\ Cardinality(referred) <= Cap
  /\ Rewards(f)

(* referral.Apply, under the lock of the referrer's code row; a referee is *)
(* unique.                                                                 *)
Apply(f) ==
  /\ f \notin referred
  /\ Cardinality(referred) < Cap
  /\ Rewards(f)

(* ActivateBoost, one at a time by its advisory lock, reads the balance    *)
(* when no boost is running and none is free ...                           *)
BoostReads ==
  /\ ~boosting /\ balance >= BoostCost
  /\ boosting' = TRUE
  /\ UNCHANGED <<booking, ledger, atGateway, coupon, referred, grants, call>>

(* ... and pays, or rolls back. *)
BoostPays(commits) ==
  /\ boosting
  /\ boosting' = FALSE
  /\ balance' = IF commits THEN balance - BoostCost ELSE balance
  /\ UNCHANGED <<booking, order, owner, spent, returned, atGateway, coupon, referred, grants, call>>

(* DeactivateCoupon, or the coupon expires. *)
CouponEnds ==
  /\ active /\ active' = FALSE
  /\ UNCHANGED <<booking, ledger, atGateway, uses, extras, call>>

-----------------------------------------------------------------------------
Checkout(c) ==
  \/ \E b \in Bookings : StartCheckout(c, b)
  \/ \E w \in BOOLEAN : CloseEarlierOrders(c, w) \/ ReadBalance(c, w) \/ ConfirmCovered(c, w)
  \/ FindCoupon(c) \/ ReserveCoupon(c) \/ CouponExhausted(c)
  \/ \E o \in Orders : InsertOrder(c, o)
  \/ MarkOrderPaid(c)
  \/ GatewayTakesOrder(c) \/ GatewayRefuses(c) \/ GiveBack(c)
  \/ Dies(c)

Credits ==
  \/ \E n \in Grants : GrantCredit(n)
  \/ \E f \in Friends : Apply(f)
  \/ BoostReads
  \/ \E w \in BOOLEAN : BoostPays(w)

Next ==
  \/ \E c \in Calls : Checkout(c)
  \/ \E o \in Orders, w \in BOOLEAN : Captured(o, w)
  \/ \E b \in Bookings : BookingEnds(b)
  \/ ReleaseAbandonedOrders
  \/ Credits
  \/ CouponEnds

Spec == Init /\ [][Next]_vars

(* Jobs: holds expire and abandoned orders are released every minute. *)
FairSpec ==
  /\ Spec
  /\ WF_vars(ReleaseAbandonedOrders)
  /\ \A b \in Bookings : WF_vars(BookingEnds(b))

-----------------------------------------------------------------------------
(* Properties. *)

WalletTypeOK ==
  /\ booking \in [Bookings -> {"pending", "confirmed", "cancelled"}]
  /\ balance \in Int
  /\ order \in [Orders -> {"none", "created", "paid", "cancelled"}]
  /\ owner \in [Orders -> Bookings \cup {NoBooking}]
  /\ spent \in [Orders -> Nat] /\ returned \in [Orders -> Nat]
  /\ atGateway \subseteq Orders
  /\ uses \in Nat /\ active \in BOOLEAN
  /\ referred \subseteq Friends
  /\ boosting \in BOOLEAN
  /\ grants \in 0..MaxGrants
  /\ stage \in [Calls -> {"idle", "close", "coupon", "reserve", "balance", "insert",
                          "settle", "confirm", "gateway", "giveBack"}]
  /\ target \in [Calls -> Bookings \cup {NoBooking}]
  /\ due \in [Calls -> Nat] /\ credits \in [Calls -> Nat]
  /\ made \in [Calls -> Orders \cup {NoOrder}]

(* An order gives back exactly what it took, once, and only when it is     *)
(* closed, although checkouts of one booking, the gateway's errors and the *)
(* release job all close orders (cancelUnpaid).                            *)
CreditsReturnOnce ==
  \A o \in Orders :
    /\ returned[o] \in {0, spent[o]}
    /\ order[o] = "created" => returned[o] = 0
    /\ order[o] = "cancelled" => returned[o] = spent[o]

(* No coupon is used more often than max_uses and no code rewarded more    *)
(* often than the cap, however many checkouts and friends come at once.    *)
LimitsKept ==
  /\ MaxUses # 0 => uses <= MaxUses
  /\ Cardinality(referred) <= Cap

(* Credits are not stuck in an order: it is paid or closed in the end,     *)
(* also when the process that made it stopped.                             *)
OrdersEnd == \A o \in Orders : order[o] = "created" ~> order[o] \in {"paid", "cancelled"}

=============================================================================
