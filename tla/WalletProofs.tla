----------------------------- MODULE WalletProofs -----------------------------
(***************************************************************************)
(* Proofs about what a person can pay with besides money: the credits that *)
(* orders take and give back, the uses of a coupon and the rewards of a    *)
(* referral code, for any set of bookings, calls and friends and any       *)
(* number of orders.                                                       *)
(***************************************************************************)
EXTENDS Wallet, Sums

-----------------------------------------------------------------------------
(* The inductive invariant, in three parts. *)

(* A call holds values of their types, and past the insertion its order.    *)
CallsTyped ==
  /\ stage \in [Calls -> {"idle", "close", "coupon", "reserve", "balance", "insert",
                          "settle", "confirm", "gateway", "giveBack"}]
  /\ target \in [Calls -> Bookings \cup {NoBooking}]
  /\ due \in [Calls -> Nat] /\ credits \in [Calls -> Nat]
  /\ made \in [Calls -> Orders \cup {NoOrder}]
  /\ \A c \in Calls : stage[c] \in {"settle", "gateway"} => made[c] \in Orders

(* An order that does not exist yet has taken nothing; the others give back *)
(* what CreditsReturnOnce says.                                             *)
OrdersKept ==
  /\ balance \in Int
  /\ order \in [Orders -> {"none", "created", "paid", "cancelled"}]
  /\ owner \in [Orders -> Bookings \cup {NoBooking}]
  /\ spent \in [Orders -> Nat] /\ returned \in [Orders -> Nat]
  /\ \A o \in Orders : order[o] = "none" => spent[o] = 0 /\ returned[o] = 0
  /\ CreditsReturnOnce

RestTyped ==
  /\ booking \in [Bookings -> {"pending", "confirmed", "cancelled"}]
  /\ atGateway \subseteq Orders
  /\ uses \in Nat /\ active \in BOOLEAN
  /\ referred \subseteq Friends
  /\ boosting \in BOOLEAN
  /\ grants \in 0..MaxGrants

CreditInv == CallsTyped /\ OrdersKept /\ RestTyped

-----------------------------------------------------------------------------
(* Facts about the helpers. *)

(* The credits of some orders add up to an integer. *)
LEMMA TotalType ==
  ASSUME NEW f \in [Orders -> Nat], NEW S \in SUBSET Orders
  PROVE  Total(f, S) \in Int
  <1>1. MaxOrders \in Int
    BY WalletNumbers
  <1>2. IsFiniteSet(Orders)
    BY <1>1, FS_Interval DEF Orders
  <1>3. IsFiniteSet(S) /\ \A o \in S : f[o] \in Int
    BY <1>2, FS_Subset
  <1>4. Sum(f, S) \in Int
    BY <1>3, SumInt
  <1>5. QED
    BY <1>4 DEF Total, Sum

(* The smaller of two natural numbers is one, and exceeds neither. *)
LEMMA LeastType ==
  \A m, n \in Nat : Least(m, n) \in Nat /\ Least(m, n) <= m /\ Least(m, n) <= n
  BY DEF Least

(* Only orders that wait for their payment are closed, so that none gives   *)
(* back a second time.                                                      *)
LEMMA OrdersClose ==
  ASSUME OrdersKept, NEW S \in SUBSET Orders, CancelUnpaid(S)
  PROVE  OrdersKept'
  <1> DEFINE T == {o \in S : order[o] = "created"}
  <1>1. Total(spent, T) \in Int
    BY TotalType DEF OrdersKept
  <1>2. /\ order' = [o \in Orders |-> IF o \in T THEN "cancelled" ELSE order[o]]
        /\ returned' = [o \in Orders |-> IF o \in T THEN returned[o] + spent[o] ELSE returned[o]]
        /\ balance' = balance + Total(spent, T)
        /\ UNCHANGED <<owner, spent>>
    BY DEF CancelUnpaid, Closes
  <1>3. \A o \in T : order[o] = "created" /\ returned[o] = 0 /\ spent[o] \in Nat
    BY DEF OrdersKept, CreditsReturnOnce
  <1> HIDE DEF T
  <1>4. balance' \in Int
    BY <1>1, <1>2 DEF OrdersKept
  <1>5. \A o \in Orders : returned'[o] = IF o \in T THEN spent[o] ELSE returned[o]
    BY <1>2, <1>3 DEF OrdersKept
  <1>6. /\ order' \in [Orders -> {"none", "created", "paid", "cancelled"}]
        /\ returned' \in [Orders -> Nat]
    BY <1>2 DEF OrdersKept
  <1>7. CreditsReturnOnce'
    BY <1>2, <1>5 DEF OrdersKept, CreditsReturnOnce
  <1>8. \A o \in Orders : order'[o] = "none" => spent'[o] = 0 /\ returned'[o] = 0
    BY <1>2, <1>5 DEF OrdersKept
  <1>9. QED
    BY <1>2, <1>4, <1>6, <1>7, <1>8 DEF OrdersKept

(* An order, once paid, keeps what it has given back. *)
LEMMA OrdersPay ==
  ASSUME OrdersKept, NEW o, order' = [order EXCEPT ![o] = "paid"],
         UNCHANGED <<balance, owner, spent, returned>>
  PROVE  OrdersKept'
  BY DEF OrdersKept, CreditsReturnOnce

(* Other rows of the ledger move the balance alone. *)
LEMMA OrdersStay ==
  ASSUME OrdersKept, balance' \in Int, UNCHANGED <<order, owner, spent, returned>>
  PROVE  OrdersKept'
  BY DEF OrdersKept, CreditsReturnOnce

LEMMA CallEnds ==
  ASSUME CallsTyped, NEW c \in Calls, Ends(c)
  PROVE  CallsTyped'
  BY DEF Ends, Goes, CallsTyped

(* A call that goes on, other than past the insertion. *)
LEMMA CallGoes ==
  ASSUME CallsTyped, NEW c \in Calls,
         NEW s \in {"close", "coupon", "reserve", "balance", "insert", "confirm", "giveBack"},
         Goes(c, s), UNCHANGED made,
         target' \in [Calls -> Bookings \cup {NoBooking}],
         due' \in [Calls -> Nat], credits' \in [Calls -> Nat]
  PROVE  CallsTyped'
  BY DEF Goes, CallsTyped

-----------------------------------------------------------------------------
(* The steps. *)

LEMMA CheckoutKeepsCredits ==
  ASSUME CreditInv, NEW c \in Calls, Checkout(c)
  PROVE  CreditInv'
  <1> USE DEF CreditInv
  <1>1. ASSUME UNCHANGED ledger
        PROVE  OrdersKept'
    BY <1>1, OrdersStay DEF ledger, OrdersKept
  <1>2. ASSUME UNCHANGED <<booking, atGateway, coupon, extras>>
        PROVE  RestTyped'
    BY <1>2 DEF coupon, extras, RestTyped
  <1>3. ASSUME UNCHANGED <<target, due, credits>>
        PROVE  /\ target' \in [Calls -> Bookings \cup {NoBooking}]
               /\ due' \in [Calls -> Nat] /\ credits' \in [Calls -> Nat]
    BY <1>3 DEF CallsTyped
  <1>4. ASSUME NEW b \in Bookings, StartCheckout(c, b)
        PROVE  CreditInv'
    <2>1. /\ target' \in [Calls -> Bookings \cup {NoBooking}]
          /\ due' \in [Calls -> Nat] /\ credits' \in [Calls -> Nat]
      BY <1>4, WalletNumbers DEF StartCheckout, CallsTyped
    <2>2. CallsTyped'
      BY <1>4, <2>1, CallGoes DEF StartCheckout
    <2>3. QED
      BY <1>1, <1>2, <1>4, <2>2 DEF StartCheckout
  <1>5. ASSUME NEW w \in BOOLEAN, CloseEarlierOrders(c, w)
        PROVE  CreditInv'
    <2>1. OrdersKept'
      BY <1>5, OrdersClose DEF CloseEarlierOrders, OrdersOf
    <2>2. Goes(c, "coupon") \/ Goes(c, "balance")
      BY <1>5 DEF CloseEarlierOrders
    <2>3. CallsTyped'
      BY <1>3, <1>5, <2>2, CallGoes DEF CloseEarlierOrders
    <2>4. QED
      BY <1>2, <1>5, <2>1, <2>3 DEF CloseEarlierOrders
  <1>6. ASSUME NEW w \in BOOLEAN, ReadBalance(c, w)
        PROVE  CreditInv'
    <2>1. due[c] \in Nat /\ (balance > 0 => balance \in Nat)
      BY DEF CallsTyped, OrdersKept
    <2>2. (IF w /\ balance > 0 THEN Least(balance, due[c]) ELSE 0) \in Nat
      BY <2>1, LeastType
    <2>3. /\ target' \in [Calls -> Bookings \cup {NoBooking}]
          /\ due' \in [Calls -> Nat] /\ credits' \in [Calls -> Nat]
      BY <1>6, <2>2 DEF ReadBalance, CallsTyped
    <2>4. CallsTyped'
      BY <1>6, <2>3, CallGoes DEF ReadBalance
    <2>5. QED
      BY <1>1, <1>2, <1>6, <2>4 DEF ReadBalance
  <1>7. ASSUME NEW w \in BOOLEAN, ConfirmCovered(c, w)
        PROVE  CreditInv'
    <2>1. RestTyped'
      BY <1>7 DEF ConfirmCovered, coupon, extras, RestTyped
    <2>2. QED
      BY <1>1, <1>7, <2>1, CallEnds DEF ConfirmCovered
  <1>8. CASE FindCoupon(c) \/ CouponExhausted(c)
    <2>1. \/ Ends(c)
          \/ Goes(c, "reserve") /\ UNCHANGED <<target, due, credits, made>>
      BY <1>8 DEF FindCoupon, CouponExhausted
    <2>2. CallsTyped'
      BY <1>3, <2>1, CallEnds, CallGoes
    <2>3. QED
      BY <1>1, <1>2, <1>8, <2>2 DEF FindCoupon, CouponExhausted
  <1>9. CASE ReserveCoupon(c)
    <2>1. due[c] \in Nat /\ Discount \in Nat
      BY WalletNumbers DEF CallsTyped
    <2>2. due[c] - Least(Discount, due[c]) \in Nat
      BY <2>1, LeastType
    <2>3. /\ target' \in [Calls -> Bookings \cup {NoBooking}]
          /\ due' \in [Calls -> Nat] /\ credits' \in [Calls -> Nat]
      BY <1>9, <2>2 DEF ReserveCoupon, TakesDiscount, CallsTyped
    <2>4. CallsTyped'
      BY <1>9, <2>3, CallGoes DEF ReserveCoupon, TakesDiscount
    <2>5. RestTyped'
      BY <1>9 DEF ReserveCoupon, TakesDiscount, extras, RestTyped
    <2>6. QED
      BY <1>1, <1>9, <2>4, <2>5 DEF ReserveCoupon, TakesDiscount
  <1>10. ASSUME NEW o \in Orders, InsertOrder(c, o)
         PROVE  CreditInv'
    <2>1. order[o] = "none"
      BY <1>10 DEF InsertOrder, Orders
    <2>2. credits[c] \in Nat /\ target[c] \in Bookings \cup {NoBooking} /\ balance \in Int
      BY DEF CallsTyped, OrdersKept
    <2>3. OrdersKept'
      <3>1. balance' \in Int
        BY <1>10, <2>2 DEF InsertOrder
      <3>2. /\ order' \in [Orders -> {"none", "created", "paid", "cancelled"}]
            /\ owner' \in [Orders -> Bookings \cup {NoBooking}]
            /\ spent' \in [Orders -> Nat] /\ returned' \in [Orders -> Nat]
        BY <1>10, <2>2 DEF InsertOrder, OrdersKept
      <3>3. \A p \in Orders :
              /\ p = o => order'[p] = "created" /\ returned'[p] = 0
              /\ p # o => /\ order'[p] = order[p] /\ spent'[p] = spent[p]
                          /\ returned'[p] = returned[p]
        BY <1>10, <2>1 DEF InsertOrder, OrdersKept
      <3>4. QED
        BY <3>1, <3>2, <3>3 DEF OrdersKept, CreditsReturnOnce
    <2>4. CallsTyped'
      BY <1>10 DEF InsertOrder, Goes, CallsTyped
    <2>5. QED
      BY <1>2, <1>10, <2>3, <2>4 DEF InsertOrder
  <1>11. CASE MarkOrderPaid(c)
    <2>1. OrdersKept'
      BY <1>11, OrdersPay DEF MarkOrderPaid
    <2>2. CallsTyped'
      BY <1>3, <1>11, CallGoes DEF MarkOrderPaid
    <2>3. QED
      BY <1>2, <1>11, <2>1, <2>2 DEF MarkOrderPaid
  <1>12. CASE GatewayTakesOrder(c)
    <2>1. RestTyped'
      BY <1>12 DEF GatewayTakesOrder, CallsTyped, coupon, extras, RestTyped
    <2>2. QED
      BY <1>1, <1>12, <2>1, CallEnds DEF GatewayTakesOrder
  <1>13. CASE GatewayRefuses(c)
    <2>1. CallsTyped'
      BY <1>3, <1>13, CallGoes DEF GatewayRefuses
    <2>2. QED
      BY <1>1, <1>2, <1>13, <2>1 DEF GatewayRefuses
  <1>14. CASE GiveBack(c)
    <2>1. OrdersKept'
      BY <1>14, OrdersClose DEF GiveBack, OrdersOf
    <2>2. QED
      BY <1>2, <1>14, <2>1, CallEnds DEF GiveBack
  <1>15. CASE Dies(c)
    BY <1>1, <1>2, <1>15, CallEnds DEF Dies
  <1>16. QED
    BY <1>4, <1>5, <1>6, <1>7, <1>8, <1>9, <1>10, <1>11, <1>12, <1>13, <1>14, <1>15
    DEF Checkout

LEMMA CreditInvStep ==
  ASSUME CreditInv, [Next]_vars
  PROVE  CreditInv'
  <1> USE DEF CreditInv
  <1>1. ASSUME UNCHANGED call
        PROVE  CallsTyped'
    BY <1>1 DEF call, CallsTyped
  <1>2. ASSUME NEW c \in Calls, Checkout(c)
        PROVE  CreditInv'
    BY <1>2, CheckoutKeepsCredits
  <1>3. ASSUME NEW o \in Orders, NEW w \in BOOLEAN, Captured(o, w)
        PROVE  CreditInv'
    <2>1. OrdersKept'
      BY <1>3, OrdersPay DEF Captured
    <2>2. RestTyped'
      BY <1>3 DEF Captured, coupon, extras, RestTyped
    <2>3. QED
      BY <1>1, <1>3, <2>1, <2>2 DEF Captured
  <1>4. ASSUME NEW b \in Bookings, BookingEnds(b)
        PROVE  CreditInv'
    <2>1. OrdersKept'
      BY <1>4, OrdersStay DEF BookingEnds, ledger, OrdersKept
    <2>2. RestTyped'
      BY <1>4 DEF BookingEnds, coupon, extras, RestTyped
    <2>3. QED
      BY <1>1, <1>4, <2>1, <2>2 DEF BookingEnds
  <1>5. CASE ReleaseAbandonedOrders
    <2>1. OrdersKept'
      BY <1>5, OrdersClose DEF ReleaseAbandonedOrders
    <2>2. RestTyped'
      BY <1>5 DEF ReleaseAbandonedOrders, coupon, extras, RestTyped
    <2>3. QED
      BY <1>1, <1>5, <2>1, <2>2 DEF ReleaseAbandonedOrders
  <1>6. CASE Credits
    <2> USE WalletNumbers
    <2>1. balance' \in Int /\ UNCHANGED <<order, owner, spent, returned>>
      <3>1. ASSUME NEW n \in Grants, GrantCredit(n)
            PROVE  balance' \in Int /\ UNCHANGED <<order, owner, spent, returned>>
        BY <3>1 DEF GrantCredit, OrdersKept
      <3>2. ASSUME NEW f \in Friends, Apply(f)
            PROVE  balance' \in Int /\ UNCHANGED <<order, owner, spent, returned>>
        BY <3>2 DEF Apply, Rewards, OrdersKept
      <3>3. CASE BoostReads
        BY <3>3 DEF BoostReads, ledger, OrdersKept
      <3>4. ASSUME NEW w \in BOOLEAN, BoostPays(w)
            PROVE  balance' \in Int /\ UNCHANGED <<order, owner, spent, returned>>
        BY <3>4 DEF BoostPays, OrdersKept
      <3>5. QED
        BY <1>6, <3>1, <3>2, <3>3, <3>4 DEF Credits
    <2>2. RestTyped'
      <3>1. ASSUME NEW n \in Grants, GrantCredit(n)
            PROVE  RestTyped'
        BY <3>1 DEF GrantCredit, coupon, RestTyped
      <3>2. ASSUME NEW f \in Friends, Apply(f)
            PROVE  RestTyped'
        BY <3>2 DEF Apply, Rewards, coupon, RestTyped
      <3>3. CASE BoostReads
        BY <3>3 DEF BoostReads, coupon, RestTyped
      <3>4. ASSUME NEW w \in BOOLEAN, BoostPays(w)
            PROVE  RestTyped'
        BY <3>4 DEF BoostPays, coupon, RestTyped
      <3>5. QED
        BY <1>6, <3>1, <3>2, <3>3, <3>4 DEF Credits
    <2>3. UNCHANGED call
      BY <1>6 DEF Credits, GrantCredit, Apply, Rewards, BoostReads, BoostPays
    <2>4. QED
      BY <1>1, <2>1, <2>2, <2>3, OrdersStay
  <1>7. CASE CouponEnds \/ UNCHANGED vars
    <2>1. UNCHANGED <<booking, ledger, atGateway, uses, extras, call>> /\ active' \in BOOLEAN
      BY <1>7 DEF CouponEnds, vars, coupon, RestTyped
    <2>2. OrdersKept' /\ RestTyped'
      BY <2>1, OrdersStay DEF ledger, extras, OrdersKept, RestTyped
    <2>3. QED
      BY <1>1, <2>1, <2>2
  <1>8. QED
    BY <1>2, <1>3, <1>4, <1>5, <1>6, <1>7 DEF Next

LEMMA CreditInvInit == Init => CreditInv
  <1> SUFFICES ASSUME Init PROVE CreditInv
    OBVIOUS
  <1>1. CallsTyped
    BY DEF Init, CallsTyped
  <1>2. OrdersKept
    BY DEF Init, OrdersKept, CreditsReturnOnce
  <1>3. RestTyped
    <2>1. 0 \in 0..MaxGrants
      BY WalletNumbers
    <2>2. QED
      BY <2>1 DEF Init, RestTyped
  <1>4. QED
    BY <1>1, <1>2, <1>3 DEF CreditInv

-----------------------------------------------------------------------------
(* Type correctness: also the balance that a checkout reads late stays an   *)
(* integer (it may be negative), and what a call holds a natural number.    *)
THEOREM WalletTypes == Spec => []WalletTypeOK
  <1>1. CreditInv /\ [Next]_vars => CreditInv'
    BY CreditInvStep
  <1>2. CreditInv => WalletTypeOK
    BY DEF CreditInv, CallsTyped, OrdersKept, RestTyped, WalletTypeOK
  <1>3. QED
    BY <1>1, <1>2, CreditInvInit, PTL DEF Spec

(* Credits come back exactly once: however many checkouts, failures of the  *)
(* gateway, deaths and runs of the release job close the orders of a        *)
(* booking, an order gives back what it took when it is closed and never    *)
(* again, and nothing while it waits for its payment.                       *)
THEOREM CreditsComeBackOnce == Spec => []CreditsReturnOnce
  <1>1. CreditInv /\ [Next]_vars => CreditInv'
    BY CreditInvStep
  <1>2. CreditInv => CreditsReturnOnce
    BY DEF CreditInv, OrdersKept
  <1>3. QED
    BY <1>1, <1>2, CreditInvInit, PTL DEF Spec

(* Checkouts that race for the last use of a coupon, and friends who apply  *)
(* a code at once, never exceed max_uses and the cap of rewards.            *)
THEOREM LimitsAreKept == Spec => []LimitsKept
  <1> DEFINE Inv == CreditInv /\ LimitsKept
  <1>1. Init => Inv
    BY CreditInvInit, FS_EmptySet, WalletNumbers DEF Init, LimitsKept
  <1>2. Inv /\ [Next]_vars => Inv'
    <2> SUFFICES ASSUME CreditInv, LimitsKept, [Next]_vars PROVE LimitsKept'
      BY CreditInvStep
    <2>1. ASSUME UNCHANGED <<uses, referred>>
          PROVE  LimitsKept'
      BY <2>1 DEF LimitsKept
    <2>2. ASSUME NEW c \in Calls, Checkout(c)
          PROVE  LimitsKept'
      <3>1. CASE ReserveCoupon(c)
        BY <3>1, WalletNumbers DEF ReserveCoupon, TakesDiscount, extras, LimitsKept,
           CreditInv, RestTyped
      <3>2. CASE ~ReserveCoupon(c)
        <4>1. UNCHANGED <<coupon, extras>>
          BY <2>2, <3>2 DEF Checkout, StartCheckout, CloseEarlierOrders, ReadBalance,
             ConfirmCovered, FindCoupon, CouponExhausted, InsertOrder, MarkOrderPaid,
             GatewayTakesOrder, GatewayRefuses, GiveBack, Dies
        <4>2. QED
          BY <2>1, <4>1 DEF coupon, extras
      <3>3. QED
        BY <3>1, <3>2
    <2>3. ASSUME NEW f \in Friends, Apply(f)
          PROVE  LimitsKept'
      <3>1. IsFiniteSet(referred)
        BY WalletSets, FS_Subset DEF CreditInv, RestTyped
      <3>2. Cardinality(referred \cup {f}) = Cardinality(referred) + 1
            /\ Cardinality(referred) \in Nat
        BY <2>3, <3>1, FS_AddElement, FS_CardinalityType DEF Apply
      <3>3. QED
        BY <2>3, <3>2, WalletNumbers DEF Apply, Rewards, coupon, LimitsKept
    <2>4. CASE Credits
      BY <2>1, <2>3, <2>4 DEF Credits, GrantCredit, BoostReads, BoostPays, coupon
    <2>5. ASSUME NEW o \in Orders, NEW w \in BOOLEAN, Captured(o, w)
          PROVE  LimitsKept'
      BY <2>1, <2>5 DEF Captured, coupon, extras
    <2>6. ASSUME NEW b \in Bookings, BookingEnds(b)
          PROVE  LimitsKept'
      BY <2>1, <2>6 DEF BookingEnds, coupon, extras
    <2>7. CASE ReleaseAbandonedOrders \/ CouponEnds \/ UNCHANGED vars
      BY <2>1, <2>7 DEF ReleaseAbandonedOrders, CouponEnds, vars, coupon, extras
    <2>8. QED
      BY <2>2, <2>4, <2>5, <2>6, <2>7 DEF Next
  <1>3. QED
    BY <1>1, <1>2, PTL DEF Spec

=============================================================================
