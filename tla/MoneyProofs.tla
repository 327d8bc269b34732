----------------------------- MODULE MoneyProofs -----------------------------
(***************************************************************************)
(* Proofs about the money that leaves the platform: the refunds of guests, *)
(* with the event path that starts them, and the payouts of hosts.  They   *)
(* hold for any set of events, any number of workers, staff calls, refund  *)
(* attempts and payout requests, any amounts and any commission rates.     *)
(* Refunds whose answer from the gateway was lost are told apart by what   *)
(* the theorems say, not by an assumption.  Refunds and payouts share no   *)
(* state here: each theorem names the specification it is about.           *)
(***************************************************************************)
EXTENDS Refunds, Payouts, Sums, TLAPS

-----------------------------------------------------------------------------
(* The event path. *)

(* What MarkedWasPublished lacks to be inductive: a row a drain is about to *)
(* mark is in the stream already.                                           *)
DrainInv ==
  /\ published \in [Events -> Nat]
  /\ sent \in [Workers -> Events \cup {None}]
  /\ batch \in [Workers -> SUBSET Events]
  /\ written \subseteq Events /\ marked \subseteq Events
  /\ \A w \in Workers : sent[w] # None => published[sent[w]] > 0
  /\ MarkedWasPublished

(* Steps that leave what the drains keep alone disturb nothing. *)
LEMMA DrainInvQuiet ==
  ASSUME DrainInv, UNCHANGED <<written, drain, published>>
  PROVE  DrainInv'
  BY DEF DrainInv, MarkedWasPublished, drain

(* Every step of the event path preserves the invariant. *)
LEMMA DrainInvStep ==
  ASSUME DrainInv, [OutboxNext]_outbox
  PROVE  DrainInv'
  <1> USE EventsAssumption
  <1>1. ASSUME NEW e \in Events, Enqueue(e)
        PROVE  DrainInv'
    BY <1>1 DEF Enqueue, drain, DrainInv, MarkedWasPublished
  <1>2. ASSUME NEW w \in Workers, ReadUnpublished(w)
        PROVE  DrainInv'
    BY <1>2 DEF ReadUnpublished, DrainInv, MarkedWasPublished
  <1>3. ASSUME NEW w \in Workers, NEW e \in Events, Publish(w, e)
        PROVE  DrainInv'
    <2>1. /\ published' \in [Events -> Nat]
          /\ \A f \in Events : published[f] > 0 => published'[f] > 0
          /\ published'[e] > 0
      BY <1>3 DEF Publish, DrainInv
    <2>2. /\ sent' \in [Workers -> Events \cup {None}]
          /\ \A v \in Workers : sent'[v] = e \/ sent'[v] = sent[v]
          /\ UNCHANGED <<written, marked, batch>>
      BY <1>3 DEF Publish, DrainInv
    <2>3. QED
      BY <2>1, <2>2 DEF DrainInv, MarkedWasPublished
  <1>4. ASSUME NEW w \in Workers, MarkPublished(w)
        PROVE  DrainInv'
    BY <1>4 DEF MarkPublished, DrainInv, MarkedWasPublished
  <1>5. ASSUME NEW w \in Workers, DrainFails(w) \/ WorkerDies(w)
        PROVE  DrainInv'
    BY <1>5 DEF DrainFails, WorkerDies, DrainInv, MarkedWasPublished
  <1>6. ASSUME NEW w \in Workers,
               \/ \E m \in Messages : Deliver(w, m)
               \/ HandlerSucceeds(w) \/ HandlerFails(w)
        PROVE  DrainInv'
    BY <1>6, DrainInvQuiet DEF Deliver, HandlerSucceeds, HandlerFails, drain
  <1>7. CASE UNCHANGED outbox
    BY <1>7, DrainInvQuiet DEF outbox
  <1>8. QED
    BY <1>1, <1>2, <1>3, <1>4, <1>5, <1>6, <1>7 DEF OutboxNext, DrainStep

(* No event is lost before the stream has it: whatever drains overlap, fail *)
(* or die, a row that no drain will read again was published.               *)
THEOREM OutboxLosesNothing == OutboxSpec => []MarkedWasPublished
  <1>1. OutboxInit => DrainInv
    BY DEF OutboxInit, DrainInv, MarkedWasPublished, None
  <1>2. DrainInv /\ [OutboxNext]_outbox => DrainInv'
    BY DrainInvStep
  <1>3. DrainInv => MarkedWasPublished
    BY DEF DrainInv
  <1>4. QED
    BY <1>1, <1>2, <1>3, PTL DEF OutboxSpec

-----------------------------------------------------------------------------
(* Attempts and the gateway. *)

(* The stages in which a caller works on an attempt of its own. *)
Active(c) == stage[c] \in {"gateway", "complete", "fail"}

(* The columns of the refunds table and the callers' own variables. *)
RowsTyped ==
  /\ status \in [Rows -> {"none", "pending", "processed", "failed"}]
  /\ gateway \in [Rows -> {"none", "accepted", "done", "failed"}]
  /\ entries \subseteq Rows
  /\ stage \in [Refunders -> {"idle", "read", "begin", "gateway", "complete",
                              "fail", "notify"}]
  /\ row \in [Refunders -> Rows \cup {None}]
  /\ unheard \subseteq Rows

(* Nobody else works on a caller's attempt, and the stage says what the     *)
(* gateway knows of it.                                                     *)
OwnRows ==
  /\ \A c \in Refunders : Active(c) =>
       /\ row[c] \in Rows /\ status[row[c]] # "none"
       /\ stage[c] = "gateway" => status[row[c]] = "pending"
       /\ stage[c] = "gateway" => gateway[row[c]] = "none"
       /\ stage[c] = "fail" => gateway[row[c]] = "none" \/ row[c] \in unheard
       /\ stage[c] = "complete" => gateway[row[c]] # "none"
  /\ \A c, d \in Refunders :
       Active(c) /\ Active(d) /\ row[c] = row[d] => c = d

(* The gateway knows only inserted attempts. *)
KnownRows == \A r \in Rows : status[r] = "none" => gateway[r] = "none"

(* The inductive invariant: what the two properties need to be kept. *)
RefundInv ==
  RowsTyped /\ OwnRows /\ KnownRows /\ MoneyOutIsCounted /\ EntriesAreReal

-----------------------------------------------------------------------------
(* The invariant holds initially and every step keeps it. *)
LEMMA RefundInvInit == RefundsInit => RefundInv
  BY DEF RefundsInit, RefundInv, RowsTyped, OwnRows, Active, KnownRows,
     MoneyOutIsCounted, MoneyOut, Counted, EntriesAreReal, Rows, None

(* Steps that leave the refunds table alone and start no attempt. *)
LEMMA RefundInvQuiet ==
  ASSUME RefundInv, UNCHANGED <<status, gateway, entries, unheard>>,
         stage' \in [Refunders -> {"idle", "read", "begin", "gateway", "complete",
                                   "fail", "notify"}],
         row' \in [Refunders -> Rows \cup {None}],
         \A c \in Refunders : Active(c)' => stage'[c] = stage[c] /\ row'[c] = row[c]
  PROVE  RefundInv'
  BY DEF RefundInv, RowsTyped, OwnRows, Active, KnownRows, MoneyOutIsCounted,
     MoneyOut, Counted, EntriesAreReal

LEMMA RefundInvStep ==
  ASSUME RefundInv, [RefundsNext]_all
  PROVE  RefundInv'
  <1> USE DEF Refunders, others
  <1>1. ASSUME NEW c \in Refunders, NEW r \in Rows, BeginRefund(c, r)
        PROVE  RefundInv'
    <2>1. status[r] = "none"
      BY <1>1 DEF BeginRefund, Inserted, Rows
    <2>2. QED
      BY <1>1, <2>1 DEF BeginRefund, Goes, RefundInv, RowsTyped, OwnRows, Active,
         KnownRows, MoneyOutIsCounted, MoneyOut, Counted, EntriesAreReal
  <1>2. ASSUME NEW c \in Refunders, GatewayAccepts(c)
        PROVE  RefundInv'
    BY <1>2 DEF GatewayAccepts, Goes, RefundInv, RowsTyped, OwnRows, Active,
       KnownRows, MoneyOutIsCounted, MoneyOut, Counted, EntriesAreReal
  <1>3. ASSUME NEW c \in Refunders, GatewayErrs(c)
        PROVE  RefundInv'
    <2>1. /\ stage[c] = "gateway" /\ stage' = [stage EXCEPT ![c] = "fail"]
          /\ UNCHANGED <<status, entries, row>>
          /\ \/ UNCHANGED <<gateway, unheard>>
             \/ /\ gateway' = [gateway EXCEPT ![row[c]] = "accepted"]
                /\ unheard' = unheard \cup {row[c]}
      BY <1>3 DEF GatewayErrs, Goes
    <2>2. row[c] \in Rows /\ status[row[c]] = "pending" /\ gateway[row[c]] = "none"
      BY <2>1 DEF RefundInv, OwnRows, Active
    <2>3. RowsTyped' /\ KnownRows' /\ EntriesAreReal'
      BY <2>1, <2>2 DEF RefundInv, RowsTyped, KnownRows, EntriesAreReal
    <2>4. OwnRows'
      BY <2>1, <2>2 DEF RefundInv, RowsTyped, OwnRows, Active
    <2>5. MoneyOutIsCounted'
      BY <2>1, <2>2 DEF RefundInv, RowsTyped, MoneyOutIsCounted, MoneyOut, Counted
    <2>6. QED
      BY <2>3, <2>4, <2>5 DEF RefundInv
  <1>4. ASSUME NEW c \in Refunders, FailRefund(c)
        PROVE  RefundInv'
    BY <1>4 DEF FailRefund, EndsWithError, Ends, Goes, RefundInv, RowsTyped,
       OwnRows, Active, KnownRows, MoneyOutIsCounted, MoneyOut, Counted, EntriesAreReal
  <1>5. ASSUME NEW c \in Refunders, CompleteRefund(c)
        PROVE  RefundInv'
    BY <1>5 DEF CompleteRefund, Ends, Goes, RefundInv, RowsTyped, OwnRows, Active,
       KnownRows, MoneyOutIsCounted, MoneyOut, Counted, EntriesAreReal
  <1>6. ASSUME NEW r \in Rows, GatewaySettles(r) \/ GatewayFails(r) \/ RecordRefundResult(r)
        PROVE  RefundInv'
    BY <1>6 DEF GatewaySettles, GatewayFails, RecordRefundResult, call, RefundInv,
       RowsTyped, OwnRows, Active, KnownRows, MoneyOutIsCounted, MoneyOut, Counted,
       EntriesAreReal
  <1>7. ASSUME UNCHANGED <<refund, call, unheard>>
        PROVE  RefundInv'
    BY <1>7, RefundInvQuiet DEF refund, call, RefundInv, RowsTyped
  <1>8. ASSUME NEW c \in Refunders, Ends(c), UNCHANGED <<refund, unheard>>
        PROVE  RefundInv'
    BY <1>8, RefundInvQuiet DEF Ends, Goes, Active, refund, RefundInv, RowsTyped
  <1>9. ASSUME NEW w \in Workers, WorkerStep(w) \/ NotificationFails(w)
        PROVE  RefundInv'
    <2>1. ASSUME NEW m \in Messages, HandleCancelled(w, m)
          PROVE  RefundInv'
      BY <2>1, RefundInvQuiet DEF HandleCancelled, Goes, Active, refund, RefundInv, RowsTyped
    <2>2. CASE ReadOwed(w)
      BY <2>2, RefundInvQuiet DEF ReadOwed, Goes, Active, refund, RefundInv, RowsTyped
    <2>3. CASE Acknowledge(w) \/ NotificationFails(w)
      BY <2>3, <1>8 DEF Acknowledge, NotificationFails, EndsWithError
    <2>4. QED
      BY <1>9, <2>1, <2>2, <2>3 DEF WorkerStep
  <1>10. ASSUME NEW c \in Staff, NEW n \in 1..Paid, RefundPayment(c, n)
         PROVE  RefundInv'
    BY <1>10, RefundInvQuiet DEF RefundPayment, Goes, Active, refund, RefundInv, RowsTyped
  <1>11. ASSUME NEW c \in Refunders, RefundRefused(c) \/ CallDies(c)
         PROVE  RefundInv'
    BY <1>11, <1>8 DEF RefundRefused, EndsWithError, CallDies
  <1>12. CASE OutboxStep
    BY <1>7, <1>12 DEF OutboxStep
  <1>13. CASE UNCHANGED all
    BY <1>7, <1>13 DEF all
  <1>14. ASSUME NEW c \in Refunders, RefundStep(c)
         PROVE  RefundInv'
    BY <1>1, <1>2, <1>4, <1>5, <1>11, <1>14 DEF RefundStep
  <1>15. QED
    BY <1>3, <1>6, <1>9, <1>10, <1>11, <1>12, <1>13, <1>14 DEF RefundsNext, GatewayStep

-----------------------------------------------------------------------------
(* No refund is forgotten: an attempt whose money left the platform keeps   *)
(* counting in what RefundedTotal and BeginRefund add up, whatever retries, *)
(* duplicates, deaths and early or repeated webhooks interleave; only a     *)
(* refund whose answer was lost can be forgotten.                           *)
THEOREM RefundsStayCounted == RefundsSpec => []MoneyOutIsCounted
  <1>1. RefundInv /\ [RefundsNext]_all => RefundInv'
    BY RefundInvStep
  <1>2. RefundInv => MoneyOutIsCounted
    BY DEF RefundInv
  <1>3. QED
    BY <1>1, <1>2, RefundInvInit, PTL DEF RefundsSpec

(* The books show no refund that the gateway never took. *)
THEOREM RefundEntriesAreReal == RefundsSpec => []EntriesAreReal
  <1>1. RefundInv /\ [RefundsNext]_all => RefundInv'
    BY RefundInvStep
  <1>2. RefundInv => EntriesAreReal
    BY DEF RefundInv
  <1>3. QED
    BY <1>1, <1>2, RefundInvInit, PTL DEF RefundsSpec

(* Refinement: seen from the event path, the refund handler is a handler    *)
(* like any other.  Its steps deliver, acknowledge or refuse a message, or  *)
(* leave the outbox alone, so what holds of Outbox holds here.              *)
THEOREM RefundsUseOutbox == RefundsSpec => OutboxRespected
  <1>1. RefundsInit => OutboxInit
    BY DEF RefundsInit
  <1>2. [RefundsNext]_all => [OutboxNext]_outbox
    <2> SUFFICES ASSUME [RefundsNext]_all PROVE [OutboxNext]_outbox
      OBVIOUS
    <2>1. ASSUME NEW c \in Refunders, EndsWithError(c)
          PROVE  [OutboxNext]_outbox
      BY <2>1 DEF EndsWithError, OutboxNext
    <2>2. CASE OutboxStep
      BY <2>2 DEF OutboxStep, OutboxNext
    <2>3. ASSUME NEW w \in Workers, WorkerStep(w) \/ NotificationFails(w)
          PROVE  [OutboxNext]_outbox
      BY <2>1, <2>3 DEF WorkerStep, NotificationFails, HandleCancelled, ReadOwed,
         Acknowledge, OutboxNext, Refunders
    <2>4. ASSUME NEW c \in Staff, NEW n \in 1..Paid, RefundPayment(c, n)
          PROVE  UNCHANGED outbox
      BY <2>4 DEF RefundPayment
    <2>5. ASSUME NEW c \in Refunders, RefundStep(c) \/ GatewayErrs(c)
          PROVE  [OutboxNext]_outbox
      BY <2>1, <2>5 DEF RefundStep, BeginRefund, RefundRefused, GatewayAccepts,
         CompleteRefund, FailRefund, GatewayErrs
    <2>6. ASSUME NEW c \in Refunders, CallDies(c)
          PROVE  [OutboxNext]_outbox
      BY <2>6 DEF CallDies, OutboxNext
    <2>7. ASSUME NEW r \in Rows, GatewayStep(r)
          PROVE  UNCHANGED outbox
      BY <2>7 DEF GatewayStep, GatewaySettles, GatewayFails, RecordRefundResult
    <2>8. CASE UNCHANGED all
      BY <2>8 DEF all
    <2>9. QED
      BY <2>2, <2>3, <2>4, <2>5, <2>6, <2>7, <2>8 DEF RefundsNext
  <1>3. QED
    BY <1>1, <1>2, PTL DEF RefundsSpec, OutboxRespected, OutboxSpec

(* So the refund path loses no event before the stream has it either.       *)
THEOREM RefundsLoseNoEvent == RefundsSpec => []MarkedWasPublished
  <1>1. OutboxRespected => OutboxSpec
    BY DEF OutboxRespected
  <1>2. QED
    BY <1>1, RefundsUseOutbox, OutboxLosesNothing, PTL

-----------------------------------------------------------------------------
(* A worker at work has a message, whose event says what percentage of the  *)
(* payment goes back.                                                       *)
HandlesTyped ==
  /\ percent \in [Events -> Percents]
  /\ handling \in [Workers -> Messages \cup {NoMsg}]
  /\ stage \in [Refunders -> {"idle", "read", "begin", "gateway", "complete",
                              "fail", "notify"}]
  /\ \A w \in Workers : stage[w] # "idle" => handling[w] \in Messages

LEMMA HandlesTypedStep ==
  ASSUME HandlesTyped, [RefundsNext]_all
  PROVE  HandlesTyped'
  <1> USE DEF Refunders, others
  <1>1. ASSUME NEW c \in Refunders, Ends(c), UNCHANGED percent,
               handling' = handling \/ handling' = [handling EXCEPT ![c] = NoMsg]
        PROVE  HandlesTyped'
    BY <1>1 DEF Ends, Goes, HandlesTyped
  <1>2. ASSUME NEW c \in Refunders, stage[c] # "idle",
               NEW s \in {"begin", "gateway", "complete", "fail", "notify"},
               Goes(c, s), UNCHANGED <<percent, outbox>>
        PROVE  HandlesTyped'
    BY <1>2 DEF Goes, HandlesTyped, outbox, delivery
  <1>3. ASSUME UNCHANGED <<percent, handling, stage>>
        PROVE  HandlesTyped'
    BY <1>3 DEF HandlesTyped
  <1>4. ASSUME NEW c \in Refunders, EndsWithError(c), UNCHANGED percent
        PROVE  HandlesTyped'
    BY <1>1, <1>4 DEF EndsWithError, HandlerFails, StopHandling, outbox, delivery
  <1>5. ASSUME NEW w \in Workers, WorkerStep(w) \/ NotificationFails(w)
        PROVE  HandlesTyped'
    <2>1. ASSUME NEW m \in Messages, HandleCancelled(w, m)
          PROVE  HandlesTyped'
      BY <2>1 DEF HandleCancelled, Deliver, Goes, HandlesTyped
    <2>2. CASE ReadOwed(w)
      BY <1>2, <2>2 DEF ReadOwed
    <2>3. CASE Acknowledge(w)
      BY <1>1, <2>3 DEF Acknowledge, HandlerSucceeds, StopHandling
    <2>4. CASE NotificationFails(w)
      BY <1>4, <2>4 DEF NotificationFails
    <2>5. QED
      BY <1>5, <2>1, <2>2, <2>3, <2>4 DEF WorkerStep
  <1>6. ASSUME NEW c \in Staff, NEW n \in 1..Paid, RefundPayment(c, n)
        PROVE  HandlesTyped'
    BY <1>6, StaffAssumption DEF RefundPayment, Goes, HandlesTyped, outbox, delivery
  <1>7. ASSUME NEW c \in Refunders, RefundStep(c) \/ GatewayErrs(c)
        PROVE  HandlesTyped'
    <2>1. ASSUME NEW r \in Rows, BeginRefund(c, r)
          PROVE  HandlesTyped'
      BY <1>2, <2>1 DEF BeginRefund
    <2>2. CASE GatewayAccepts(c) \/ GatewayErrs(c)
      BY <1>2, <2>2 DEF GatewayAccepts, GatewayErrs, Error
    <2>3. CASE CompleteRefund(c)
      BY <1>1, <1>2, <2>3 DEF CompleteRefund, outbox, delivery
    <2>4. CASE RefundRefused(c) \/ FailRefund(c)
      BY <1>4, <2>4 DEF RefundRefused, FailRefund
    <2>5. QED
      BY <1>7, <2>1, <2>2, <2>3, <2>4 DEF RefundStep
  <1>8. ASSUME NEW c \in Refunders, CallDies(c)
        PROVE  HandlesTyped'
    BY <1>1, <1>8 DEF CallDies, WorkerDies, StopHandling, Error, outbox, delivery
  <1>9. ASSUME NEW r \in Rows, GatewayStep(r)
        PROVE  HandlesTyped'
    BY <1>3, <1>9 DEF GatewayStep, GatewaySettles, GatewayFails, RecordRefundResult, Error,
       call, outbox, delivery
  <1>10. CASE OutboxStep \/ UNCHANGED all
    <2>1. OutboxStep => UNCHANGED handling
      BY DEF OutboxStep, Enqueue, DrainStep, DrainFails, ReadUnpublished, MarkPublished,
         Publish, delivery
    <2>2. QED
      BY <1>3, <1>10, <2>1 DEF OutboxStep, all, outbox, delivery, call
  <1>11. QED
    BY <1>5, <1>6, <1>7, <1>8, <1>9, <1>10 DEF RefundsNext

LEMMA AlwaysHandlesTyped == RefundsSpec => []HandlesTyped
  <1>1. RefundsInit => HandlesTyped
    BY DEF RefundsInit, OutboxInit, HandlesTyped, Refunders
  <1>2. QED
    BY <1>1, HandlesTypedStep, PTL DEF RefundsSpec

(* What an event returns is a whole number of units. *)
LEMMA TargetType ==
  ASSUME HandlesTyped, NEW e \in Events
  PROVE  Target(e) \in Int
  <1>1. percent[e] \in Nat
    BY PercentsAssumption DEF HandlesTyped
  <1>2. PICK x \in {percent[e], 100} : \A y \in {percent[e], 100} : x <= y
    BY <1>1
  <1>3. Min({percent[e], 100}) \in {percent[e], 100}
    BY <1>2 DEF Min
  <1>4. Paid * Min({percent[e], 100}) \in Nat
    BY <1>1, <1>3, PaidAssumption
  <1>5. QED
    BY <1>4 DEF Target

LEMMA WorkerTargetType ==
  ASSUME HandlesTyped, NEW w \in Workers, stage[w] # "idle"
  PROVE  Target(handling[w][1]) \in Int /\ handling[w][1] \in Events
  BY TargetType DEF HandlesTyped, Messages

-----------------------------------------------------------------------------
(* Sums of amounts. *)

(* A total is the sum of its rows, and there are finitely many of them. *)
LEMMA TotalIsSum == \A rs : Total(rs) = Sum(amount, rs)
  BY DEF Total, Sum

LEMMA RowsFinite == \A rs \in SUBSET Rows : IsFiniteSet(rs)
  <1>1. Attempts \in Int
    BY AttemptsAssumption
  <1>2. IsFiniteSet(Rows)
    BY <1>1, FS_Interval DEF Rows
  <1>3. QED
    BY <1>2, FS_Subset

(* The amounts are natural numbers, and so is what a caller owes. *)
AmountsTyped ==
  /\ amount \in [Rows -> Nat]
  /\ owed \in [Refunders -> Nat]

(* More rows make a total no smaller, as long as their amounts stay. *)
LEMMA TotalGrows ==
  ASSUME AmountsTyped, NEW rs \in SUBSET Rows, NEW ss \in SUBSET rs
  PROVE  /\ Sum(amount, rs) \in Int /\ Sum(amount, ss) \in Int
         /\ Sum(amount, ss) <= Sum(amount, rs)
  <1>1. IsFiniteSet(rs) /\ IsFiniteSet(ss) /\ \A r \in rs : amount[r] \in Nat
    BY RowsFinite DEF AmountsTyped
  <1>2. QED
    BY <1>1, SumInt, SumGrows

(* An inserted attempt adds what its caller owes to every total it joins,   *)
(* and no other row changes its amount.                                     *)
LEMMA TotalInserts ==
  ASSUME AmountsTyped, NEW c \in Refunders, NEW r \in Rows, BeginRefund(c, r),
         NEW rs \in SUBSET (Rows \ {r})
  PROVE  Sum(amount', rs \cup {r}) = owed[c] + Sum(amount, rs)
  <1> DEFINE more == rs \cup {r}
  <1>1. IsFiniteSet(rs) /\ IsFiniteSet(more)
    BY RowsFinite
  <1>2. amount' \in [Rows -> Nat] /\ amount'[r] = owed[c]
        /\ \A q \in rs : amount[q] = amount'[q]
    BY DEF BeginRefund, AmountsTyped
  <1>3. Sum(amount', more) = amount'[r] + Sum(amount', more \ {r})
    <2>1. \A q \in more : amount'[q] \in Int
      BY <1>2
    <2>2. QED
      BY <1>1, <2>1, SumWithout
  <1>4. more \ {r} = rs
    OBVIOUS
  <1>5. Sum(amount, rs) = Sum(amount', rs)
    BY <1>1, <1>2, SumSame
  <1>6. QED
    BY <1>2, <1>3, <1>4, <1>5

(* The types are kept. *)
LEMMA AmountsTypedStep ==
  ASSUME AmountsTyped, HandlesTyped, [RefundsNext]_all
  PROVE  AmountsTyped'
  <1> USE PaidAssumption DEF Refunders
  <1>1. ASSUME NEW c \in Refunders, Ends(c), UNCHANGED refund
        PROVE  AmountsTyped'
    BY <1>1 DEF Ends, refund, AmountsTyped
  <1>2. ASSUME NEW w \in Workers, WorkerStep(w) \/ NotificationFails(w)
        PROVE  AmountsTyped'
    <2>1. CASE ReadOwed(w)
      <3>1. RefundedTotal \in Int
        BY TotalGrows, TotalIsSum DEF RefundedTotal, Counted
      <3>2. Target(handling[w][1]) \in Int
        BY <2>1, WorkerTargetType DEF ReadOwed
      <3>3. RefundedTotal < Target(handling[w][1])
              => Target(handling[w][1]) - RefundedTotal \in Nat
        BY <3>1, <3>2
      <3>4. QED
        BY <2>1, <3>3 DEF ReadOwed, refund, AmountsTyped
    <2>2. ASSUME NEW m \in Messages, HandleCancelled(w, m)
          PROVE  AmountsTyped'
      BY <2>2 DEF HandleCancelled, refund, AmountsTyped
    <2>3. QED
      BY <1>1, <1>2, <2>1, <2>2 DEF WorkerStep, Acknowledge, NotificationFails, EndsWithError
  <1>3. ASSUME NEW c \in Staff, NEW n \in 1..Paid, RefundPayment(c, n)
        PROVE  AmountsTyped'
    <2>1. n \in Nat
      OBVIOUS
    <2>2. QED
      BY <1>3, <2>1 DEF RefundPayment, refund, AmountsTyped
  <1>4. ASSUME NEW c \in Refunders, NEW r \in Rows, BeginRefund(c, r)
        PROVE  AmountsTyped'
    BY <1>4 DEF BeginRefund, AmountsTyped
  <1>5. ASSUME NEW c \in Refunders, RefundRefused(c) \/ CallDies(c)
        PROVE  AmountsTyped'
    BY <1>1, <1>5 DEF RefundRefused, EndsWithError, CallDies
  <1>6. ASSUME NEW c \in Refunders,
               \/ GatewayAccepts(c) \/ GatewayErrs(c)
               \/ CompleteRefund(c) \/ FailRefund(c)
        PROVE  AmountsTyped'
    BY <1>6 DEF GatewayAccepts, GatewayErrs, CompleteRefund, FailRefund, EndsWithError,
       Ends, AmountsTyped
  <1>7. ASSUME NEW r \in Rows, GatewayStep(r)
        PROVE  AmountsTyped'
    BY <1>7 DEF GatewayStep, GatewaySettles, GatewayFails, RecordRefundResult, call,
       AmountsTyped
  <1>8. CASE OutboxStep \/ UNCHANGED all
    BY <1>8 DEF OutboxStep, all, refund, call, AmountsTyped
  <1>9. QED
    BY <1>2, <1>3, <1>4, <1>5, <1>6, <1>7, <1>8 DEF RefundsNext, RefundStep

-----------------------------------------------------------------------------
(* What was paid bounds what leaves. *)

(* The attempts whose money left, or may leave with the next call.          *)
Leaving == (MoneyOut \ unheard) \cup {row[c] : c \in {d \in Refunders : stage[d] = "gateway"}}

(* The total of all that counts is no invariant: CompleteRefund and an      *)
(* early webhook may count a failed attempt again.  This one is.            *)
MoneyInv == RefundInv /\ AmountsTyped /\ Sum(amount, Leaving) <= Paid

(* Attempts under way are counted by BeginRefund. *)
LEMMA LeavingIsCounted ==
  ASSUME RefundInv
  PROVE  Leaving \subseteq Counted /\ Counted \subseteq Rows
  BY DEF RefundInv, OwnRows, Active, MoneyOutIsCounted, Leaving, Counted

(* Steps that change no amount and let no further money leave. *)
LEMMA MoneyInvQuiet ==
  ASSUME MoneyInv, RefundInv', AmountsTyped', amount' = amount, Leaving' \subseteq Leaving
  PROVE  MoneyInv'
  <1>1. Leaving \in SUBSET Rows /\ Leaving' \in SUBSET Leaving
    BY LeavingIsCounted DEF MoneyInv
  <1>2. /\ Sum(amount, Leaving') \in Int /\ Sum(amount, Leaving) \in Int
        /\ Sum(amount, Leaving') <= Sum(amount, Leaving)
    BY <1>1, TotalGrows DEF MoneyInv
  <1>3. QED
    BY <1>2, PaidAssumption DEF MoneyInv

(* The attempt that fits under the lock keeps what may leave within Paid.   *)
LEMMA MoneyInvBegins ==
  ASSUME MoneyInv, RefundInv', AmountsTyped',
         NEW c \in Refunders, NEW r \in Rows, BeginRefund(c, r)
  PROVE  MoneyInv'
  <1>1. r \notin Counted
    BY DEF BeginRefund, Inserted, Counted, Rows
  <1>2. Leaving \in SUBSET (Rows \ {r})
    BY <1>1, LeavingIsCounted DEF MoneyInv
  <1>3. Leaving' = Leaving \cup {r}
    BY DEF BeginRefund, Goes, Leaving, MoneyOut, others, MoneyInv, RefundInv, RowsTyped
  <1>4. Sum(amount', Leaving') = owed[c] + Sum(amount, Leaving)
    BY <1>2, <1>3, TotalInserts DEF MoneyInv
  <1>5. /\ Sum(amount, Leaving) \in Int /\ Sum(amount, Counted) \in Int
        /\ Sum(amount, Leaving) <= Sum(amount, Counted)
    BY LeavingIsCounted, TotalGrows DEF MoneyInv
  <1>6. Sum(amount, Counted) + owed[c] <= Paid /\ owed[c] \in Nat
    BY TotalIsSum DEF BeginRefund, Fits, RefundedTotal, MoneyInv, AmountsTyped
  <1>7. QED
    BY <1>4, <1>5, <1>6, PaidAssumption DEF MoneyInv

LEMMA MoneyInvStep ==
  ASSUME MoneyInv, HandlesTyped, [RefundsNext]_all
  PROVE  MoneyInv'
  <1> USE DEF Refunders, others
  <1>0. RefundInv' /\ AmountsTyped'
    BY RefundInvStep, AmountsTypedStep DEF MoneyInv
  <1>1. ASSUME amount' = amount, Leaving' \subseteq Leaving
        PROVE  MoneyInv'
    BY <1>0, <1>1, MoneyInvQuiet
  <1>2. ASSUME NEW c \in Refunders, NEW s, Goes(c, s), s # "gateway", UNCHANGED row,
               UNCHANGED <<gateway, amount, unheard>>
        PROVE  MoneyInv'
    <2>1. Leaving' \subseteq Leaving
      BY <1>2 DEF Goes, Leaving, MoneyOut, MoneyInv, RefundInv, RowsTyped
    <2>2. QED
      BY <1>1, <1>2, <2>1
  <1>3. ASSUME NEW c \in Refunders, Ends(c), UNCHANGED <<gateway, amount, unheard>>
        PROVE  MoneyInv'
    <2>1. Leaving' \subseteq Leaving
      BY <1>3 DEF Ends, Goes, Leaving, MoneyOut, MoneyInv, RefundInv, RowsTyped
    <2>2. QED
      BY <1>1, <1>3, <2>1
  <1>4. ASSUME NEW w \in Workers, WorkerStep(w) \/ NotificationFails(w)
        PROVE  MoneyInv'
    <2>1. ASSUME NEW m \in Messages, HandleCancelled(w, m)
          PROVE  MoneyInv'
      BY <1>2, <2>1 DEF HandleCancelled, refund
    <2>2. CASE ReadOwed(w)
      BY <1>2, <2>2 DEF ReadOwed, refund
    <2>3. CASE Acknowledge(w) \/ NotificationFails(w)
      BY <1>3, <2>3 DEF Acknowledge, NotificationFails, EndsWithError, refund
    <2>4. QED
      BY <1>4, <2>1, <2>2, <2>3 DEF WorkerStep
  <1>5. ASSUME NEW c \in Staff, NEW n \in 1..Paid, RefundPayment(c, n)
        PROVE  MoneyInv'
    BY <1>2, <1>5 DEF RefundPayment, refund
  <1>6. ASSUME NEW c \in Refunders, RefundRefused(c) \/ FailRefund(c) \/ CallDies(c)
        PROVE  MoneyInv'
    BY <1>3, <1>6 DEF RefundRefused, FailRefund, CallDies, EndsWithError, refund
  <1>7. ASSUME NEW c \in Refunders, CompleteRefund(c)
        PROVE  MoneyInv'
    BY <1>2, <1>3, <1>7 DEF CompleteRefund
  <1>8. ASSUME NEW c \in Refunders, GatewayAccepts(c) \/ GatewayErrs(c)
        PROVE  MoneyInv'
    <2>1. UNCHANGED <<amount, row>>
      BY <1>8 DEF GatewayAccepts, GatewayErrs
    <2>2. stage[c] = "gateway" /\ \A d \in Refunders : stage'[d] = "gateway" => stage[d] = "gateway"
      BY <1>8 DEF GatewayAccepts, GatewayErrs, Goes, MoneyInv, RefundInv, RowsTyped
    <2>3. \A r \in Rows : gateway'[r] = gateway[r] \/ r = row[c]
      BY <1>8 DEF GatewayAccepts, GatewayErrs, MoneyInv, RefundInv, RowsTyped
    <2>4. unheard \subseteq unheard'
      BY <1>8 DEF GatewayAccepts, GatewayErrs
    <2>5. Leaving' \subseteq Leaving
      BY <2>1, <2>2, <2>3, <2>4 DEF Leaving, MoneyOut
    <2>6. QED
      BY <1>1, <2>1, <2>5
  <1>9. ASSUME NEW r \in Rows, GatewayStep(r)
        PROVE  MoneyInv'
    <2>1. UNCHANGED <<amount, stage, row, unheard>> /\ MoneyOut' \subseteq MoneyOut
      BY <1>9 DEF GatewayStep, GatewaySettles, GatewayFails, RecordRefundResult, call,
         MoneyOut, MoneyInv, RefundInv, RowsTyped
    <2>2. QED
      BY <1>1, <2>1 DEF Leaving
  <1>10. CASE OutboxStep \/ UNCHANGED all
    <2>1. UNCHANGED <<amount, stage, row, gateway, unheard>>
      BY <1>10 DEF OutboxStep, all, refund, call
    <2>2. QED
      BY <1>1, <2>1 DEF Leaving, MoneyOut
  <1>11. ASSUME NEW c \in Refunders, NEW r \in Rows, BeginRefund(c, r)
         PROVE  MoneyInv'
    BY <1>0, <1>11, MoneyInvBegins
  <1>12. QED
    BY <1>4, <1>5, <1>6, <1>7, <1>8, <1>9, <1>10, <1>11 DEF RefundsNext, RefundStep

(* Duplicates of the event, retries of its handler, refunds by staff and    *)
(* the gateway's early, late or repeated word, all at once, never return    *)
(* more than was paid, but for refunds the gateway took while the caller    *)
(* got an error: those alone can come on top.                               *)
THEOREM RefundsWithinPayment == RefundsSpec => []MoneyWithinPayment
  <1>1. RefundsInit => MoneyInv
    <2> SUFFICES ASSUME RefundsInit PROVE MoneyInv
      OBVIOUS
    <2>1. Leaving = {}
      BY DEF RefundsInit, Leaving, MoneyOut
    <2>2. Sum(amount, Leaving) = 0
      BY <2>1, FS_EmptySet, SumUnfolds
    <2>3. QED
      BY <2>2, RefundInvInit, PaidAssumption DEF MoneyInv, RefundsInit, AmountsTyped
  <1>2. MoneyInv /\ HandlesTyped /\ [RefundsNext]_all => MoneyInv'
    BY MoneyInvStep
  <1>3. MoneyInv => MoneyWithinPayment
    <2> SUFFICES ASSUME MoneyInv PROVE MoneyWithinPayment
      OBVIOUS
    <2>1. Leaving \in SUBSET Rows /\ MoneyOut \ unheard \in SUBSET Leaving
      BY LeavingIsCounted DEF MoneyInv, Leaving
    <2>2. /\ Sum(amount, Leaving) \in Int /\ Sum(amount, MoneyOut \ unheard) \in Int
          /\ Sum(amount, MoneyOut \ unheard) <= Sum(amount, Leaving)
      BY <2>1, TotalGrows DEF MoneyInv
    <2>3. QED
      BY <2>2, TotalIsSum, PaidAssumption DEF MoneyInv, MoneyWithinPayment
  <1>4. QED
    BY <1>1, <1>2, <1>3, AlwaysHandlesTyped, PTL DEF RefundsSpec

-----------------------------------------------------------------------------
(* What is acknowledged was returned. *)

(* A worker past the read knows that the attempts, with the one it is about *)
(* to insert, add up to what its event returns; past the insertion they do. *)
(* So they do for every event handled.                                      *)
Adds(e, n) == Sum(amount, Inserted) + n >= Target(e)
ReturnInv ==
  /\ AmountsTyped
  /\ status \in [Rows -> {"none", "pending", "processed", "failed"}]
  /\ handled \subseteq Events
  /\ \A w \in Workers :
       /\ stage[w] = "begin" => Adds(handling[w][1], owed[w])
       /\ stage[w] \in {"gateway", "complete", "notify"} => Adds(handling[w][1], 0)
  /\ \A e \in handled : Adds(e, 0)

LEMMA InsertedType == Inserted \in SUBSET Rows
  BY DEF Inserted

(* The attempts never add up to less, and what an event returns is settled. *)
LEMMA AddsStays ==
  ASSUME AmountsTyped, HandlesTyped, UNCHANGED <<amount, percent>>,
         Inserted \subseteq Inserted', NEW e \in Events, NEW n \in Nat, Adds(e, n)
  PROVE  Adds(e, n)'
  <1>1. Inserted' \in SUBSET Rows /\ Inserted \in SUBSET Inserted'
    BY DEF Inserted
  <1>2. /\ Sum(amount, Inserted) \in Int /\ Sum(amount, Inserted') \in Int
        /\ Sum(amount, Inserted) <= Sum(amount, Inserted')
    BY <1>1, TotalGrows
  <1>3. Target(e) \in Int /\ Target(e)' = Target(e)
    BY TargetType DEF Target
  <1>4. QED
    BY <1>2, <1>3 DEF Adds

(* Steps that insert nothing and bring no worker to a stage it must earn.   *)
LEMMA ReturnInvQuiet ==
  ASSUME ReturnInv, HandlesTyped, AmountsTyped', UNCHANGED <<amount, percent>>,
         status' \in [Rows -> {"none", "pending", "processed", "failed"}],
         Inserted \subseteq Inserted',
         \A w \in Workers :
           /\ stage'[w] \in {"begin", "gateway", "complete", "notify"}
              => handling'[w] = handling[w]
           /\ stage'[w] = "begin" => stage[w] = "begin" /\ owed'[w] = owed[w]
           /\ stage'[w] \in {"gateway", "complete", "notify"}
              => stage[w] \in {"gateway", "complete", "notify"},
         \A e \in handled' \ handled :
           \E w \in Workers : stage[w] = "notify" /\ e = handling[w][1]
  PROVE  ReturnInv'
  <1>1. \A w \in Workers : stage[w] # "idle" => handling[w][1] \in Events
    BY WorkerTargetType
  <1>2. \A w \in Workers : owed[w] \in Nat
    BY DEF ReturnInv, AmountsTyped, Refunders
  <1>3. ASSUME NEW w \in Workers
        PROVE  /\ stage'[w] = "begin" => Adds(handling[w][1], owed[w])'
               /\ stage'[w] \in {"gateway", "complete", "notify"}
                    => Adds(handling[w][1], 0)'
    <2>1. CASE stage'[w] = "begin"
      <3>1. /\ stage[w] = "begin" /\ owed'[w] = owed[w] /\ handling'[w] = handling[w]
            /\ Adds(handling[w][1], owed[w])
        BY <2>1 DEF ReturnInv
      <3>2. Adds(handling[w][1], owed[w])'
        <4> DEFINE e == handling[w][1]
                   n == owed[w]
        <4>1. e \in Events /\ n \in Nat /\ e' = e /\ n' = n /\ Adds(e, n)
          BY <1>1, <1>2, <3>1
        <4>2. ASSUME NEW f \in Events, NEW m \in Nat, Adds(f, m) PROVE Adds(f, m)'
          BY <4>2, AddsStays DEF ReturnInv
        <4>3. Sum(amount', Inserted') + n >= Target(e)'
          BY <4>1, <4>2 DEF Adds, Target
        <4>4. QED
          BY <4>1, <4>3 DEF Adds, Target
      <3>3. QED
        BY <2>1, <3>2
    <2>2. CASE stage'[w] \in {"gateway", "complete", "notify"}
      <3>1. handling'[w] = handling[w] /\ Adds(handling[w][1], 0) /\ handling[w][1] \in Events
        BY <1>1, <2>2 DEF ReturnInv
      <3>2. ASSUME NEW f \in Events, Adds(f, 0) PROVE Adds(f, 0)'
        BY <3>2, AddsStays DEF ReturnInv
      <3>3. QED
        BY <2>2, <3>1, <3>2 DEF Adds, Target
    <2>3. QED
      BY <2>1, <2>2
  <1>4. ASSUME NEW e \in handled'
        PROVE  e \in Events /\ Adds(e, 0)'
    <2>1. e \in Events /\ Adds(e, 0)
      BY <1>1 DEF ReturnInv
    <2>2. QED
      BY <2>1, AddsStays DEF ReturnInv
  <1>5. QED
    BY <1>3, <1>4 DEF ReturnInv

(* The attempt a worker inserts adds the rest. *)
LEMMA ReturnInvBegins ==
  ASSUME ReturnInv, HandlesTyped, AmountsTyped',
         NEW c \in Refunders, NEW r \in Rows, BeginRefund(c, r)
  PROVE  ReturnInv'
  <1>1. Inserted \in SUBSET (Rows \ {r}) /\ Inserted' = Inserted \cup {r}
    BY DEF BeginRefund, Inserted, Rows, ReturnInv
  <1>2. Sum(amount', Inserted') = owed[c] + Sum(amount, Inserted)
    BY <1>1, TotalInserts DEF ReturnInv
  <1>3. Sum(amount, Inserted) \in Int
    BY InsertedType, TotalGrows DEF ReturnInv
  <1>4. \A d \in Refunders : owed[d] \in Nat /\ owed'[d] = owed[d]
    BY DEF BeginRefund, ReturnInv, AmountsTyped
  <1>5. UNCHANGED <<handling, handled, percent>> /\ \A e : Target(e)' = Target(e)
    BY DEF BeginRefund, outbox, delivery, others, Target
  <1>6. ASSUME NEW e \in Events, NEW n \in Nat, Adds(e, n)
        PROVE  Sum(amount', Inserted') + n >= Target(e)
    BY <1>2, <1>3, <1>4, <1>6, TargetType DEF Adds
  <1>7. \A w \in Workers : stage[w] # "idle" => handling[w][1] \in Events
    BY WorkerTargetType
  <1>8. ASSUME NEW w \in Workers
        PROVE  /\ stage'[w] = "begin" => Sum(amount', Inserted') + owed[w] >= Target(handling[w][1])
               /\ stage'[w] \in {"gateway", "complete", "notify"}
                  => Sum(amount', Inserted') + 0 >= Target(handling[w][1])
    <2>1. w \in Refunders
      BY DEF Refunders
    <2>2. CASE w = c
      <3>1. /\ stage'[w] = "gateway" /\ stage[w] = "begin"
            /\ Sum(amount, Inserted) + owed[w] >= Target(handling[w][1])
        BY <2>1, <2>2 DEF BeginRefund, Goes, HandlesTyped, ReturnInv, Adds
      <3>2. QED
        BY <1>2, <1>3, <1>4, <1>7, <2>1, <2>2, <3>1, TargetType
    <2>3. CASE w # c
      <3>1. stage'[w] = stage[w]
        BY <2>1, <2>3 DEF BeginRefund, Goes, HandlesTyped
      <3>2. /\ stage[w] = "begin" => Adds(handling[w][1], owed[w])
            /\ stage[w] \in {"gateway", "complete", "notify"} => Adds(handling[w][1], 0)
        BY DEF ReturnInv
      <3>3. QED
        BY <1>4, <1>6, <1>7, <2>1, <3>1, <3>2
    <2>4. QED
      BY <2>2, <2>3
  <1>9. \A e \in handled : e \in Events /\ Sum(amount', Inserted') + 0 >= Target(e)
    BY <1>6 DEF ReturnInv
  <1>10. status' \in [Rows -> {"none", "pending", "processed", "failed"}]
    BY DEF BeginRefund, ReturnInv
  <1>11. \A w \in Workers : owed'[w] = owed[w]
    BY <1>4 DEF Refunders
  <1>12. QED
    BY <1>5, <1>8, <1>9, <1>10, <1>11 DEF ReturnInv, Adds

(* What a worker owes after the read is what the attempts leave. *)
LEMMA ReturnInvReads ==
  ASSUME ReturnInv, HandlesTyped, AmountsTyped', NEW w \in Workers, ReadOwed(w)
  PROVE  ReturnInv'
  <1> DEFINE t == Target(handling[w][1])
  <1>1. Counted \in SUBSET Inserted
    BY DEF Counted, Inserted
  <1>2. /\ Sum(amount, Inserted) \in Int /\ Sum(amount, Counted) \in Int
        /\ Sum(amount, Counted) <= Sum(amount, Inserted)
    BY <1>1, InsertedType, TotalGrows DEF ReturnInv
  <1>3. RefundedTotal = Sum(amount, Counted) /\ t \in Int
    BY TotalIsSum, WorkerTargetType DEF RefundedTotal, ReadOwed
  <1>4. UNCHANGED <<status, amount, handled, handling, percent>>
    BY DEF ReadOwed, refund, outbox, delivery, others
  <1>5. /\ Inserted' = Inserted /\ \A e : Target(e)' = Target(e)
        /\ \A v \in Workers \ {w} : stage'[v] = stage[v] /\ owed'[v] = owed[v]
    BY <1>4 DEF ReadOwed, Goes, Inserted, Target, HandlesTyped, ReturnInv, AmountsTyped, Refunders
  <1>6. /\ stage'[w] = "begin" => Sum(amount, Inserted) + owed'[w] >= t
        /\ stage'[w] \in {"gateway", "complete", "notify"} => Sum(amount, Inserted) + 0 >= t
    <2>1. CASE RefundedTotal < t
      <3>1. stage'[w] = "begin" /\ owed'[w] = t - Sum(amount, Counted)
        BY <1>3, <2>1 DEF ReadOwed, Goes, HandlesTyped, ReturnInv, AmountsTyped, Refunders
      <3>2. QED
        BY <1>2, <1>3, <3>1
    <2>2. CASE ~(RefundedTotal < t)
      <3>1. stage'[w] = "notify"
        BY <2>2 DEF ReadOwed, Goes, HandlesTyped, Refunders
      <3>2. QED
        BY <1>2, <1>3, <2>2, <3>1
    <2>3. QED
      BY <2>1, <2>2
  <1>7. QED
    BY <1>4, <1>5, <1>6 DEF ReturnInv, Adds

LEMMA ReturnInvStep ==
  ASSUME ReturnInv, HandlesTyped, [RefundsNext]_all
  PROVE  ReturnInv'
  <1> USE DEF Refunders, others
  <1>0. AmountsTyped'
    BY AmountsTypedStep DEF ReturnInv
  <1>1. ASSUME NEW c \in Refunders, Ends(c), UNCHANGED <<amount, percent>>,
               status' \in [Rows -> {"none", "pending", "processed", "failed"}],
               Inserted \subseteq Inserted',
               \A w \in Workers \ {c} : handling'[w] = handling[w],
               handled' = handled \/ (/\ c \in Workers /\ stage[c] = "notify"
                                     /\ handled' = handled \cup {handling[c][1]})
        PROVE  ReturnInv'
    <2>1. /\ \A d \in Refunders : d # c => stage'[d] = stage[d] /\ owed'[d] = owed[d]
          /\ stage'[c] = "idle"
      BY <1>1 DEF Ends, Goes, HandlesTyped, ReturnInv, AmountsTyped
    <2>2. QED
      BY <1>0, <1>1, <2>1, ReturnInvQuiet
  <1>2. ASSUME NEW c \in Refunders, NEW s \in {"complete", "fail", "notify"},
               Goes(c, s), UNCHANGED <<amount, owed, percent, outbox>>,
               s \in {"complete", "notify"} => stage[c] \in {"gateway", "complete"},
               status' \in [Rows -> {"none", "pending", "processed", "failed"}],
               Inserted \subseteq Inserted'
        PROVE  ReturnInv'
    <2>1. /\ \A d \in Refunders : d # c => stage'[d] = stage[d]
          /\ stage'[c] = s /\ UNCHANGED <<handling, handled>>
      BY <1>2 DEF Goes, HandlesTyped, outbox, delivery
    <2>2. QED
      BY <1>0, <1>2, <2>1, ReturnInvQuiet
  <1>3. ASSUME UNCHANGED <<status, amount, stage, owed, handled, handling, percent>>
        PROVE  ReturnInv'
    <2>1. Inserted \subseteq Inserted'
      BY <1>3 DEF Inserted
    <2>2. status' \in [Rows -> {"none", "pending", "processed", "failed"}]
      BY <1>3 DEF ReturnInv
    <2>3. QED
      BY <1>0, <1>3, <2>1, <2>2, ReturnInvQuiet
  <1>4. UNCHANGED status =>
          /\ status' \in [Rows -> {"none", "pending", "processed", "failed"}]
          /\ Inserted \subseteq Inserted'
    BY DEF ReturnInv, Inserted
  <1>5. ASSUME NEW r, NEW s \in {"processed", "failed"}, status' = [status EXCEPT ![r] = s]
        PROVE  /\ status' \in [Rows -> {"none", "pending", "processed", "failed"}]
               /\ Inserted \subseteq Inserted'
    BY <1>5 DEF ReturnInv, Inserted
  <1>6. ASSUME NEW c \in Refunders, EndsWithError(c), UNCHANGED <<amount, percent>>,
               status' \in [Rows -> {"none", "pending", "processed", "failed"}],
               Inserted \subseteq Inserted'
        PROVE  ReturnInv'
    <2>1. /\ \A w \in Workers \ {c} : handling'[w] = handling[w]
          /\ handled' = handled /\ Ends(c)
      BY <1>6 DEF EndsWithError, HandlerFails, StopHandling, HandlesTyped, outbox, delivery
    <2>2. QED
      BY <1>1, <1>6, <2>1
  <1>7. ASSUME NEW w \in Workers, WorkerStep(w) \/ NotificationFails(w)
        PROVE  ReturnInv'
    <2>1. ASSUME NEW m \in Messages, HandleCancelled(w, m)
          PROVE  ReturnInv'
      <3>1. /\ stage'[w] = "read" /\ \A v \in Workers \ {w} : stage'[v] = stage[v]
            /\ \A v \in Workers \ {w} : handling'[v] = handling[v]
            /\ UNCHANGED <<status, amount, owed, handled, percent>>
        BY <2>1 DEF HandleCancelled, Goes, Deliver, refund, HandlesTyped
      <3>2. QED
        BY <1>0, <1>4, <3>1, ReturnInvQuiet
    <2>2. CASE ReadOwed(w)
      BY <1>0, <2>2, ReturnInvReads
    <2>3. CASE Acknowledge(w)
      <3>1. /\ Ends(w) /\ stage[w] = "notify" /\ handled' = handled \cup {handling[w][1]}
            /\ UNCHANGED <<status, amount, percent>>
            /\ \A v \in Workers \ {w} : handling'[v] = handling[v]
        BY <2>3 DEF Acknowledge, HandlerSucceeds, StopHandling, refund, HandlesTyped
      <3>2. QED
        BY <1>1, <1>4, <3>1
    <2>4. CASE NotificationFails(w)
      BY <1>4, <1>6, <2>4 DEF NotificationFails, refund
    <2>5. QED
      BY <1>7, <2>1, <2>2, <2>3, <2>4 DEF WorkerStep
  <1>8. ASSUME NEW c \in Staff, NEW n \in 1..Paid, RefundPayment(c, n)
        PROVE  ReturnInv'
    <2>1. /\ \A w \in Workers : stage'[w] = stage[w] /\ owed'[w] = owed[w]
          /\ UNCHANGED <<status, amount, handled, handling, percent>>
      BY <1>8, StaffAssumption DEF RefundPayment, Goes, refund, outbox, delivery,
         HandlesTyped, ReturnInv, AmountsTyped
    <2>2. QED
      BY <1>0, <1>4, <2>1, ReturnInvQuiet
  <1>9. ASSUME NEW c \in Refunders, GatewayAccepts(c) \/ GatewayErrs(c)
        PROVE  ReturnInv'
    <2>1. UNCHANGED <<status, amount, owed, percent, outbox>> /\ stage[c] = "gateway"
      BY <1>9 DEF GatewayAccepts, GatewayErrs, Error
    <2>2. Goes(c, "complete") \/ Goes(c, "fail")
      BY <1>9 DEF GatewayAccepts, GatewayErrs
    <2>3. QED
      BY <1>2, <1>4, <2>1, <2>2
  <1>10. ASSUME NEW c \in Refunders, CompleteRefund(c)
         PROVE  ReturnInv'
    <2>1. /\ status' \in [Rows -> {"none", "pending", "processed", "failed"}]
          /\ Inserted \subseteq Inserted'
      BY <1>5, <1>10 DEF CompleteRefund
    <2>2. UNCHANGED <<amount, percent, outbox, handled, handling>> /\ stage[c] = "complete"
      BY <1>10 DEF CompleteRefund, outbox, delivery
    <2>3. Ends(c) \/ (Goes(c, "notify") /\ owed' = owed)
      BY <1>10 DEF CompleteRefund
    <2>4. QED
      BY <1>1, <1>2, <2>1, <2>2, <2>3
  <1>11. ASSUME NEW c \in Refunders, FailRefund(c)
         PROVE  ReturnInv'
    <2>1. /\ status' \in [Rows -> {"none", "pending", "processed", "failed"}]
          /\ Inserted \subseteq Inserted'
      BY <1>5, <1>11 DEF FailRefund
    <2>2. QED
      BY <1>6, <1>11, <2>1 DEF FailRefund
  <1>12. ASSUME NEW c \in Refunders, RefundRefused(c)
         PROVE  ReturnInv'
    BY <1>4, <1>6, <1>12 DEF RefundRefused, refund
  <1>13. ASSUME NEW c \in Refunders, CallDies(c)
         PROVE  ReturnInv'
    <2>1. /\ Ends(c) /\ UNCHANGED <<status, amount, percent, handled>>
          /\ \A w \in Workers \ {c} : handling'[w] = handling[w]
      BY <1>13 DEF CallDies, WorkerDies, StopHandling, Error, refund, HandlesTyped,
         outbox, delivery
    <2>2. QED
      BY <1>1, <1>4, <2>1
  <1>14. ASSUME NEW r \in Rows, GatewayStep(r)
         PROVE  ReturnInv'
    <2>1. CASE RecordRefundResult(r)
      <3>1. /\ status' \in [Rows -> {"none", "pending", "processed", "failed"}]
            /\ Inserted \subseteq Inserted'
        BY <1>5, <2>1 DEF RecordRefundResult
      <3>2. UNCHANGED <<amount, stage, owed, handled, handling, percent>>
        BY <2>1 DEF RecordRefundResult, call, outbox, delivery
      <3>3. QED
        BY <1>0, <3>1, <3>2, ReturnInvQuiet
    <2>2. CASE GatewaySettles(r) \/ GatewayFails(r)
      BY <1>3, <2>2 DEF GatewaySettles, GatewayFails, Error, call, outbox, delivery
    <2>3. QED
      BY <1>14, <2>1, <2>2 DEF GatewayStep
  <1>15. CASE OutboxStep \/ UNCHANGED all
    <2>1. OutboxStep => UNCHANGED <<handled, handling>>
      BY DEF OutboxStep, Enqueue, DrainStep, DrainFails, ReadUnpublished, MarkPublished,
         Publish, delivery
    <2>2. QED
      BY <1>3, <1>15, <2>1 DEF OutboxStep, all, outbox, delivery, refund, call
  <1>16. ASSUME NEW c \in Refunders, NEW r \in Rows, BeginRefund(c, r)
         PROVE  ReturnInv'
    BY <1>0, <1>16, ReturnInvBegins
  <1>17. QED
    BY <1>7, <1>8, <1>9, <1>10, <1>11, <1>12, <1>13, <1>14, <1>15, <1>16
    DEF RefundsNext, RefundStep

(* A cancellation is acknowledged only once all that it returns of the      *)
(* payment is on its way back, by whichever of the overlapping refunds,     *)
(* unless an attempt failed since; also when answers of the gateway are     *)
(* lost.                                                                    *)
THEOREM CancellationIsRefunded == RefundsSpec => []AcknowledgedIsRefunded
  <1>1. RefundsInit => ReturnInv
    BY DEF RefundsInit, OutboxInit, ReturnInv, AmountsTyped, Refunders
  <1>2. ReturnInv /\ HandlesTyped /\ [RefundsNext]_all => ReturnInv'
    BY ReturnInvStep
  <1>3. ReturnInv /\ HandlesTyped => AcknowledgedIsRefunded
    <2> SUFFICES ASSUME ReturnInv, HandlesTyped, \A r \in Rows : status[r] # "failed",
                        NEW e \in handled
                 PROVE  RefundedTotal >= Target(e)
      BY DEF AcknowledgedIsRefunded
    <2>1. Counted = Inserted
      BY DEF Counted, Inserted
    <2>2. RefundedTotal = Sum(amount, Inserted) /\ Sum(amount, Inserted) \in Int
      BY <2>1, TotalIsSum, InsertedType, TotalGrows DEF RefundedTotal, ReturnInv
    <2>3. Target(e) \in Int /\ Sum(amount, Inserted) + 0 >= Target(e)
      BY TargetType DEF ReturnInv, Adds
    <2>4. QED
      BY <2>2, <2>3
  <1>4. QED
    BY <1>1, <1>2, <1>3, AlwaysHandlesTyped, PTL DEF RefundsSpec

-----------------------------------------------------------------------------
(* Payouts. *)

(* A request past the lock holds the account row. *)
PastLockHolds == \A c \in Calls : at[c] \in {"sum", "insert"} => holder = c

(* What a request is about to pay out is still there to be paid.           *)
FoundIsLeft ==
  \A c \in Calls : at[c] = "insert" => found[c] + paid <= Share(captured, ProPercent)

(* The inductive invariant: the lock and what was found under it.          *)
PayoutsInv == PayoutsTypeOK /\ PastLockHolds /\ FoundIsLeft /\ PaidWithinEarnings

-----------------------------------------------------------------------------
(* The commission: cut to whole units, it grows by at most 100 percent of  *)
(* what comes in, and with the rate.                                       *)
LEMMA TimesMonotone ==
  ASSUME NEW a \in Nat, NEW b \in Nat, NEW p \in Nat, a <= b
  PROVE  a * p \in Nat /\ b * p \in Nat /\ a * p <= b * p
  OBVIOUS

LEMMA DivMonotone ==
  ASSUME NEW x \in Nat, NEW y \in Nat, x <= y
  PROVE  x \div 100 \in Nat /\ x \div 100 <= y \div 100
  OBVIOUS

LEMMA DivShift ==
  ASSUME NEW x \in Nat, NEW y \in Nat, NEW d \in Nat, y <= x + 100 * d
  PROVE  y \div 100 <= (x \div 100) + d
  OBVIOUS

(* A higher rate leaves less. *)
LEMMA ShareFallsWithRate ==
  ASSUME NEW n \in Nat, NEW p \in Nat, NEW q \in Nat, q <= p
  PROVE  Share(n, p) <= Share(n, q)
  <1>1. n * p \in Nat /\ n * q \in Nat /\ n * q <= n * p
    BY TimesMonotone
  <1>2. (n * q) \div 100 <= (n * p) \div 100 /\ (n * q) \div 100 \in Nat /\ (n * p) \div 100 \in Nat
    BY <1>1, DivMonotone
  <1>3. QED
    BY <1>2 DEF Share

(* More earnings never leave less. *)
LEMMA ShareGrows ==
  ASSUME NEW m \in Nat, NEW n \in Nat, NEW p \in 0..100, m <= n
  PROVE  Share(m, p) <= Share(n, p)
  <1> DEFINE d == n - m
  <1>1. d \in Nat /\ n = m + d
    OBVIOUS
  <1>2. m * p \in Nat /\ n * p \in Nat /\ d * p \in Nat
    BY <1>1, TimesMonotone
  <1>3. n * p = m * p + d * p
    BY <1>1
  <1>4. d * p <= d * 100
    BY <1>1, TimesMonotone
  <1>5. n * p <= m * p + 100 * d
    BY <1>1, <1>2, <1>3, <1>4
  <1>6. (n * p) \div 100 <= ((m * p) \div 100) + d
    BY <1>1, <1>2, <1>5, DivShift
  <1>7. (n * p) \div 100 \in Nat /\ (m * p) \div 100 \in Nat
    BY <1>2, DivMonotone
  <1>8. QED
    BY <1>1, <1>6, <1>7 DEF Share

LEMMA ShareIsInt ==
  ASSUME NEW n \in Nat, NEW p \in 0..100
  PROVE  Share(n, p) \in Int
  <1>1. n * p \in Nat
    BY TimesMonotone
  <1>2. (n * p) \div 100 \in Nat
    BY <1>1, DivMonotone
  <1>3. QED
    BY <1>2 DEF Share

-----------------------------------------------------------------------------
LEMMA PayoutsInvInit == PayoutsInit => PayoutsInv
  <1>1. ProPercent \in 0..100
    BY Rates
  <1>2. Share(0, ProPercent) = 0
    BY <1>1 DEF Share
  <1> SUFFICES ASSUME PayoutsInit PROVE PayoutsInv
    OBVIOUS
  <1>3. pro \in BOOLEAN
    BY Zenon DEF PayoutsInit
  <1>4. PayoutsTypeOK
    BY <1>3 DEF PayoutsInit, PayoutsTypeOK
  <1>5. PastLockHolds /\ FoundIsLeft
    BY DEF PayoutsInit, PastLockHolds, FoundIsLeft
  <1>6. PaidWithinEarnings
    BY <1>2 DEF PayoutsInit, PaidWithinEarnings
  <1>7. QED
    BY <1>4, <1>5, <1>6 DEF PayoutsInv

(* Steps that leave the calls and the payouts alone. *)
LEMMA EarningsStep ==
  ASSUME PayoutsInv, UNCHANGED <<paid, requests>>, captured' \in Nat, captured <= captured',
         PayoutsTypeOK'
  PROVE  PayoutsInv'
  <1>1. ProPercent \in 0..100
    BY Rates
  <1>2. Share(captured, ProPercent) <= Share(captured', ProPercent)
    BY <1>1, ShareGrows DEF PayoutsInv, PayoutsTypeOK
  <1>3. Share(captured, ProPercent) \in Int /\ Share(captured', ProPercent) \in Int
    BY <1>1, ShareIsInt DEF PayoutsInv, PayoutsTypeOK
  <1>4. paid \in Nat /\ found \in [Calls -> Nat]
    BY DEF PayoutsInv, PayoutsTypeOK
  <1>5. FoundIsLeft' /\ PaidWithinEarnings'
    BY <1>2, <1>3, <1>4 DEF PayoutsInv, FoundIsLeft, PaidWithinEarnings, requests
  <1>6. QED
    BY <1>5 DEF PayoutsInv, PastLockHolds, requests

(* A request that ends gives the row back; one that paid has paid no more  *)
(* than it found.                                                          *)
LEMMA LetsGoStep ==
  ASSUME PayoutsInv, NEW c \in Calls, at[c] # "idle", LetsGo(c), pending' \in Nat,
         paid' = paid \/ (at[c] = "insert" /\ paid' = paid + found[c])
  PROVE  PayoutsInv'
  <1>1. paid' \in Nat
    BY DEF PayoutsInv, PayoutsTypeOK
  <1>2. PayoutsTypeOK'
    BY <1>1 DEF LetsGo, GoesTo, tier, PayoutsInv, PayoutsTypeOK
  <1>3. PastLockHolds'
    BY DEF LetsGo, GoesTo, PayoutsInv, PayoutsTypeOK, PastLockHolds
  <1>4. FoundIsLeft'
    <2> SUFFICES ASSUME NEW d \in Calls, at'[d] = "insert"
                 PROVE  found'[d] + paid' <= Share(captured', ProPercent)
      BY DEF FoundIsLeft
    <2>1. d # c /\ at[d] = "insert" /\ found'[d] = found[d] /\ captured' = captured
      BY DEF LetsGo, GoesTo, PayoutsInv, PayoutsTypeOK
    <2>2. at[c] # "insert"
      BY <2>1 DEF PayoutsInv, PastLockHolds
    <2>3. QED
      BY <2>1, <2>2 DEF PayoutsInv, FoundIsLeft
  <1>5. PaidWithinEarnings'
    <2>1. at[c] = "insert" => found[c] + paid <= Share(captured, ProPercent)
      BY DEF PayoutsInv, FoundIsLeft
    <2>2. found[c] \in Nat /\ paid \in Nat /\ captured' = captured
      BY DEF PayoutsInv, PayoutsTypeOK, LetsGo
    <2>3. QED
      BY <2>1, <2>2 DEF PayoutsInv, PaidWithinEarnings
  <1>6. QED
    BY <1>2, <1>3, <1>4, <1>5 DEF PayoutsInv

LEMMA PayoutsInvStep ==
  ASSUME PayoutsInv, [PayoutsNext]_payoutVars
  PROVE  PayoutsInv'
  <1>1. CASE ApplyForHost \/ ApproveHost \/ Subscribe \/ MarkPayoutProcessed
    <2> pro' \in BOOLEAN
      BY <1>1, Zenon DEF ApplyForHost, ApproveHost, Subscribe, MarkPayoutProcessed, tier,
         PayoutsInv, PayoutsTypeOK
    <2>1. PayoutsTypeOK' /\ captured' = captured
      BY <1>1 DEF ApplyForHost, ApproveHost, Subscribe, MarkPayoutProcessed, tier, money, requests,
         PayoutsInv, PayoutsTypeOK
    <2>2. UNCHANGED <<paid, requests>> /\ captured \in Nat
      BY <1>1 DEF ApplyForHost, ApproveHost, Subscribe, MarkPayoutProcessed, tier, money, requests,
         PayoutsInv, PayoutsTypeOK
    <2>3. QED
      BY <2>1, <2>2, EarningsStep
  <1>2. ASSUME NEW n \in Amounts, PaymentCaptured(n) \/ RefundProcessed(n) \/ RefundFails(n)
        PROVE  PayoutsInv'
    <2>1. n \in Nat
      BY Money
    <2>2. /\ PayoutsTypeOK' /\ captured' \in Nat /\ captured <= captured'
          /\ UNCHANGED <<paid, requests>>
      BY <1>2, <2>1 DEF PaymentCaptured, RefundProcessed, RefundFails, tier, requests, PayoutsInv,
         PayoutsTypeOK
    <2>3. QED
      BY <2>2, EarningsStep
  <1>3. ASSUME NEW c \in Calls, ReadTier(c)
        PROVE  PayoutsInv'
    BY <1>3 DEF ReadTier, GoesTo, tier, money, PayoutsInv, PayoutsTypeOK, PastLockHolds, FoundIsLeft,
       PaidWithinEarnings
  <1>4. ASSUME NEW c \in Calls, LockAccount(c)
        PROVE  PayoutsInv'
    BY <1>4, NobodyCalls DEF LockAccount, GoesTo, tier, money, PayoutsInv, PayoutsTypeOK,
       PastLockHolds, FoundIsLeft, PaidWithinEarnings
  <1>5. ASSUME NEW c \in Calls, SumEarnings(c)
        PROVE  PayoutsInv'
    <2>1. captured \in Nat /\ refunded \in Nat /\ refunded <= captured /\ paid \in Nat
          /\ rate[c] \in {Percent, ProPercent}
      BY DEF PayoutsInv, PayoutsTypeOK
    <2>2. rate[c] \in 0..100 /\ ProPercent \in 0..100 /\ ProPercent <= rate[c]
      BY <2>1, Rates
    <2>3. captured - refunded \in Nat /\ captured - refunded <= captured
      BY <2>1
    <2>4. Share(captured - refunded, rate[c]) <= Share(captured, rate[c])
      BY <2>1, <2>2, <2>3, ShareGrows
    <2>5. Share(captured, rate[c]) <= Share(captured, ProPercent)
      <3>1. rate[c] \in Nat /\ ProPercent \in Nat /\ captured \in Nat
        BY <2>1, <2>2
      <3>2. QED
        BY <3>1, <2>2, ShareFallsWithRate
    <2>6. /\ Share(captured - refunded, rate[c]) \in Int
          /\ Share(captured, rate[c]) \in Int /\ Share(captured, ProPercent) \in Int
      BY <2>1, <2>2, <2>3, ShareIsInt
    <2>7. Available(c) \in Nat /\ Available(c) + paid <= Share(captured, ProPercent)
      BY <1>5, <2>1, <2>4, <2>5, <2>6 DEF SumEarnings, Available
    <2>8. /\ at \in [Calls -> {"idle", "lock", "sum", "insert"}]
          /\ found \in [Calls -> Nat]
      BY DEF PayoutsInv, PayoutsTypeOK
    <2>9. /\ at' = [at EXCEPT ![c] = "insert"] /\ found' = [found EXCEPT ![c] = Available(c)]
          /\ at[c] = "sum" /\ UNCHANGED <<tier, money, holder, rate>>
      BY <1>5 DEF SumEarnings, GoesTo
    <2>10. PayoutsTypeOK'
      <3>1. at' \in [Calls -> {"idle", "lock", "sum", "insert"}] /\ found' \in [Calls -> Nat]
        BY <2>7, <2>8, <2>9
      <3>2. QED
        BY <2>9, <3>1 DEF PayoutsInv, PayoutsTypeOK, tier, money
    <2>11. PastLockHolds'
      BY <2>8, <2>9 DEF PayoutsInv, PastLockHolds
    <2>12. FoundIsLeft'
      BY <2>7, <2>8, <2>9 DEF PayoutsInv, FoundIsLeft, money
    <2>13. QED
      BY <2>9, <2>10, <2>11, <2>12 DEF PayoutsInv, PaidWithinEarnings, money
  <1>6. ASSUME NEW c \in Calls, RefuseAccount(c) \/ NothingToPay(c) \/ InsertPayout(c) \/ Dies(c)
        PROVE  PayoutsInv'
    <2>1. at[c] # "idle" /\ LetsGo(c)
      BY <1>6 DEF RefuseAccount, NothingToPay, InsertPayout, Dies
    <2>2. pending' \in Nat
      BY <1>6 DEF RefuseAccount, NothingToPay, InsertPayout, Dies, PayoutsInv, PayoutsTypeOK
    <2>3. paid' = paid \/ (at[c] = "insert" /\ paid' = paid + found[c])
      BY <1>6 DEF RefuseAccount, NothingToPay, InsertPayout, Dies
    <2>4. QED
      BY <2>1, <2>2, <2>3, LetsGoStep
  <1>7. CASE UNCHANGED payoutVars
    BY <1>7 DEF payoutVars, tier, money, requests, PayoutsInv, PayoutsTypeOK, PastLockHolds, FoundIsLeft,
       PaidWithinEarnings
  <1>8. QED
    BY <1>1, <1>2, <1>3, <1>4, <1>5, <1>6, <1>7 DEF PayoutsNext, Request

(* The invariant of payouts. *)
THEOREM PayoutsInvariant == PayoutsSpec => []PayoutsInv
  BY PayoutsInvInit, PayoutsInvStep, PTL DEF PayoutsSpec

(* All payouts together stay within the host's share of what was captured  *)
(* (RequestPayoutLocked), however many requests run at once and whatever   *)
(* is paid and refunded meanwhile.                                         *)
THEOREM PayoutsWithinEarnings == PayoutsSpec => []PaidWithinEarnings
  <1>1. PayoutsInv => PaidWithinEarnings
    BY DEF PayoutsInv
  <1>2. QED
    BY <1>1, PayoutsInvariant, PTL

(* The columns and the calls' own variables keep their types. *)
THEOREM PayoutsTyped == PayoutsSpec => []PayoutsTypeOK
  <1>1. PayoutsInv => PayoutsTypeOK
    BY DEF PayoutsInv
  <1>2. QED
    BY <1>1, PayoutsInvariant, PTL

=============================================================================
