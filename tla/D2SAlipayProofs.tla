-------------------------- MODULE D2SAlipayProofs --------------------------
(***************************************************************************)
(* Proofs, for any number of accounts, orders, administrators and refunds, *)
(* any batch and any prices, that the traffic with Alipay changes the      *)
(* tables only as D2SBilling allows, and that, unless the payment bridge   *)
(* says so, an order is canceled only when Alipay has closed its trade     *)
(* unpaid and a license is taken back only when Alipay has returned the    *)
(* whole payment.                                                          *)
(***************************************************************************)
EXTENDS D2SAlipay, D2SLedgerProofs

\* A refund request in hand is about an order that was settled, and past
\* CreateD2SAlipayRefund its refund is on record.
AskInv ==
    \A f \in Refunds : asking[f].pc # "idle" =>
        /\ asking[f].order \in Orders
        /\ asking[f].amount \in 1 .. MaxAmount
        /\ Settled(asking[f].order)
        /\ asking[f].pc # "verified" => refund[f].status # "none"

\* A paid trade is not open, and only a refund of a settled order closes it.
TradeInv ==
    \A o \in Orders :
        /\ o \in collected => trade[o] \in {"success", "closed"}
        /\ o \in collected /\ trade[o] = "closed" => Settled(o)

\* The agent has Alipay's word that the trade is closed.
KnownClosed(a) == work[a].pc = "closed" \/ (work[a].pc = "have" /\ work[a].status = "closed")

\* An agent past its query has an order in hand, and Alipay's word that its
\* trade is closed stays true: a closed trade is never opened again.
WorkInv ==
    \A a \in Agents : /\ work[a].pc # "loop" => work[a].cur \in Orders
                      /\ KnownClosed(a) => trade[work[a].cur] = "closed"

\* The inductive invariant: the types and what is known of trades and requests.
AlipayInv ==
    BillingTypeOK /\ AlipayTypeOK /\ AskInv /\ TradeInv /\ WorkInv /\ CanceledIsUnpaid

-----------------------------------------------------------------------------
(* What a step may do to orders, trades and refunds.                       *)

\* The orders and the records of refunds change as D2SBilling allows.
LEMMA StepIsBilling ==
    AskInv /\ [AlipayNext]_allVars => [BillingNext]_vars
  <1> SUFFICES ASSUME AskInv, [AlipayNext]_allVars PROVE [BillingNext]_vars
    OBVIOUS
  <1>1. ASSUME NEW o \in Orders, Checkout(o) \/ OpenTrade(o) \/ PayTrade(o) \/ LapseTrade(o)
        PROVE  UNCHANGED vars
    BY <1>1 DEF Checkout, OpenTrade, PayTrade, LapseTrade
  <1>2. ASSUME NEW o \in Orders, NEW l \in Licenses, Notify(o, l) PROVE BillingNext
    BY <1>2 DEF Notify, BillingNext, BillingStep
  <1>3. ASSUME NEW a \in Agents, NEW todo, Begin(a, todo) PROVE UNCHANGED vars
    BY <1>3 DEF Begin
  <1>4. ASSUME RunReconciliation \/ \E a \in Admins, o \in Orders : CloseOrder(a, o)
        PROVE  UNCHANGED vars
    BY <1>3, <1>4 DEF RunReconciliation, CloseOrder, Agents
  <1>5. ASSUME NEW a \in Agents, NEW o \in Orders, Answered(a, o) \/ PassOver(a, o)
        PROVE  UNCHANGED vars
    BY <1>5 DEF Answered, PassOver
  <1>6. ASSUME NEW a \in Agents, NEW o \in Orders, CancelOrder(a, o) PROVE BillingNext
    BY <1>6 DEF CancelOrder, BillingNext, BillingStep
  <1>7. ASSUME NEW a \in Agents, NEW o \in Orders, NEW l \in Licenses, SettleQueried(a, o, l)
        PROVE  BillingNext
    BY <1>7 DEF SettleQueried, BillingNext, BillingStep
  <1>8. ASSUME NEW a \in Agents, NEW o \in Orders, NEW answered, CloseTrade(a, o, answered)
        PROVE  UNCHANGED vars
    BY <1>8 DEF CloseTrade
  <1>9. ASSUME NEW a \in Agents, Restart(a) PROVE UNCHANGED vars
    BY <1>9 DEF Restart
  <1>10. ASSUME NEW f \in Refunds, NEW o, NEW amount, AskRefund(f, o, amount)
         PROVE  UNCHANGED vars
    BY <1>10 DEF AskRefund
  <1>11. ASSUME NEW f \in Refunds, RecordRefund(f) PROVE BillingNext
    <2>1. asking[f].order \in Orders /\ asking[f].amount \in 1 .. MaxAmount
      BY <1>11 DEF RecordRefund, AskInv
    <2>2. CreateRefund(f, asking[f].order, asking[f].amount)
      BY <1>11 DEF RecordRefund
    <2>3. QED
      BY <2>1, <2>2 DEF BillingNext, BillingStep
  <1>12. ASSUME NEW f \in Refunds, NEW answered, CallRefund(f, answered) PROVE UNCHANGED vars
    BY <1>12 DEF CallRefund
  <1>13. ASSUME NEW f \in Refunds, ConfirmRefund(f) \/ ReconcileRefund(f) PROVE BillingNext
    BY <1>13 DEF ConfirmRefund, ReconcileRefund, BillingNext, BillingStep
  <1>14. ASSUME NEW f \in Refunds, EndRefund(f) \/ CheckRefund(f) \/ EndCheck(f)
         PROVE  UNCHANGED vars
    BY <1>14 DEF EndRefund, CheckRefund, EndCheck
  <1>15. ASSUME NEW o \in Orders, Bridge(o) PROVE BillingNext
    BY <1>15 DEF Bridge, BillingNext, BillingStep
  <1>16. CASE OtherStep \/ UNCHANGED allVars
    BY <1>16 DEF OtherStep, allVars
  <1>17. QED
    BY <1>1, <1>2, <1>4, <1>5, <1>6, <1>7, <1>8, <1>9, <1>10, <1>11, <1>12, <1>13, <1>14, <1>15, <1>16
       DEF AlipayNext, AlipayStep

\* What a step does to the trades: one is opened, paid or closed unpaid, or the
\* trade of a settled order is closed by its full refund.
TradeMove ==
    \/ UNCHANGED <<trade, collected>>
    \/ \E o \in Orders :
        /\ \A p \in Orders \ {o} : trade'[p] = trade[p]
        /\ \/ trade[o] = "none" /\ trade'[o] = "wait" /\ collected' = collected
           \/ trade[o] = "wait" /\ trade'[o] = "success" /\ collected' = collected \cup {o}
           \/ trade[o] = "wait" /\ trade'[o] = "closed" /\ collected' = collected
           \/ /\ trade[o] = "success" /\ trade'[o] \in {"success", "closed"}
              /\ Settled(o) /\ collected' = collected

\* Which orders a step may cancel: those the agent knows to be closed, and those
\* the payment bridge is about.  The bridge's events are not forgotten.
OrdersKept ==
    /\ bridged \subseteq bridged'
    /\ \A o \in Orders :
        /\ Settled(o) => Settled(o)'
        /\ AlipayOrder(o)' /\ order'[o].status = "canceled" =>
              \/ AlipayOrder(o) /\ order[o].status = "canceled"
              \/ o \in bridged'
              \/ order[o].status = "pending" /\ \E a \in Agents : KnownClosed(a) /\ work[a].cur = o

\* A record of a refund is never deleted.
RefundsKept == \A f \in Refunds : refund[f].status # "none" => refund'[f].status # "none"

\* Every step moves the trades only that way.
LEMMA NextTradeMove ==
    AlipayInv /\ [AlipayNext]_allVars => TradeMove /\ trade' \in [Orders -> TradeStatus]
                                                   /\ collected' \subseteq Orders
  <1> SUFFICES ASSUME AlipayInv, [AlipayNext]_allVars
               PROVE  TradeMove /\ trade' \in [Orders -> TradeStatus] /\ collected' \subseteq Orders
    OBVIOUS
  <1> DEFINE Goal == TradeMove /\ trade' \in [Orders -> TradeStatus] /\ collected' \subseteq Orders
  <1>0. trade \in [Orders -> TradeStatus] /\ collected \subseteq Orders
    BY DEF AlipayInv, AlipayTypeOK
  <1>1. ASSUME UNCHANGED <<trade, collected>> PROVE Goal
    BY <1>0, <1>1 DEF TradeMove
  <1>2. ASSUME NEW o \in Orders, OpenTrade(o) \/ PayTrade(o) \/ LapseTrade(o) PROVE Goal
    BY <1>0, <1>2 DEF OpenTrade, PayTrade, LapseTrade, TradeMove, TradeStatus
  <1>3. ASSUME NEW a \in Agents, NEW o \in Orders, NEW answered, CloseTrade(a, o, answered)
        PROVE  Goal
    <2>1. trade[o] = "wait" /\ trade' = [trade EXCEPT ![o] = "closed"] /\ collected' = collected
      BY <1>3 DEF CloseTrade
    <2>2. QED
      BY <1>0, <2>1 DEF TradeMove, TradeStatus
  <1>4. ASSUME NEW f \in Refunds, NEW answered, CallRefund(f, answered) PROVE Goal
    <2> DEFINE o == asking[f].order
               st == IF Returned(o) + refund[f].amount = Gateway(order[o]) THEN "closed" ELSE trade[o]
    <2>1. o \in Orders /\ Settled(o)
      BY <1>4 DEF CallRefund, AlipayInv, AskInv
    <2>2. trade[o] = "success" /\ trade' = [trade EXCEPT ![o] = st] /\ collected' = collected
      BY <1>4 DEF CallRefund
    <2>3. st \in {"success", "closed"}
      BY <2>2
    <2> HIDE DEF st, o
    <2>4. QED
      BY <1>0, <2>1, <2>2, <2>3 DEF TradeMove, TradeStatus
  <1>5. ASSUME NEW o \in Orders, Checkout(o) \/ \E l \in Licenses : Notify(o, l) PROVE Goal
    BY <1>1, <1>5 DEF Checkout, Notify, aliVars
  <1>6. ASSUME NEW a \in Agents, NEW todo, Begin(a, todo) PROVE Goal
    BY <1>1, <1>6 DEF Begin
  <1>7. ASSUME RunReconciliation \/ \E a \in Admins, o \in Orders : CloseOrder(a, o) PROVE Goal
    BY <1>6, <1>7 DEF RunReconciliation, CloseOrder, Agents
  <1>8. ASSUME NEW a \in Agents, NEW o \in Orders,
               \/ Answered(a, o) \/ PassOver(a, o) \/ CancelOrder(a, o)
               \/ \E l \in Licenses : SettleQueried(a, o, l)
        PROVE  Goal
    BY <1>1, <1>8 DEF Answered, PassOver, CancelOrder, SettleQueried
  <1>9. ASSUME NEW a \in Agents, Restart(a) PROVE Goal
    BY <1>1, <1>9 DEF Restart
  <1>10. ASSUME NEW f \in Refunds, NEW o, NEW amount, AskRefund(f, o, amount) PROVE Goal
    BY <1>1, <1>10 DEF AskRefund
  <1>11. ASSUME NEW f \in Refunds,
                \/ RecordRefund(f) \/ ConfirmRefund(f) \/ EndRefund(f)
                \/ CheckRefund(f) \/ ReconcileRefund(f) \/ EndCheck(f)
         PROVE  Goal
    BY <1>1, <1>11
       DEF RecordRefund, ConfirmRefund, EndRefund, CheckRefund, ReconcileRefund, EndCheck
  <1>12. ASSUME OtherStep \/ UNCHANGED allVars \/ \E o \in Orders : Bridge(o) PROVE Goal
    BY <1>1, <1>12 DEF OtherStep, Bridge, allVars, aliVars
  <1> HIDE DEF Goal
  <1>13. Goal
    BY <1>2, <1>3, <1>4, <1>5, <1>7, <1>8, <1>9, <1>10, <1>11, <1>12 DEF AlipayNext, AlipayStep
  <1>14. QED
    BY <1>13 DEF Goal

\* A refund on record stays on record.
LEMMA NextRefundsKept == BillingTypeOK /\ [BillingNext]_vars => RefundsKept
  <1> SUFFICES ASSUME BillingTypeOK, [BillingNext]_vars PROVE RefundsKept
    OBVIOUS
  <1>1. CASE refund' = refund
    BY <1>1 DEF RefundsKept
  <1>2. ASSUME NEW f \in Refunds, NEW o \in Orders, NEW amount \in 1 .. MaxAmount,
               CreateRefund(f, o, amount)
        PROVE  RefundsKept
    BY <1>2 DEF CreateRefund, RefundsKept, BillingTypeOK
  <1>3. ASSUME NEW f \in Refunds, CompleteRefund(f) PROVE RefundsKept
    <2>1. refund' = [refund EXCEPT ![f] = [refund[f] EXCEPT !.status = "completed"]]
      BY <1>3 DEF CompleteRefund
    <2>2. refund[f] \in RefundRow
      BY DEF BillingTypeOK
    <2>3. [refund[f] EXCEPT !.status = "completed"].status = "completed"
      BY <2>2 DEF RefundRow
    <2>4. QED
      BY <2>1, <2>3 DEF RefundsKept, BillingTypeOK
  <1>4. ASSUME NEW u \in Users, NEW k \in Keys, NEW product \in OnSale,
               NEW l \in Licenses \cup {None}, NEW provider \in Gateways \cup {"balance"},
               NEW n \in 0 .. MaxPaidRevokes, NEW b \in 0 .. MaxAmount,
               QuoteOrder(u, k, product, l, provider, n, b)
        PROVE  refund' = refund
    BY <1>4 DEF QuoteOrder
  <1>5. ASSUME NEW c \in call, DropCall(c) \/ \E l \in Licenses \cup {None} : InsertOrder(c, l)
        PROVE  refund' = refund
    BY <1>5 DEF DropCall, InsertOrder
  <1>6. ASSUME NEW o \in Orders,
               \/ \E l \in Licenses : Paid(o, l)
               \/ Canceled(o) \/ ExpireOrder(o) \/ Chargeback(o)
        PROVE  refund' = refund
    BY <1>6 DEF Paid, Canceled, ExpireOrder, Release, Chargeback
  <1>7. ASSUME NEW u \in Users, \/ CheckWithdrawal(u) \/ DropWithdrawal(u) \/ DropRegion(u)
                                \/ \E r \in Regions : CheckRegion(u, r) \/ SetRegion(u, r)
        PROVE  refund' = refund
    BY <1>7 DEF CheckWithdrawal, DropWithdrawal, DropRegion, CheckRegion, SetRegion
  <1>8. ASSUME NEW w \in Withdrawals,
               \/ \E u \in Users, amount \in 1 .. MaxAmount : CreateWithdrawal(w, u, amount)
               \/ \E status \in {"paid", "rejected"} : ReviewWithdrawal(w, status)
        PROVE  refund' = refund
    BY <1>8 DEF CreateWithdrawal, ReviewWithdrawal
  <1>9. CASE UNCHANGED billVars
    BY <1>1, <1>9 DEF billVars
  <1>10. QED
    BY <1>1, <1>2, <1>3, <1>4, <1>5, <1>6, <1>7, <1>8, <1>9 DEF BillingNext, BillingStep, vars

\* What the payment bridge has ended is not forgotten.
LEMMA NextBridged == [AlipayNext]_allVars => bridged \subseteq bridged' /\ bridged' \subseteq bridged \cup Orders
  <1> SUFFICES ASSUME [AlipayNext]_allVars
               PROVE  bridged \subseteq bridged' /\ bridged' \subseteq bridged \cup Orders
    OBVIOUS
  <1> DEFINE Goal == bridged \subseteq bridged' /\ bridged' \subseteq bridged \cup Orders
  <1>1. ASSUME NEW o \in Orders, Bridge(o) PROVE Goal
    BY <1>1 DEF Bridge
  <1>2. ASSUME NEW o \in Orders,
               \/ Checkout(o) \/ OpenTrade(o) \/ PayTrade(o) \/ LapseTrade(o)
               \/ \E l \in Licenses : Notify(o, l)
        PROVE  Goal
    BY <1>2 DEF Checkout, OpenTrade, PayTrade, LapseTrade, Notify, aliVars
  <1>3. ASSUME RunReconciliation \/ \E a \in Admins, o \in Orders : CloseOrder(a, o) PROVE Goal
    BY <1>3 DEF RunReconciliation, CloseOrder, Begin
  <1>4. ASSUME NEW a \in Agents, NEW o \in Orders,
               \/ Answered(a, o) \/ PassOver(a, o) \/ CancelOrder(a, o)
               \/ \E l \in Licenses : SettleQueried(a, o, l)
               \/ \E answered \in BOOLEAN : CloseTrade(a, o, answered)
        PROVE  Goal
    BY <1>4 DEF Answered, PassOver, CancelOrder, SettleQueried, CloseTrade
  <1>5. ASSUME NEW a \in Agents, Restart(a) PROVE Goal
    BY <1>5 DEF Restart
  <1>6. ASSUME NEW f \in Refunds, NEW o, NEW amount, AskRefund(f, o, amount) PROVE Goal
    BY <1>6 DEF AskRefund
  <1>7. ASSUME NEW f \in Refunds,
               \/ RecordRefund(f) \/ ConfirmRefund(f) \/ EndRefund(f)
               \/ CheckRefund(f) \/ ReconcileRefund(f) \/ EndCheck(f)
               \/ \E answered \in BOOLEAN : CallRefund(f, answered)
        PROVE  Goal
    BY <1>7 DEF RecordRefund, ConfirmRefund, EndRefund, CheckRefund, ReconcileRefund,
                EndCheck, CallRefund
  <1>8. ASSUME OtherStep \/ UNCHANGED allVars PROVE Goal
    BY <1>8 DEF OtherStep, allVars, aliVars
  <1> HIDE DEF Goal
  <1>9. Goal
    BY <1>1, <1>2, <1>3, <1>4, <1>5, <1>6, <1>7, <1>8 DEF AlipayNext, AlipayStep
  <1>10. QED
    BY <1>9 DEF Goal

\* A settled order stays settled, and one that is not canceled yet is canceled
\* by the agent that knows its trade to be closed, or by the payment bridge.
LEMMA NextOrdersKept == AlipayInv /\ [AlipayNext]_allVars => OrdersKept
  <1> SUFFICES ASSUME AlipayInv, [AlipayNext]_allVars PROVE OrdersKept
    OBVIOUS
  <1>0. BillingTypeOK /\ AskInv
    BY DEF AlipayInv
  <1>1. OrderMove
    BY <1>0, StepIsBilling, NextOrderMove
  <1>2. \A o \in Orders : Settled(o) => Settled(o)'
    BY <1>1 DEF OrderMove, Settled
  <1>3. \A o \in Orders : AlipayOrder(o)' /\ order'[o].status = "canceled" /\ order'[o] # order[o]
                          => AlipayOrder(o) /\ order[o].status = "pending"
    BY <1>1 DEF OrderMove, AlipayOrder
  <1> DEFINE Kept == \A o \in Orders :
                AlipayOrder(o) /\ order[o].status = "pending" /\ order'[o].status = "canceled"
                => o \in bridged' \/ \E a \in Agents : KnownClosed(a) /\ work[a].cur = o
  <1>4. ASSUME UNCHANGED order PROVE Kept
    BY <1>4
  <1>5. ASSUME NEW p \in Orders, NEW l \in Licenses, Paid(p, l) PROVE Kept
    <2>1. order[p] \in OrderRow /\ balance \in Balances
      BY <1>0 DEF BillingTypeOK, Balances
    <2>2. order'[p].status = "paid" /\ \A o \in Orders \ {p} : order'[o] = order[o]
      BY <1>0, <1>5, <2>1, SettleType DEF Paid
    <2>3. QED
      BY <2>2
  <1>6. ASSUME NEW f \in Refunds, CompleteRefund(f) PROVE Kept
    <2> DEFINE p == refund[f].order
               st == IF order[p].refunded + refund[f].amount = Gateway(order[p])
                     THEN "chargeback" ELSE "paid"
               new == [order[p] EXCEPT !.refunded = order[p].refunded + refund[f].amount,
                                       !.status = st]
    <2>1. order' = [order EXCEPT ![p] = new] /\ order[p].status = "paid"
      BY <1>6 DEF CompleteRefund
    <2> HIDE DEF new, p
    <2>2. \A o \in Orders : o # p => order'[o] = order[o]
      BY <1>0, <2>1 DEF BillingTypeOK
    <2>3. QED
      BY <2>1, <2>2
  <1>7. ASSUME NEW a \in Agents, NEW p \in Orders, CancelOrder(a, p) PROVE Kept
    <2>1. KnownClosed(a) /\ work[a].cur = p
      BY <1>7 DEF CancelOrder, KnownClosed
    <2>2. \A o \in Orders \ {p} : order'[o] = order[o]
      BY <1>0, <1>7 DEF CancelOrder, Canceled, Release, BillingTypeOK
    <2>3. QED
      BY <2>1, <2>2
  <1>8. ASSUME NEW o \in Orders, Checkout(o) \/ OpenTrade(o) \/ PayTrade(o) \/ LapseTrade(o)
        PROVE  Kept
    BY <1>4, <1>8 DEF Checkout, OpenTrade, PayTrade, LapseTrade, vars, billVars
  <1>9. ASSUME NEW o \in Orders, NEW l \in Licenses,
               Notify(o, l) \/ \E a \in Agents : SettleQueried(a, o, l)
        PROVE  Kept
    BY <1>5, <1>9 DEF Notify, SettleQueried
  <1>10. ASSUME NEW a \in Agents, NEW todo, Begin(a, todo) PROVE Kept
    BY <1>4, <1>10 DEF Begin, vars, billVars
  <1>11. ASSUME RunReconciliation \/ \E a \in Admins, o \in Orders : CloseOrder(a, o) PROVE Kept
    BY <1>10, <1>11 DEF RunReconciliation, CloseOrder, Agents
  <1>12. ASSUME NEW a \in Agents, NEW o \in Orders,
                \/ Answered(a, o) \/ PassOver(a, o)
                \/ \E answered \in BOOLEAN : CloseTrade(a, o, answered)
         PROVE  Kept
    BY <1>4, <1>12 DEF Answered, PassOver, CloseTrade, vars, billVars
  <1>13. ASSUME NEW a \in Agents, Restart(a) PROVE Kept
    BY <1>4, <1>13 DEF Restart, vars, billVars
  <1>14. ASSUME NEW f \in Refunds, NEW o, NEW amount, AskRefund(f, o, amount) PROVE Kept
    BY <1>4, <1>14 DEF AskRefund, vars, billVars
  <1>15. ASSUME NEW f \in Refunds,
                \/ RecordRefund(f) \/ EndRefund(f) \/ CheckRefund(f) \/ EndCheck(f)
                \/ \E answered \in BOOLEAN : CallRefund(f, answered)
         PROVE  Kept
    BY <1>4, <1>15
       DEF RecordRefund, CreateRefund, EndRefund, CheckRefund, EndCheck, CallRefund, vars, billVars
  <1>16. ASSUME NEW f \in Refunds, ConfirmRefund(f) \/ ReconcileRefund(f) PROVE Kept
    BY <1>6, <1>16 DEF ConfirmRefund, ReconcileRefund
  <1>17. ASSUME OtherStep PROVE Kept
    BY <1>17 DEF OtherStep
  <1>18. ASSUME UNCHANGED allVars PROVE Kept
    BY <1>4, <1>18 DEF allVars, vars, billVars
  <1>19. ASSUME NEW p \in Orders, Bridge(p) PROVE Kept
    <2>1. CASE \E l \in Licenses : Paid(p, l)
      BY <1>5, <2>1
    <2>2. CASE (Canceled(p) \/ Chargeback(p)) /\ bridged' = bridged \cup {p}
      <3>1. \A o \in Orders \ {p} : order'[o] = order[o]
        BY <1>0, <2>2 DEF Canceled, Release, Chargeback, BillingTypeOK
      <3>2. QED
        BY <2>2, <3>1
    <2>3. QED
      BY <1>19, <2>1, <2>2 DEF Bridge
  <1> HIDE DEF Kept
  <1>20. Kept
    BY <1>7, <1>8, <1>9, <1>11, <1>12, <1>13, <1>14, <1>15, <1>16, <1>17, <1>18, <1>19
       DEF AlipayNext, AlipayStep
  <1>21. bridged \subseteq bridged'
    BY NextBridged
  <1>22. QED
    BY <1>2, <1>3, <1>20, <1>21 DEF OrdersKept, Kept, AlipayOrder

-----------------------------------------------------------------------------
(* The agents and the requests in hand.                                    *)

\* What a step does to the work of the agents: one of them starts afresh, gets
\* the answer to a query, or learns that the trade in hand is closed.
WorkMove ==
    \/ work' = work
    \/ \E a \in Agents :
        /\ \A b \in Agents \ {a} : work'[b] = work[b]
        /\ \/ work'[a].pc = "loop"
           \/ /\ work'[a].pc = "have" /\ work'[a].cur \in Orders
              /\ work'[a].status = trade[work'[a].cur]
           \/ /\ work'[a].pc = "closed" /\ work'[a].cur \in Orders
              /\ trade'[work'[a].cur] = "closed"

\* Agents keep their type.
WorkTyped == work' \in [Agents -> WorkRow]

\* The rows an agent's work may become.
LEMMA WorkRows ==
    /\ NoWork \in WorkRow /\ NoWork.pc = "loop"
    /\ \A todo \in SUBSET Orders : /\ [NoWork EXCEPT !.todo = todo] \in WorkRow
                                   /\ [NoWork EXCEPT !.todo = todo].pc = "loop"
    /\ \A row \in WorkRow, o \in Orders : /\ Drop(row, o) \in WorkRow
                                          /\ Drop(row, o).pc = "loop"
  BY DEF WorkRow, NoWork, Drop, TradeStatus

\* An agent that learns of a closed trade keeps its order in hand.
LEMMA ClosedRow ==
    ASSUME NEW row \in WorkRow
    PROVE  LET new == [row EXCEPT !.pc = "closed"]
           IN  new \in WorkRow /\ new.pc = "closed" /\ new.cur = row.cur
  BY DEF WorkRow

\* Every step moves the agents only that way.
LEMMA NextWorkMove == AlipayInv /\ [AlipayNext]_allVars => WorkMove /\ WorkTyped
  <1> SUFFICES ASSUME AlipayInv, [AlipayNext]_allVars PROVE WorkMove /\ WorkTyped
    OBVIOUS
  <1> DEFINE Goal == WorkMove /\ WorkTyped
  <1>0. work \in [Agents -> WorkRow] /\ trade \in [Orders -> TradeStatus]
    BY DEF AlipayInv, AlipayTypeOK
  <1>1. ASSUME work' = work PROVE Goal
    BY <1>0, <1>1 DEF WorkMove, WorkTyped
  <1>2. ASSUME NEW a \in Agents, NEW row \in WorkRow, row.pc = "loop",
               work' = [work EXCEPT ![a] = row]
        PROVE  Goal
    BY <1>0, <1>2 DEF WorkMove, WorkTyped
  <1>3. ASSUME NEW a \in Agents, NEW todo \in SUBSET Orders, Begin(a, todo) PROVE Goal
    BY <1>2, <1>3, WorkRows DEF Begin
  <1>4. ASSUME RunReconciliation \/ \E a \in Admins, o \in Orders : CloseOrder(a, o) PROVE Goal
    BY <1>3, <1>4 DEF RunReconciliation, CloseOrder, Agents, Pending
  <1>5. ASSUME NEW a \in Agents, NEW o \in Orders, Answered(a, o) PROVE Goal
    <2>1. \E d \in BOOLEAN : work' = [work EXCEPT ![a] =
             [work[a] EXCEPT !.pc = "have", !.cur = o, !.status = trade[o], !.due = d]]
      <3> DEFINE due == a # "recon" \/ order[o].expires <= now
      <3>1. work' = [work EXCEPT ![a] =
              [work[a] EXCEPT !.pc = "have", !.cur = o, !.status = trade[o], !.due = due]]
        BY <1>5 DEF Answered
      <3>2. due \in BOOLEAN
        OBVIOUS
      <3> HIDE DEF due
      <3>3. QED
        BY <3>1, <3>2, Zenon
    <2>2. PICK d \in BOOLEAN : work' = [work EXCEPT ![a] =
             [work[a] EXCEPT !.pc = "have", !.cur = o, !.status = trade[o], !.due = d]]
      BY <2>1, Zenon
    <2> DEFINE new == [work[a] EXCEPT !.pc = "have", !.cur = o, !.status = trade[o], !.due = d]
    <2>3. work[a] \in WorkRow /\ trade[o] \in TradeStatus
      BY <1>0
    <2>4. new \in WorkRow /\ new.pc = "have" /\ new.cur = o /\ new.status = trade[o]
      BY <2>3 DEF WorkRow
    <2> HIDE DEF new
    <2>5. work' = [work EXCEPT ![a] = new]
      BY <2>2, Zenon DEF new
    <2>6. QED
      BY <1>0, <2>4, <2>5 DEF WorkMove, WorkTyped
  <1>6. ASSUME NEW a \in Agents, NEW o \in Orders,
               \/ PassOver(a, o) \/ CancelOrder(a, o)
               \/ \E l \in Licenses : SettleQueried(a, o, l)
        PROVE  Goal
    <2>1. work' = [work EXCEPT ![a] = Drop(work[a], o)]
      BY <1>6 DEF PassOver, CancelOrder, SettleQueried
    <2>2. Drop(work[a], o) \in WorkRow /\ Drop(work[a], o).pc = "loop"
      BY <1>0, WorkRows
    <2>3. QED
      BY <1>2, <2>1, <2>2
  <1>7. ASSUME NEW a \in Agents, NEW o \in Orders, NEW answered \in BOOLEAN,
               CloseTrade(a, o, answered)
        PROVE  Goal
    <2>1. /\ o = work[a].cur /\ trade' = [trade EXCEPT ![o] = "closed"]
          /\ \/ work' = [work EXCEPT ![a] = [work[a] EXCEPT !.pc = "closed"]]
             \/ work' = [work EXCEPT ![a] = Drop(work[a], o)]
      BY <1>7 DEF CloseTrade
    <2>2. CASE work' = [work EXCEPT ![a] = Drop(work[a], o)]
      BY <1>0, <1>2, <2>2, WorkRows
    <2>3. CASE work' = [work EXCEPT ![a] = [work[a] EXCEPT !.pc = "closed"]]
      <3> DEFINE new == [work[a] EXCEPT !.pc = "closed"]
      <3>1. new \in WorkRow /\ new.pc = "closed" /\ new.cur = o
        BY <1>0, <2>1, ClosedRow
      <3> HIDE DEF new
      <3>2. work' = [work EXCEPT ![a] = new]
        BY <2>3 DEF new
      <3>3. trade'[o] = "closed"
        BY <1>0, <2>1
      <3>4. QED
        BY <1>0, <3>1, <3>2, <3>3 DEF WorkMove, WorkTyped
    <2>4. QED
      BY <2>1, <2>2, <2>3
  <1>8. ASSUME NEW a \in Agents, Restart(a) PROVE Goal
    BY <1>2, <1>8, WorkRows DEF Restart
  <1>9. ASSUME NEW o \in Orders,
               \/ Checkout(o) \/ OpenTrade(o) \/ PayTrade(o) \/ LapseTrade(o)
               \/ \E l \in Licenses : Notify(o, l)
        PROVE  Goal
    BY <1>1, <1>9 DEF Checkout, OpenTrade, PayTrade, LapseTrade, Notify, aliVars
  <1>10. ASSUME NEW f \in Refunds, NEW o, NEW amount, AskRefund(f, o, amount) PROVE Goal
    BY <1>1, <1>10 DEF AskRefund
  <1>11. ASSUME NEW f \in Refunds,
                \/ RecordRefund(f) \/ ConfirmRefund(f) \/ EndRefund(f)
                \/ CheckRefund(f) \/ ReconcileRefund(f) \/ EndCheck(f)
                \/ \E answered \in BOOLEAN : CallRefund(f, answered)
         PROVE  Goal
    BY <1>1, <1>11 DEF RecordRefund, ConfirmRefund, EndRefund, CheckRefund, ReconcileRefund,
                       EndCheck, CallRefund
  <1>12. ASSUME OtherStep \/ UNCHANGED allVars \/ \E o \in Orders : Bridge(o) PROVE Goal
    BY <1>1, <1>12 DEF OtherStep, Bridge, allVars, aliVars
  <1> HIDE DEF Goal
  <1>13. Goal
    BY <1>4, <1>5, <1>6, <1>7, <1>8, <1>9, <1>10, <1>11, <1>12 DEF AlipayNext, AlipayStep
  <1>14. QED
    BY <1>13 DEF Goal

\* What a step does to the refund requests: one of them ends, begins for a paid
\* order, or moves on once its refund is on record.  Alipay carries out only
\* refunds that are on record.
AskMove ==
    /\ \/ asking' = asking
       \/ \E f \in Refunds :
            /\ \A g \in Refunds \ {f} : asking'[g] = asking[g]
            /\ \/ asking'[f].pc = "idle"
               \/ /\ asking'[f].pc = "verified"
                  /\ asking'[f].order \in Orders /\ Settled(asking'[f].order)
                  /\ asking'[f].amount \in 1 .. MaxAmount
               \/ /\ asking[f].pc # "idle" /\ asking'[f].pc # "idle" /\ refund'[f].status # "none"
                  /\ asking'[f].order = asking[f].order /\ asking'[f].amount = asking[f].amount
    /\ \A f \in executed' \ executed : f \in Refunds /\ refund[f].status # "none"

\* Refund requests keep theirs.
AskTyped == asking' \in [Refunds -> AskRow]

\* The rows a refund request may become.
LEMMA AskRows ==
    /\ NoAsk \in AskRow /\ NoAsk.pc = "idle"
    /\ \A row \in AskRow, pc \in {"created", "confirmed"} :
          LET new == [row EXCEPT !.pc = pc]
          IN  new \in AskRow /\ new.pc = pc /\ new.order = row.order /\ new.amount = row.amount
  BY DEF AskRow, NoAsk

\* Every step moves the refund requests only that way.
LEMMA NextAskMove ==
    AlipayInv /\ [AlipayNext]_allVars => AskMove /\ AskTyped
  <1> SUFFICES ASSUME AlipayInv, [AlipayNext]_allVars PROVE AskMove /\ AskTyped
    OBVIOUS
  <1> DEFINE Goal == AskMove /\ AskTyped
  <1>0. asking \in [Refunds -> AskRow] /\ refund \in [Refunds -> RefundRow]
    BY DEF AlipayInv, AlipayTypeOK, BillingTypeOK
  <1>1. ASSUME asking' = asking, executed' = executed PROVE Goal
    BY <1>0, <1>1 DEF AskMove, AskTyped
  <1>2. ASSUME NEW f \in Refunds, NEW row \in AskRow, asking' = [asking EXCEPT ![f] = row],
               \/ row.pc = "idle"
               \/ /\ row.pc = "verified" /\ row.order \in Orders /\ Settled(row.order)
                  /\ row.amount \in 1 .. MaxAmount
               \/ /\ asking[f].pc # "idle" /\ row.pc # "idle" /\ refund'[f].status # "none"
                  /\ row.order = asking[f].order /\ row.amount = asking[f].amount,
               \A g \in executed' \ executed : g \in Refunds /\ refund[g].status # "none"
        PROVE  Goal
    BY <1>0, <1>2 DEF AskMove, AskTyped
  <1>3. ASSUME NEW f \in Refunds, NEW o \in Orders, NEW amount \in 1 .. MaxAmount,
               AskRefund(f, o, amount)
        PROVE  Goal
    <2> DEFINE row == [pc |-> "verified", order |-> o, amount |-> amount]
    <2>1. amount \in Nat
      OBVIOUS
    <2>2. row \in AskRow /\ row.pc = "verified" /\ row.order = o /\ row.amount = amount
      BY <2>1 DEF AskRow
    <2>3. asking' = [asking EXCEPT ![f] = row] /\ executed' = executed
      BY <1>3 DEF AskRefund
    <2>4. Settled(o)
      BY <1>3 DEF AskRefund, Settled
    <2> HIDE DEF row
    <2>5. QED
      BY <1>2, <2>2, <2>3, <2>4
  <1>4. ASSUME NEW f \in Refunds, RecordRefund(f) PROVE Goal
    <2> DEFINE row == [asking[f] EXCEPT !.pc = "created"]
    <2>1. asking' = [asking EXCEPT ![f] = row] /\ executed' = executed /\ asking[f].pc # "idle"
      BY <1>0, <1>4 DEF RecordRefund
    <2>2. /\ row \in AskRow /\ row.pc = "created"
          /\ row.order = asking[f].order /\ row.amount = asking[f].amount
      BY <1>0 DEF AskRow
    <2>3. refund'[f].status # "none"
      BY <1>0, <1>4 DEF RecordRefund, CreateRefund
    <2> HIDE DEF row
    <2>4. QED
      BY <1>2, <2>1, <2>2, <2>3
  <1>5. ASSUME NEW f \in Refunds, NEW answered \in BOOLEAN, CallRefund(f, answered) PROVE Goal
    <2> DEFINE row == [asking[f] EXCEPT !.pc = "confirmed"]
    <2>1. /\ asking[f].pc = "created" /\ executed' = executed \cup {f} /\ refund' = refund
          /\ \/ asking' = [asking EXCEPT ![f] = row]
             \/ asking' = [asking EXCEPT ![f] = NoAsk]
      BY <1>5 DEF CallRefund, vars, billVars
    <2>2. refund[f].status # "none"
      BY <2>1 DEF AlipayInv, AskInv
    <2>3. \A g \in executed' \ executed : g \in Refunds /\ refund[g].status # "none"
      BY <2>1, <2>2
    <2>4. /\ row \in AskRow /\ row.pc = "confirmed"
          /\ row.order = asking[f].order /\ row.amount = asking[f].amount
      BY <1>0 DEF AskRow
    <2> HIDE DEF row
    <2>5. CASE asking' = [asking EXCEPT ![f] = row]
      <3>1. asking[f].pc # "idle" /\ row.pc # "idle" /\ refund'[f].status # "none"
        BY <2>1, <2>2, <2>4
      <3>2. QED
        BY <1>2, <2>3, <2>4, <2>5, <3>1
    <2>6. CASE asking' = [asking EXCEPT ![f] = NoAsk]
      BY <1>2, <2>3, <2>6, AskRows
    <2>7. QED
      BY <2>1, <2>5, <2>6
  <1>6. ASSUME NEW f \in Refunds, ConfirmRefund(f) \/ EndRefund(f) PROVE Goal
    <2>1. asking' = [asking EXCEPT ![f] = NoAsk] /\ executed' = executed
      BY <1>6 DEF ConfirmRefund, EndRefund
    <2>2. QED
      BY <1>2, <2>1, AskRows
  <1>7. ASSUME NEW f \in Refunds, CheckRefund(f) \/ ReconcileRefund(f) \/ EndCheck(f) PROVE Goal
    BY <1>1, <1>7 DEF CheckRefund, ReconcileRefund, EndCheck
  <1>8. ASSUME NEW o \in Orders,
               \/ Checkout(o) \/ OpenTrade(o) \/ PayTrade(o) \/ LapseTrade(o)
               \/ \E l \in Licenses : Notify(o, l)
        PROVE  Goal
    BY <1>1, <1>8 DEF Checkout, OpenTrade, PayTrade, LapseTrade, Notify, aliVars
  <1>9. ASSUME NEW a \in Agents, NEW todo, Begin(a, todo) PROVE Goal
    BY <1>1, <1>9 DEF Begin
  <1>10. ASSUME RunReconciliation \/ \E a \in Admins, o \in Orders : CloseOrder(a, o) PROVE Goal
    BY <1>9, <1>10 DEF RunReconciliation, CloseOrder, Agents
  <1>11. ASSUME NEW a \in Agents, NEW o \in Orders,
                \/ Answered(a, o) \/ PassOver(a, o) \/ CancelOrder(a, o)
                \/ \E l \in Licenses : SettleQueried(a, o, l)
                \/ \E answered \in BOOLEAN : CloseTrade(a, o, answered)
         PROVE  Goal
    BY <1>1, <1>11 DEF Answered, PassOver, CancelOrder, SettleQueried, CloseTrade
  <1>12. ASSUME NEW a \in Agents, Restart(a) PROVE Goal
    BY <1>1, <1>12 DEF Restart
  <1>13. ASSUME OtherStep \/ UNCHANGED allVars \/ \E o \in Orders : Bridge(o) PROVE Goal
    BY <1>1, <1>13 DEF OtherStep, Bridge, allVars, aliVars
  <1> HIDE DEF Goal
  <1>14. Goal
    BY <1>3, <1>4, <1>5, <1>6, <1>7, <1>8, <1>10, <1>11, <1>12, <1>13 DEF AlipayNext, AlipayStep
  <1>15. QED
    BY <1>14 DEF Goal

\* Cashier pages are those of orders, and reconciled refunds are refunds.
LEMMA NextPages ==
    AlipayTypeOK /\ [AlipayNext]_allVars => page' \subseteq Orders /\ checked' \subseteq Refunds
  <1> SUFFICES ASSUME AlipayTypeOK, [AlipayNext]_allVars
               PROVE  page' \subseteq Orders /\ checked' \subseteq Refunds
    OBVIOUS
  <1> DEFINE Goal == page' \subseteq Orders /\ checked' \subseteq Refunds
  <1>0. page \subseteq Orders /\ checked \subseteq Refunds
    BY DEF AlipayTypeOK
  <1>1. ASSUME NEW o \in Orders,
               \/ Checkout(o) \/ OpenTrade(o) \/ PayTrade(o) \/ LapseTrade(o)
               \/ \E l \in Licenses : Notify(o, l)
        PROVE  Goal
    BY <1>0, <1>1 DEF Checkout, OpenTrade, PayTrade, LapseTrade, Notify, aliVars
  <1>2. ASSUME RunReconciliation \/ \E a \in Admins, o \in Orders : CloseOrder(a, o) PROVE Goal
    BY <1>0, <1>2 DEF RunReconciliation, CloseOrder, Begin
  <1>3. ASSUME NEW a \in Agents, NEW o \in Orders,
               \/ Answered(a, o) \/ PassOver(a, o) \/ CancelOrder(a, o)
               \/ \E l \in Licenses : SettleQueried(a, o, l)
               \/ \E answered \in BOOLEAN : CloseTrade(a, o, answered)
        PROVE  Goal
    BY <1>0, <1>3 DEF Answered, PassOver, CancelOrder, SettleQueried, CloseTrade
  <1>4. ASSUME NEW a \in Agents, Restart(a) PROVE Goal
    BY <1>0, <1>4 DEF Restart
  <1>5. ASSUME NEW f \in Refunds, NEW o, NEW amount, AskRefund(f, o, amount) PROVE Goal
    BY <1>0, <1>5 DEF AskRefund
  <1>6. ASSUME NEW f \in Refunds,
               \/ RecordRefund(f) \/ ConfirmRefund(f) \/ EndRefund(f)
               \/ CheckRefund(f) \/ ReconcileRefund(f) \/ EndCheck(f)
               \/ \E answered \in BOOLEAN : CallRefund(f, answered)
        PROVE  Goal
    BY <1>0, <1>6 DEF RecordRefund, ConfirmRefund, EndRefund, CheckRefund, ReconcileRefund,
                      EndCheck, CallRefund
  <1>7. ASSUME OtherStep \/ UNCHANGED allVars \/ \E o \in Orders : Bridge(o) PROVE Goal
    BY <1>0, <1>7 DEF OtherStep, Bridge, allVars, aliVars
  <1> HIDE DEF Goal
  <1>8. Goal
    BY <1>1, <1>2, <1>3, <1>4, <1>5, <1>6, <1>7 DEF AlipayNext, AlipayStep
  <1>9. QED
    BY <1>8 DEF Goal

-----------------------------------------------------------------------------
(* The invariant and the theorems.                                         *)

\* Before the first order the invariant holds.
LEMMA InitAlipayInv == BillingInit /\ AlipayInit => AlipayInv
  <1> SUFFICES ASSUME BillingInit, AlipayInit PROVE AlipayInv
    OBVIOUS
  <1>1. BillingTypeOK
    BY InitTypeOK
       DEF BillingInit, BillingTypeOK, NoOrder, OrderRow, Products, Providers, Regions,
           NoWithdrawal, WithdrawalRow, NoRefund, RefundRow, Orders, Accounts
  <1>2. AlipayTypeOK
    BY WorkRows, AskRows DEF AlipayInit, AlipayTypeOK, TradeStatus
  <1>3. AskInv
    BY AskRows DEF AlipayInit, AskInv
  <1>4. TradeInv
    BY DEF AlipayInit, TradeInv
  <1>5. WorkInv
    BY WorkRows DEF AlipayInit, WorkInv, KnownClosed
  <1>6. CanceledIsUnpaid
    BY DEF BillingInit, NoOrder, CanceledIsUnpaid, AlipayOrder
  <1>7. QED
    BY <1>1, <1>2, <1>3, <1>4, <1>5, <1>6 DEF AlipayInv

\* Every step keeps it.
LEMMA NextAlipayInv == AlipayInv /\ [AlipayNext]_allVars => AlipayInv'
  <1> SUFFICES ASSUME AlipayInv, [AlipayNext]_allVars PROVE AlipayInv'
    OBVIOUS
  <1>1. TradeMove /\ trade' \in [Orders -> TradeStatus] /\ collected' \subseteq Orders
    BY NextTradeMove
  <1>2. OrdersKept
    BY NextOrdersKept
  <1>3. BillingTypeOK' /\ RefundsKept
    BY StepIsBilling, NextBillingTypeOK, NextRefundsKept DEF AlipayInv
  <1>4. WorkMove /\ work' \in [Agents -> WorkRow]
    BY NextWorkMove DEF WorkTyped
  <1>5. AskMove /\ asking' \in [Refunds -> AskRow]
    BY NextAskMove DEF AskTyped
  <1>6. AlipayTypeOK'
    <2>1. page' \subseteq Orders /\ checked' \subseteq Refunds
      BY NextPages DEF AlipayInv
    <2>2. executed' \subseteq {f \in Refunds : refund'[f].status # "none"}
      BY <1>3, <1>5 DEF AlipayInv, AlipayTypeOK, AskMove, RefundsKept
    <2>3. bridged' \subseteq Orders
      BY NextBridged DEF AlipayInv, AlipayTypeOK
    <2>4. QED
      BY <1>1, <1>4, <1>5, <2>1, <2>2, <2>3 DEF AlipayTypeOK
  <1>7. AskInv'
    <2> SUFFICES ASSUME NEW f \in Refunds, asking'[f].pc # "idle"
                 PROVE  /\ asking'[f].order \in Orders
                        /\ asking'[f].amount \in 1 .. MaxAmount
                        /\ order'[asking'[f].order].status \in {"paid", "chargeback"}
                        /\ asking'[f].pc # "verified" => refund'[f].status # "none"
      BY DEF AskInv, Settled
    <2>1. CASE asking'[f] = asking[f]
      <3>1. /\ asking[f].order \in Orders /\ asking[f].amount \in 1 .. MaxAmount
            /\ Settled(asking[f].order)
            /\ asking[f].pc # "verified" => refund[f].status # "none"
        BY <2>1 DEF AlipayInv, AskInv
      <3>2. order'[asking[f].order].status \in {"paid", "chargeback"}
        BY <1>2, <2>1, <3>1 DEF OrdersKept, Settled
      <3>3. QED
        BY <1>3, <2>1, <3>1, <3>2 DEF RefundsKept
    <2>2. CASE /\ asking'[f].pc = "verified" /\ asking'[f].order \in Orders
               /\ Settled(asking'[f].order) /\ asking'[f].amount \in 1 .. MaxAmount
      BY <1>2, <2>2 DEF OrdersKept, Settled
    <2>3. CASE /\ asking[f].pc # "idle" /\ refund'[f].status # "none"
               /\ asking'[f].order = asking[f].order /\ asking'[f].amount = asking[f].amount
      <3>1. /\ asking[f].order \in Orders /\ asking[f].amount \in 1 .. MaxAmount
            /\ Settled(asking[f].order)
        BY <2>3 DEF AlipayInv, AskInv
      <3>2. QED
        BY <1>2, <2>3, <3>1 DEF OrdersKept, Settled
    <2>4. QED
      BY <1>5, <2>1, <2>2, <2>3 DEF AskMove
  <1>8. TradeInv'
    BY <1>1, <1>2 DEF AlipayInv, TradeInv, TradeMove, OrdersKept, Settled
  <1>9. \A o \in Orders : trade[o] = "closed" => trade'[o] = "closed"
    BY <1>1 DEF TradeMove
  <1>10. WorkInv'
    BY <1>4, <1>9 DEF AlipayInv, WorkInv, WorkMove, KnownClosed
  <1>11. CanceledIsUnpaid'
    <2> SUFFICES ASSUME NEW o \in Orders, o \notin bridged',
                        AlipayOrder(o)', order'[o].status = "canceled"
                 PROVE  trade'[o] = "closed" /\ o \notin collected'
      BY DEF CanceledIsUnpaid
    <2>1. trade[o] = "closed" /\ o \notin collected
      <3>1. CASE AlipayOrder(o) /\ order[o].status = "canceled"
        BY <1>2, <3>1 DEF AlipayInv, CanceledIsUnpaid, OrdersKept
      <3>2. CASE order[o].status = "pending" /\ \E a \in Agents : KnownClosed(a) /\ work[a].cur = o
        BY <3>2 DEF AlipayInv, WorkInv, TradeInv, Settled
      <3>3. QED
        BY <1>2, <3>1, <3>2 DEF OrdersKept
    <2>2. QED
      BY <1>1, <1>9, <2>1 DEF TradeMove
  <1>12. QED
    BY <1>3, <1>6, <1>7, <1>8, <1>10, <1>11 DEF AlipayInv

\* The invariant holds in every reachable state.
THEOREM AlipayInvariant == AlipaySpec => []AlipayInv
  BY InitAlipayInv, NextAlipayInv, PTL DEF AlipaySpec

\* The trades, the agents and the refund requests keep their types, and Alipay
\* carries out only refunds that are on record (CreateD2SAlipayRefund precedes
\* the call in D2SAdminAlipayRefund).
THEOREM AlipayTypeCorrect == AlipaySpec => []AlipayTypeOK
  <1>1. AlipayInv => AlipayTypeOK
    BY DEF AlipayInv
  <1>2. QED
    BY <1>1, AlipayInvariant, PTL

\* However the buyer's payment, the reconciliation, the administrators' closing
\* of orders and refunds and the events of the payment bridge interleave, and
\* whichever answers are lost, an order that the bridge did not cancel is
\* canceled only when Alipay has closed its trade unpaid
\* (reconcileAlipayPCOrder, D2SAdminAlipayCloseOrder, D2SPaymentWebhook).
THEOREM CanceledUnpaid == AlipaySpec => []CanceledIsUnpaid
  <1>1. AlipayInv => CanceledIsUnpaid
    BY DEF AlipayInv
  <1>2. QED
    BY <1>1, AlipayInvariant, PTL

\* The notification, the reconciliation and the administrators' requests change
\* the tables only as D2SBilling allows, so whatever holds of all behaviours of
\* D2SBilling holds with Alipay in the loop.
THEOREM AlipayRefinement == AlipaySpec => ImplementsBilling
  <1>1. AlipayInv /\ [AlipayNext]_allVars => [BillingNext]_vars
    BY StepIsBilling DEF AlipayInv
  <1>2. QED
    BY <1>1, AlipayInvariant, PTL DEF AlipaySpec, ImplementsBilling

\* The traffic with Alipay is a refinement of the billing specification.
LEMMA AlipayImplementsBilling == AlipaySpec => BillingSpec
  BY AlipayRefinement, PTL DEF AlipaySpec, BillingSpec, ImplementsBilling

\* So what is proved of D2SBilling holds of it too, whatever answers and
\* notifications are lost or repeated: the licenses stay consistent, the ledger
\* balances, on SQLite money stays in its region, rewards follow their payments, licenses are
\* sold once, refunds are covered, and a reversed payment suspends its license.
THEOREM AlipayInherits ==
    AlipaySpec => [](/\ LicensingInv /\ RewardFollowsOrder /\ LicenseSoldOnce
                     /\ ReservedMatches /\ LedgerBalanced /\ MoneyInRegion
                     /\ RefundsCovered /\ ReversedIsSuspended)
  BY AlipayImplementsBilling, LicensesStayConsistent, RewardsFollowOrders, LicensesSoldOnce,
     LedgerHolds, MoneyStaysInRegion, RefundsAreCovered, ReversedStaysSuspended, PTL

-----------------------------------------------------------------------------
(* Refunds: what the records say and what Alipay has returned.             *)

\* A refund is confirmed and completed only after Alipay carried it out, and a
\* license is taken back only when the refunds reach the payment, or by the
\* payment bridge.
RefundInv ==
    /\ \A f \in Refunds : asking[f].pc = "confirmed" \/ refund[f].status = "completed"
                          => f \in executed
    /\ \A o \in Orders \ bridged : AlipayOrder(o) /\ order[o].status = "chargeback"
                                   => order[o].refunded = Gateway(order[o])

\* What a step does to the refunds: nothing is forgotten, and one that becomes
\* confirmed or completed was carried out.
RefundMove ==
    /\ executed \subseteq executed'
    /\ \A f \in Refunds : asking'[f].pc = "confirmed" =>
          asking[f].pc = "confirmed" \/ f \in executed'
    /\ \A f \in Refunds : refund'[f].status = "completed" =>
          refund[f].status = "completed" \/ f \in executed'

\* Every step keeps to that (CompleteD2SAlipayRefund follows Alipay's answer in
\* D2SAdminAlipayRefund and in D2SAdminAlipayRefundReconcile).
LEMMA NextRefundMove == AlipayInv /\ RefundInv /\ [AlipayNext]_allVars => RefundMove
  <1> SUFFICES ASSUME AlipayInv, RefundInv, [AlipayNext]_allVars PROVE RefundMove
    OBVIOUS
  <1>0. asking \in [Refunds -> AskRow] /\ refund \in [Refunds -> RefundRow]
    BY DEF AlipayInv, AlipayTypeOK, BillingTypeOK
  <1>1. ASSUME executed' = executed, asking' = asking, refund' = refund PROVE RefundMove
    BY <1>1 DEF RefundMove
  <1>2. ASSUME NEW f \in Refunds, executed' = executed,
               \A g \in Refunds \ {f} : asking'[g] = asking[g] /\ refund'[g] = refund[g],
               asking'[f].pc = "confirmed" => asking[f].pc = "confirmed",
               refund'[f].status = "completed" =>
                  refund[f].status = "completed" \/ f \in executed
        PROVE  RefundMove
    BY <1>2 DEF RefundMove
  <1>3. ASSUME NEW f \in Refunds, NEW o \in Orders, NEW amount \in 1 .. MaxAmount,
               AskRefund(f, o, amount)
        PROVE  RefundMove
    <2>1. /\ asking' = [asking EXCEPT ![f] = [pc |-> "verified", order |-> o, amount |-> amount]]
          /\ executed' = executed /\ refund' = refund
      BY <1>3 DEF AskRefund, vars, billVars
    <2>2. asking'[f].pc = "verified" /\ \A g \in Refunds \ {f} : asking'[g] = asking[g]
      BY <1>0, <2>1
    <2>3. QED
      BY <1>2, <2>1, <2>2
  <1>4. ASSUME NEW f \in Refunds, RecordRefund(f) PROVE RefundMove
    <2> DEFINE new == [order |-> asking[f].order, amount |-> asking[f].amount, status |-> "pending"]
    <2>1. /\ asking' = [asking EXCEPT ![f].pc = "created"] /\ executed' = executed
          /\ refund' = [refund EXCEPT ![f] = new]
      BY <1>4 DEF RecordRefund, CreateRefund
    <2>2. /\ asking'[f].pc = "created" /\ \A g \in Refunds \ {f} : asking'[g] = asking[g]
          /\ refund'[f] = new /\ \A g \in Refunds \ {f} : refund'[g] = refund[g]
      BY <1>0, <2>1 DEF AskRow
    <2>3. refund'[f].status = "pending"
      BY <2>2
    <2>4. QED
      BY <1>2, <2>1, <2>2, <2>3
  <1>5. ASSUME NEW f \in Refunds, NEW answered \in BOOLEAN, CallRefund(f, answered) PROVE RefundMove
    <2>1. /\ executed' = executed \cup {f} /\ refund' = refund
          /\ \E row : asking' = [asking EXCEPT ![f] = row]
      BY <1>5 DEF CallRefund, vars, billVars
    <2>2. \A g \in Refunds \ {f} : asking'[g] = asking[g]
      BY <1>0, <2>1
    <2>3. QED
      BY <2>1, <2>2 DEF RefundMove
  <1>6. ASSUME NEW f \in Refunds, CompleteRefund(f), f \in executed, executed' = executed,
               asking' = asking \/ asking' = [asking EXCEPT ![f] = NoAsk]
        PROVE  RefundMove
    <2>1. \A g \in Refunds \ {f} : asking'[g] = asking[g] /\ refund'[g] = refund[g]
      BY <1>0, <1>6 DEF CompleteRefund
    <2>2. asking'[f].pc = "confirmed" => asking[f].pc = "confirmed"
      BY <1>0, <1>6, AskRows
    <2>3. QED
      BY <1>2, <1>6, <2>1, <2>2
  <1>7. ASSUME NEW f \in Refunds, ConfirmRefund(f) PROVE RefundMove
    BY <1>6, <1>7 DEF ConfirmRefund, RefundInv
  <1>8. ASSUME NEW f \in Refunds, ReconcileRefund(f) PROVE RefundMove
    BY <1>6, <1>8 DEF ReconcileRefund
  <1>9. ASSUME NEW f \in Refunds, EndRefund(f) PROVE RefundMove
    <2>1. asking' = [asking EXCEPT ![f] = NoAsk] /\ executed' = executed /\ refund' = refund
      BY <1>9 DEF EndRefund, vars, billVars
    <2>2. asking'[f] = NoAsk /\ \A g \in Refunds \ {f} : asking'[g] = asking[g]
      BY <1>0, <2>1
    <2>3. QED
      BY <1>2, <2>1, <2>2, AskRows
  <1>10. ASSUME NEW f \in Refunds, CheckRefund(f) \/ EndCheck(f) PROVE RefundMove
    BY <1>1, <1>10 DEF CheckRefund, EndCheck, vars, billVars
  <1>11. ASSUME NEW o \in Orders,
                \/ Checkout(o) \/ OpenTrade(o) \/ PayTrade(o) \/ LapseTrade(o)
                \/ \E l \in Licenses : Notify(o, l)
         PROVE  RefundMove
    BY <1>1, <1>11 DEF Checkout, OpenTrade, PayTrade, LapseTrade, Notify, Paid, aliVars, vars, billVars
  <1>12. ASSUME NEW a \in Agents, NEW todo, Begin(a, todo) PROVE RefundMove
    BY <1>1, <1>12 DEF Begin, vars, billVars
  <1>13. ASSUME RunReconciliation \/ \E a \in Admins, o \in Orders : CloseOrder(a, o) PROVE RefundMove
    BY <1>12, <1>13 DEF RunReconciliation, CloseOrder, Agents
  <1>14. ASSUME NEW a \in Agents, NEW o \in Orders,
                \/ Answered(a, o) \/ PassOver(a, o)
                \/ \E answered \in BOOLEAN : CloseTrade(a, o, answered)
         PROVE  RefundMove
    BY <1>1, <1>14 DEF Answered, PassOver, CloseTrade, vars, billVars
  <1>15. ASSUME NEW a \in Agents, NEW o \in Orders,
                CancelOrder(a, o) \/ \E l \in Licenses : SettleQueried(a, o, l)
         PROVE  RefundMove
    BY <1>1, <1>15 DEF CancelOrder, Canceled, Release, SettleQueried, Paid
  <1>16. ASSUME NEW a \in Agents, Restart(a) PROVE RefundMove
    BY <1>1, <1>16 DEF Restart, vars, billVars
  <1>17. CASE OtherStep \/ UNCHANGED allVars
    BY <1>1, <1>17 DEF OtherStep, allVars, aliVars, vars, billVars
  <1>18. ASSUME NEW o \in Orders, Bridge(o) PROVE RefundMove
    BY <1>1, <1>18 DEF Bridge, Paid, Canceled, Release, Chargeback
  <1>19. QED
    BY <1>3, <1>4, <1>5, <1>7, <1>8, <1>9, <1>10, <1>11, <1>13, <1>14, <1>15, <1>16, <1>17, <1>18
       DEF AlipayNext, AlipayStep

\* An Alipay order is reversed only by the refund that completes its payment, or
\* by the payment bridge.
LEMMA NextReversed ==
    ASSUME AlipayInv, BillingRows, RefundInv, [AlipayNext]_allVars
    PROVE  \A o \in Orders \ bridged' : AlipayOrder(o)' /\ order'[o].status = "chargeback"
                                         => order'[o].refunded = Gateway(order'[o])
  <1> DEFINE Ok(o) == /\ order'[o].provider = "alipay_pc" /\ order'[o].status = "chargeback"
                      /\ o \notin bridged'
                      => order'[o].refunded = Gateway(order'[o])
             Goal == \A o \in Orders : Ok(o)
  <1> SUFFICES Goal
    BY DEF AlipayOrder
  <1>0. /\ BillingTypeOK /\ order \in [Orders -> OrderRow] /\ AskInv
        /\ bridged \subseteq bridged'
        /\ \A o \in Orders \ bridged : AlipayOrder(o) /\ order[o].status = "chargeback"
                                       => order[o].refunded = Gateway(order[o])
    BY NextBridged DEF AlipayInv, BillingTypeOK, RefundInv
  <1>1. ASSUME order' = order PROVE Goal
    BY <1>0, <1>1 DEF AlipayOrder
  <1>2. ASSUME NEW o \in Orders, Others(o), Ok(o) PROVE Goal
    BY <1>0, <1>2 DEF AlipayOrder, Others
  <1> HIDE DEF Goal
  <1>3. ASSUME NEW o \in Orders, NEW l \in Licenses, Paid(o, l) PROVE Goal
    <2>1. order[o] \in OrderRow /\ Settle(o, order[o], l, balance)
      BY <1>0, <1>3 DEF Paid
    <2>2. Others(o) /\ order'[o].status = "paid"
      BY <1>0, <2>1, SettleWrites
    <2>3. QED
      BY <1>2, <2>2
  <1>4. ASSUME NEW o \in Orders, Release(o) PROVE Goal
    <2> DEFINE new == [order[o] EXCEPT !.status = "canceled"]
    <2>1. order' = [order EXCEPT ![o] = new] /\ order[o] \in OrderRow
      BY <1>0, <1>4 DEF Release
    <2>2. new.status = "canceled"
      BY <2>1 DEF OrderRow
    <2> HIDE DEF new
    <2>3. order'[o] = new /\ Others(o)
      BY <1>0, <2>1 DEF Others
    <2>4. QED
      BY <1>2, <2>2, <2>3
  <1>5. ASSUME NEW f \in Refunds, CompleteRefund(f) PROVE Goal
    <2> DEFINE o == refund[f].order
               sum == order[o].refunded + refund[f].amount
               st == IF sum = Gateway(order[o]) THEN "chargeback" ELSE "paid"
               new == [order[o] EXCEPT !.refunded = sum, !.status = st]
    <2>1. o \in Orders
      BY <1>0, <1>5, RefundReturns
    <2>2. order' = [order EXCEPT ![o] = new] /\ order[o] \in OrderRow
      BY <1>0, <1>5, <2>1 DEF CompleteRefund
    <2>3. /\ new.status = st /\ new.refunded = sum
          /\ new.amount = order[o].amount /\ new.balance = order[o].balance
      BY <2>2 DEF OrderRow
    <2> HIDE DEF new
    <2>4. order'[o] = new /\ Others(o)
      BY <1>0, <2>1, <2>2 DEF Others
    <2>5. Gateway(order'[o]) = Gateway(order[o])
      BY <2>3, <2>4 DEF Gateway
    <2>6. Ok(o)
      BY <2>3, <2>4, <2>5
    <2>7. QED
      BY <1>2, <2>1, <2>4, <2>6
  <1>6. CASE OtherStep
    <2> SUFFICES ASSUME NEW o \in Orders, order'[o].provider = "alipay_pc",
                        order'[o].status = "chargeback", o \notin bridged'
                 PROVE  order'[o] = order[o]
      BY <1>0 DEF Goal, AlipayOrder
    <2>1. OrderCases
      BY <1>0, <1>6, NextOrderCases DEF OtherStep
    <2>2. AlipayOrder(o) => order'[o] = order[o]
      BY <1>6 DEF OtherStep
    <2>3. \/ order'[o] = order[o]
          \/ order[o].status = "paid" /\ order'[o].provider = order[o].provider
      BY <2>1 DEF OrderCases, Quiet, Opens, Ends, Returns, Settles, Others, SameTerms, CreateRefund
    <2>4. QED
      BY <2>2, <2>3 DEF AlipayOrder
  <1>7. ASSUME NEW o \in Orders, Checkout(o) \/ OpenTrade(o) \/ PayTrade(o) \/ LapseTrade(o)
        PROVE  Goal
    BY <1>1, <1>7 DEF Checkout, OpenTrade, PayTrade, LapseTrade, vars, billVars
  <1>8. ASSUME NEW a \in Agents, NEW todo, Begin(a, todo) PROVE Goal
    BY <1>1, <1>8 DEF Begin, vars, billVars
  <1>9. CASE RunReconciliation \/ \E a \in Admins, o \in Orders : CloseOrder(a, o)
    BY <1>8, <1>9 DEF RunReconciliation, CloseOrder, Agents
  <1>10. ASSUME NEW a \in Agents, NEW o \in Orders,
                \/ Answered(a, o) \/ PassOver(a, o)
                \/ \E answered \in BOOLEAN : CloseTrade(a, o, answered)
         PROVE  Goal
    BY <1>1, <1>10 DEF Answered, PassOver, CloseTrade, vars, billVars
  <1>11. ASSUME NEW a \in Agents, Restart(a) PROVE Goal
    BY <1>1, <1>11 DEF Restart, vars, billVars
  <1>12. ASSUME NEW f \in Refunds,
                \/ EndRefund(f) \/ CheckRefund(f) \/ EndCheck(f) \/ RecordRefund(f)
                \/ \E answered \in BOOLEAN : CallRefund(f, answered)
                \/ \E o \in Orders, amount \in 1 .. MaxAmount : AskRefund(f, o, amount)
         PROVE  Goal
    BY <1>1, <1>12 DEF EndRefund, CheckRefund, EndCheck, RecordRefund, CreateRefund, CallRefund,
                       AskRefund, vars, billVars
  <1>13. CASE \/ \E o \in Orders, l \in Licenses : Notify(o, l)
              \/ \E a \in Agents, o \in Orders, l \in Licenses : SettleQueried(a, o, l)
              \/ \E a \in Agents, o \in Orders : CancelOrder(a, o)
    BY <1>3, <1>4, <1>13 DEF Notify, SettleQueried, CancelOrder, Canceled
  <1>14. CASE \E f \in Refunds : ConfirmRefund(f) \/ ReconcileRefund(f)
    BY <1>5, <1>14 DEF ConfirmRefund, ReconcileRefund
  <1>15. CASE UNCHANGED allVars
    BY <1>1, <1>15 DEF allVars, vars, billVars
  <1>16. ASSUME NEW o \in Orders, Bridge(o) PROVE Goal
    <2>1. CASE \/ \E l \in Licenses : Paid(o, l)
               \/ Canceled(o)
      BY <1>3, <1>4, <2>1 DEF Canceled
    <2>2. CASE Chargeback(o) /\ bridged' = bridged \cup {o}
      <3>1. Others(o)
        BY <1>0, <2>2 DEF Chargeback, Others
      <3>2. QED
        BY <1>2, <2>2, <3>1
    <2>3. QED
      BY <1>16, <2>1, <2>2 DEF Bridge
  <1>17. QED
    BY <1>6, <1>7, <1>9, <1>10, <1>11, <1>12, <1>13, <1>14, <1>15, <1>16 DEF AlipayNext, AlipayStep

\* What the records and Alipay say together about an order's refunds.
LEMMA ReturnedBounds ==
    ASSUME AlipayInv, RefundInv, NEW o \in Orders
    PROVE  /\ RefundSum(o, "completed") <= Returned(o)
           /\ Returned(o) <= RefundSum(o, "completed") + RefundSum(o, "pending")
           /\ Returned(o) \in Nat /\ RefundSum(o, "completed") \in Nat /\ RefundSum(o, "pending") \in Nat
  <1> DEFINE amount == [f \in Refunds |-> refund[f].amount]
             Done == {f \in Refunds : refund[f].order = o /\ refund[f].status = "completed"}
             Open == {f \in Refunds : refund[f].order = o /\ refund[f].status = "pending"}
             Made == {f \in executed : refund[f].order = o}
  <1>1. /\ refund \in [Refunds -> RefundRow] /\ executed \subseteq {f \in Refunds : refund[f].status # "none"}
        /\ \A f \in Refunds : refund[f].status = "completed" => f \in executed
    BY DEF AlipayInv, AlipayTypeOK, BillingTypeOK, RefundInv
  <1>2. \A f \in Refunds : amount[f] \in Nat /\ refund[f].status \in {"none", "pending", "completed"}
    BY <1>1 DEF RefundRow
  <1>3. Done \subseteq Made /\ Made \subseteq Done \cup Open /\ Done \cap Open = {} /\ Made \subseteq Refunds
    BY <1>1, <1>2
  <1>4. Done \subseteq Refunds /\ Open \subseteq Refunds
    OBVIOUS
  <1>5. /\ RefundSum(o, "completed") = SumFunctionOnSet(amount, Done)
        /\ RefundSum(o, "pending") = SumFunctionOnSet(amount, Open)
        /\ Returned(o) = SumFunctionOnSet(amount, Made)
    BY DEF RefundSum, Returned
  <1> HIDE DEF amount, Done, Open, Made
  <1>6. IsFiniteSet(Done) /\ IsFiniteSet(Open) /\ IsFiniteSet(Made) /\ IsFiniteSet(Done \cup Open)
    BY <1>3, <1>4, FiniteTables, FS_Subset, FS_Union
  <1>7. /\ \A f \in Done : amount[f] \in Nat /\ amount[f] \in Int
        /\ \A f \in Open : amount[f] \in Nat /\ amount[f] \in Int
        /\ \A f \in Made : amount[f] \in Nat
    BY <1>2, <1>3, <1>4
  <1>8. SumFunctionOnSet(amount, Done) <= SumFunctionOnSet(amount, Made)
    BY <1>3, <1>6, <1>7, SumSubset
  <1>9. SumFunctionOnSet(amount, Made) <= SumFunctionOnSet(amount, Done \cup Open)
    BY <1>3, <1>6, <1>7, SumSubset
  <1>10. SumFunctionOnSet(amount, Done \cup Open)
           = SumFunctionOnSet(amount, Done) + SumFunctionOnSet(amount, Open)
    BY <1>3, <1>6, <1>7, SumUnion
  <1>11. /\ SumFunctionOnSet(amount, Done) \in Nat /\ SumFunctionOnSet(amount, Open) \in Nat
         /\ SumFunctionOnSet(amount, Made) \in Nat
    BY <1>6, <1>7, SumNat
  <1>12. QED
    BY <1>5, <1>8, <1>9, <1>10, <1>11

\* RefundInv is an invariant.
LEMMA RefundInvariant == AlipaySpec => []RefundInv
  <1>1. BillingInit /\ AlipayInit => RefundInv
    BY DEF BillingInit, AlipayInit, RefundInv, NoAsk, NoRefund, NoOrder
  <1>2. AlipayInv /\ BillingBase /\ RefundInv /\ [AlipayNext]_allVars => RefundInv'
    <2> SUFFICES ASSUME AlipayInv, BillingBase, RefundInv, [AlipayNext]_allVars PROVE RefundInv'
      OBVIOUS
    <2>1. RefundMove /\ BillingRows
      BY NextRefundMove DEF BillingBase
    <2>2. \A o \in Orders \ bridged' : AlipayOrder(o)' /\ order'[o].status = "chargeback"
                                        => order'[o].refunded = Gateway(order'[o])
      BY <2>1, NextReversed
    <2>3. \A f \in Refunds : asking'[f].pc = "confirmed" \/ refund'[f].status = "completed"
                             => f \in executed'
      BY <2>1 DEF RefundInv, RefundMove
    <2>4. QED
      BY <2>2, <2>3 DEF RefundInv, Gateway
  <1>3. AlipaySpec => []BillingBase
    BY AlipayImplementsBilling, BillingBaseHolds, PTL
  <1>4. QED
    BY <1>1, <1>2, <1>3, AlipayInvariant, PTL DEF AlipaySpec

\* Unless the payment bridge says so, a license is taken back only when Alipay has
\* returned the whole payment; and what Alipay returned stands in the records and
\* never exceeds the payment, for any number of refunds whose answers are lost,
\* repeated or late, and whatever the bridge says
\* (D2SAdminAlipayRefund, CompleteD2SAlipayRefund, D2SAdminAlipayRefundReconcile,
\* D2SPaymentWebhook).
THEOREM ReturnedBeforeReversed == AlipaySpec => []ReversedIsReturned
  <1>1. AlipayInv /\ RefundInv /\ RefundsCovered => ReversedIsReturned
    <2> SUFFICES ASSUME AlipayInv, RefundInv, RefundsCovered, NEW o \in Orders, AlipayOrder(o)
                 PROVE  /\ order[o].status = "chargeback" /\ o \notin bridged
                           => Returned(o) = Gateway(order[o])
                        /\ order[o].refunded <= Returned(o)
                        /\ Returned(o) <= order[o].refunded + RefundSum(o, "pending")
      BY DEF ReversedIsReturned
    <2> DEFINE done == RefundSum(o, "completed")
               open == RefundSum(o, "pending")
               back == Returned(o)
               due == Gateway(order[o])
    <2>1. done <= back /\ back <= done + open /\ back \in Nat /\ done \in Nat /\ open \in Nat
      BY ReturnedBounds
    <2>2. order[o].refunded = done /\ order[o].refunded + open <= due
      BY DEF RefundsCovered
    <2>3. order[o].status = "chargeback" /\ o \notin bridged => order[o].refunded = due
      BY DEF RefundInv
    <2>4. due \in Int
      BY DEF AlipayInv, BillingTypeOK, OrderRow, Gateway
    <2> HIDE DEF done, open, back, due
    <2>5. /\ order[o].status = "chargeback" /\ o \notin bridged => back = due
          /\ order[o].refunded <= back /\ back <= order[o].refunded + open
      BY <2>1, <2>2, <2>3, <2>4
    <2>6. QED
      BY <2>5 DEF open, back, due
  <1>2. AlipaySpec => []RefundsCovered
    BY AlipayImplementsBilling, RefundsAreCovered, PTL
  <1>3. QED
    BY <1>1, <1>2, AlipayInvariant, RefundInvariant, PTL
=============================================================================
