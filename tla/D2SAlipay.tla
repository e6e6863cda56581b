------------------------------ MODULE D2SAlipay ------------------------------
(***************************************************************************)
(* Alipay orders between the site and Alipay.  The tables are those of     *)
(* D2SBilling; here the events of an Alipay order no longer come out of    *)
(* the blue, but from Alipay's notification, from the reconciliation of    *)
(* the master node, from an administrator who closes an order, and from    *)
(* the refund requests of administrators.  Each of them asks Alipay, waits *)
(* for the answer and acts on it in a transaction of its own, while the    *)
(* buyer pays, time passes and the others do the same.  The payment bridge *)
(* (D2SPaymentWebhook), where a secret is configured for it, takes the     *)
(* word of an internal adapter instead and does not ask.                   *)
(*                                                                         *)
(* Alipay is external and modelled from how the code uses it: a trade      *)
(* exists once the buyer has opened the cashier page; it is paid once, or  *)
(* closed by a request or by its time limit, or closed by a full refund.   *)
(* Answers and notifications may be lost, and notifications repeated.      *)
(***************************************************************************)
EXTENDS D2SBilling

CONSTANTS
    Admins,      \* administrators that close orders
    Batch,       \* orders of one round of the reconciliation (100)
    BridgeEvents, \* events adapters send for Alipay orders, {} without a secret
    EnvMatches   \* queryAlipayPCTrade compares the answer with the environment
                 \* variables, also where the application is configured in the
                 \* database: whether the two name the same application

ASSUME AlipayAssumption ==
    /\ Batch \in Nat \ {0}
    /\ BridgeEvents \subseteq {"paid", "canceled", "chargeback"}
    /\ EnvMatches \in BOOLEAN
    /\ "recon" \notin Admins

VARIABLES
    page,       \* orders whose cashier page was handed out
    trade,      \* Alipay: state of the order's trade
    collected,  \* Alipay: orders whose trade was paid
    executed,   \* Alipay: refunds that were carried out
    work,       \* what the reconciliation and the administrators have in hand
    asking,     \* refund requests in hand, by their number
    checked,    \* refunds under reconciliation, their trade found paid
    bridged     \* orders that an event of the payment bridge canceled or reversed

aliVars == <<page, trade, collected, executed, work, asking, checked, bridged>>
allVars == <<vars, aliVars>>

Agents == Admins \cup {"recon"}

TradeStatus == {"none", "wait", "success", "closed"}
WorkRow == [pc : {"loop", "have", "closed"}, todo : SUBSET Orders,
            cur : Orders \cup {None}, status : TradeStatus, due : BOOLEAN]
NoWork == [pc |-> "loop", todo |-> {}, cur |-> None, status |-> "none", due |-> FALSE]

AskRow == [pc : {"idle", "verified", "created", "confirmed"},
           order : Orders \cup {None}, amount : Nat]
NoAsk == [pc |-> "idle", order |-> None, amount |-> 0]

AlipayOrder(o) == order[o].provider = "alipay_pc" /\ order[o].status # "none"

AlipayInit ==
    /\ page = {}
    /\ trade = [o \in Orders |-> "none"]
    /\ collected = {}
    /\ executed = {}
    /\ work = [a \in Agents |-> NoWork]
    /\ asking = [f \in Refunds |-> NoAsk]
    /\ checked = {}
    /\ bridged = {}

-----------------------------------------------------------------------------
(* The buyer and Alipay.                                                   *)

\* D2SOrderCheckout: the signed form of the cashier page.
Checkout(o) ==
    /\ AlipayOrder(o) /\ order[o].status = "pending" /\ Gateway(order[o]) > 0
    /\ order[o].expires > now
    /\ o[1] \notin deleted
    /\ page' = page \cup {o}
    /\ UNCHANGED <<vars, trade, collected, executed, work, asking, checked, bridged>>

\* The buyer opens the page before its time limit (time_expire).
OpenTrade(o) ==
    /\ o \in page /\ trade[o] = "none" /\ now < order[o].expires
    /\ trade' = [trade EXCEPT ![o] = "wait"]
    /\ UNCHANGED <<vars, page, collected, executed, work, asking, checked, bridged>>

\* The limit is not taken to act at once: a payment may still come after it.
PayTrade(o) ==
    /\ trade[o] = "wait"
    /\ trade' = [trade EXCEPT ![o] = "success"]
    /\ collected' = collected \cup {o}
    /\ UNCHANGED <<vars, page, executed, work, asking, checked, bridged>>

LapseTrade(o) ==
    /\ trade[o] = "wait" /\ now >= order[o].expires
    /\ trade' = [trade EXCEPT ![o] = "closed"]
    /\ UNCHANGED <<vars, page, collected, executed, work, asking, checked, bridged>>

\* AlipayPCD2SNotify: the notification of a payment, late or repeated.  A
\* notification of another state is answered and changes nothing.
Notify(o, l) ==
    /\ o \in collected
    /\ AlipayOrder(o) /\ Paid(o, l)
    /\ UNCHANGED aliVars

-----------------------------------------------------------------------------
(* The reconciliation and the closing of an order by an administrator.     *)

Pending == {o \in Orders : AlipayOrder(o) /\ order[o].status = "pending"}

Begin(a, todo) ==
    /\ work[a] = NoWork
    /\ work' = [work EXCEPT ![a] = [NoWork EXCEPT !.todo = todo]]
    /\ UNCHANGED <<vars, page, trade, collected, executed, asking, checked, bridged>>

\* Mutant: orders that have expired are not looked up.
ReconcileUnexpired ==
    \E todo \in SUBSET {o \in Pending : order[o].expires > now} :
        todo # {} /\ Cardinality(todo) <= Batch /\ Begin("recon", todo)

\* runD2SAlipayReconciliation takes the oldest pending orders, up to its limit.
RunReconciliation ==
    \E todo \in SUBSET Pending :
        /\ todo # {}
        /\ Cardinality(todo) <= Batch
        /\ Cardinality(todo) = Batch \/ todo = Pending
        /\ \A o \in todo, p \in Pending \ todo : order[o].expires <= order[p].expires
        /\ Begin("recon", todo)

\* D2SAdminAlipayCloseOrder.
CloseOrder(a, o) == o \in Pending /\ Begin(a, {o})

\* Orders are taken in the order of their creation.
Current(a) == {o \in work[a].todo : \A p \in work[a].todo : order[o].expires <= order[p].expires}

\* Mutant: the reconciliation does not look at the expiry.
AnsweredUndue(a, o) ==
    /\ work[a].pc = "loop" /\ o \in Current(a)
    /\ EnvMatches /\ trade[o] # "none"
    /\ work' = [work EXCEPT ![a] = [@ EXCEPT !.pc = "have", !.cur = o, !.status = trade[o],
                                            !.due = a # "recon"]]
    /\ UNCHANGED <<vars, page, trade, collected, executed, asking, checked, bridged>>

\* queryAlipayPCTrade is answered.  An administrator closes an order that has
\* not expired, too.
Answered(a, o) ==
    /\ work[a].pc = "loop" /\ o \in Current(a)
    /\ EnvMatches
    /\ trade[o] # "none"
    /\ work' = [work EXCEPT ![a] =
          [@ EXCEPT !.pc = "have", !.cur = o, !.status = trade[o],
                    !.due = a # "recon" \/ order[o].expires <= now]]
    /\ UNCHANGED <<vars, page, trade, collected, executed, asking, checked, bridged>>

\* The work without order o.
Drop(row, o) == [NoWork EXCEPT !.todo = row.todo \ {o}]

\* The query or the closing of a trade fails or its answer is lost, there is
\* nothing to do, or the transaction is refused: the agent turns to its next
\* order.
PassOver(a, o) ==
    /\ o \in IF work[a].pc = "loop" THEN Current(a) ELSE {work[a].cur}
    /\ work' = [work EXCEPT ![a] = Drop(@, o)]
    /\ UNCHANGED <<vars, page, trade, collected, executed, asking, checked, bridged>>

\* The trade is paid.
SettleQueried(a, o, l) ==
    /\ work[a].pc = "have" /\ o = work[a].cur /\ work[a].status = "success"
    /\ AlipayOrder(o) /\ Paid(o, l)
    /\ work' = [work EXCEPT ![a] = Drop(@, o)]
    /\ UNCHANGED <<page, trade, collected, executed, asking, checked, bridged>>

\* Mutant: the state of the order is not checked.
CancelAnyOrder(a, o) ==
    /\ o = work[a].cur /\ work[a].pc # "loop" /\ "closed" \in {work[a].pc, work[a].status}
    /\ order' = [order EXCEPT ![o].status = "canceled"]
    /\ work' = [work EXCEPT ![a] = Drop(@, o)]
    /\ UNCHANGED <<licVars, region, changing, call, paidEvent, balance, reward, withdrawing, withdrawal,
                   refund, page, trade, collected, executed, asking, checked, bridged>>

\* The trade is closed, or Alipay has just confirmed that it closed it.
CancelOrder(a, o) ==
    /\ o = work[a].cur
    /\ \/ work[a].pc = "closed"
       \/ work[a].pc = "have" /\ work[a].status = "closed"
    /\ AlipayOrder(o) /\ Canceled(o)
    /\ work' = [work EXCEPT ![a] = Drop(@, o)]
    /\ UNCHANGED <<page, trade, collected, executed, asking, checked, bridged>>

\* Mutant: the order is canceled whatever Alipay answers.
CloseUnconfirmed(a, o, answered) ==
    /\ work[a].pc = "have" /\ o = work[a].cur /\ work[a].status = "wait" /\ work[a].due
    /\ trade' = [trade EXCEPT ![o] = IF @ = "wait" THEN "closed" ELSE @]
    /\ work' = [work EXCEPT ![a] = IF answered THEN [@ EXCEPT !.pc = "closed"] ELSE Drop(@, o)]
    /\ UNCHANGED <<vars, page, collected, executed, asking, checked, bridged>>

\* closeAlipayPCTrade: Alipay closes a trade that still waits for its payment.
\* Without its confirmation the order stays as it is.
CloseTrade(a, o, answered) ==
    /\ work[a].pc = "have" /\ o = work[a].cur
    /\ work[a].status = "wait" /\ work[a].due
    /\ trade[o] = "wait"
    /\ trade' = [trade EXCEPT ![o] = "closed"]
    /\ work' = [work EXCEPT ![a] = IF answered THEN [@ EXCEPT !.pc = "closed"] ELSE Drop(@, o)]
    /\ UNCHANGED <<vars, page, collected, executed, asking, checked, bridged>>

\* The server stops; the reconciliation begins anew after the restart.
Restart(a) ==
    /\ work[a] # NoWork
    /\ work' = [work EXCEPT ![a] = NoWork]
    /\ UNCHANGED <<vars, page, trade, collected, executed, asking, checked, bridged>>

-----------------------------------------------------------------------------
(* Refunds.                                                                *)

Returned(o) ==
    SumFunctionOnSet([f \in Refunds |-> refund[f].amount],
                     {f \in executed : refund[f].order = o})

\* D2SAdminAlipayRefund up to its record: the number is new, the order is paid
\* and Alipay confirms the payment.
AskRefund(f, o, amount) ==
    /\ asking[f].pc = "idle" /\ refund[f].status = "none"
    /\ AlipayOrder(o) /\ order[o].status = "paid"
    /\ EnvMatches /\ trade[o] = "success"
    /\ asking' = [asking EXCEPT ![f] = [pc |-> "verified", order |-> o, amount |-> amount]]
    /\ UNCHANGED <<vars, page, trade, collected, executed, work, checked, bridged>>

\* CreateD2SAlipayRefund checks again and leaves the record of the call to come.
RecordRefund(f) ==
    /\ asking[f].pc = "verified"
    /\ CreateRefund(f, asking[f].order, asking[f].amount)
    /\ asking' = [asking EXCEPT ![f].pc = "created"]
    /\ UNCHANGED <<page, trade, collected, executed, work, checked, bridged>>

\* Alipay carries the refund out; a full refund closes the trade.
CallRefund(f, answered) ==
    LET o == asking[f].order
        total == Returned(o) + refund[f].amount
    IN  /\ asking[f].pc = "created"
        /\ trade[o] = "success" /\ total <= Gateway(order[o])
        /\ executed' = executed \cup {f}
        /\ trade' = [trade EXCEPT ![o] = IF total = Gateway(order[o]) THEN "closed" ELSE @]
        /\ asking' = [asking EXCEPT ![f] = IF answered THEN [@ EXCEPT !.pc = "confirmed"] ELSE NoAsk]
        /\ UNCHANGED <<vars, page, collected, work, checked, bridged>>

ConfirmRefund(f) ==
    /\ asking[f].pc = "confirmed"
    /\ CompleteRefund(f)
    /\ asking' = [asking EXCEPT ![f] = NoAsk]
    /\ UNCHANGED <<page, trade, collected, executed, work, checked, bridged>>

\* The request ends early: the audit row cannot be written, Alipay refuses or
\* does not answer, a transaction is refused, or the server stops.
EndRefund(f) ==
    /\ asking[f].pc # "idle"
    /\ asking' = [asking EXCEPT ![f] = NoAsk]
    /\ UNCHANGED <<vars, page, trade, collected, executed, work, checked, bridged>>

\* D2SAdminAlipayRefundReconcile: the trade of a pending refund is found paid.
CheckRefund(f) ==
    /\ refund[f].status = "pending" /\ f \notin checked
    /\ EnvMatches /\ trade[refund[f].order] = "success"
    /\ checked' = checked \cup {f}
    /\ UNCHANGED <<vars, page, trade, collected, executed, work, asking, bridged>>

\* Mutant: the answer to the query of the refund is not looked at.
ReconcileAnyRefund(f) ==
    /\ f \in checked
    /\ CompleteRefund(f)
    /\ checked' = checked \ {f}
    /\ UNCHANGED <<page, trade, collected, executed, work, asking, bridged>>

\* Then the refund itself is found carried out.  That does not change any more,
\* so its query and the transaction that follows are one step.
ReconcileRefund(f) ==
    /\ f \in checked /\ f \in executed
    /\ CompleteRefund(f)
    /\ checked' = checked \ {f}
    /\ UNCHANGED <<page, trade, collected, executed, work, asking, bridged>>

\* A query fails, the refund is not there yet, or the transaction is refused.
EndCheck(f) ==
    /\ f \in checked
    /\ checked' = checked \ {f}
    /\ UNCHANGED <<vars, page, trade, collected, executed, work, asking, bridged>>

-----------------------------------------------------------------------------
\* D2SPaymentWebhook, for an Alipay order: what the adapter says is not held
\* against Alipay.
Bridge(o) ==
    /\ AlipayOrder(o)
    /\ \/ /\ "paid" \in BridgeEvents
          /\ \E l \in Licenses : Paid(o, l)
          /\ bridged' = bridged
       \/ /\ "canceled" \in BridgeEvents /\ Canceled(o)
          /\ bridged' = bridged \cup {o}
       \/ /\ "chargeback" \in BridgeEvents /\ Chargeback(o)
          /\ bridged' = bridged \cup {o}
    /\ UNCHANGED <<page, trade, collected, executed, work, asking, checked>>

AlipayStep ==
    \/ \E o \in Orders : Checkout(o) \/ OpenTrade(o) \/ PayTrade(o) \/ LapseTrade(o)
    \/ \E o \in Orders, l \in Licenses : Notify(o, l)
    \/ RunReconciliation
    \/ \E a \in Admins, o \in Orders : CloseOrder(a, o)
    \/ \E a \in Agents, o \in Orders : Answered(a, o) \/ PassOver(a, o) \/ CancelOrder(a, o)
    \/ \E a \in Agents, o \in Orders, l \in Licenses : SettleQueried(a, o, l)
    \/ \E a \in Agents, o \in Orders, answered \in BOOLEAN : CloseTrade(a, o, answered)
    \/ \E a \in Agents : Restart(a)
    \/ \E f \in Refunds, o \in Orders, amount \in 1 .. MaxAmount : AskRefund(f, o, amount)
    \/ \E f \in Refunds : RecordRefund(f) \/ ConfirmRefund(f) \/ EndRefund(f)
    \/ \E f \in Refunds, answered \in BOOLEAN : CallRefund(f, answered)
    \/ \E f \in Refunds : CheckRefund(f) \/ ReconcileRefund(f) \/ EndCheck(f)
    \/ \E o \in Orders : Bridge(o)

\* The rest of the site: the events, the expiry and the refunds that D2SBilling
\* allows for Alipay orders at any time are those above.
OtherStep ==
    /\ BillingNext
    /\ \A o \in Orders : AlipayOrder(o) => order'[o] = order[o]
    /\ refund' = refund
    /\ UNCHANGED aliVars

AlipayNext == AlipayStep \/ OtherStep

AlipaySpec == BillingInit /\ AlipayInit /\ [][AlipayNext]_allVars

\* The minute ticker of the master node.  Alipay answers now and then, and
\* neither lost answers nor failed transactions nor restarts hit the same step
\* for the same order for ever.
AlipayFairness ==
    /\ WF_allVars(Tick /\ UNCHANGED <<billVars, aliVars>>)
    /\ WF_allVars(RunReconciliation)
    /\ \A o \in Orders :
        /\ SF_allVars(PassOver("recon", o))
        /\ SF_allVars(Answered("recon", o))
        /\ SF_allVars(\E l \in Licenses : SettleQueried("recon", o, l))
        /\ SF_allVars(CloseTrade("recon", o, TRUE))
        /\ SF_allVars(CancelOrder("recon", o))
-----------------------------------------------------------------------------
(* Properties.                                                             *)

\* The trades and the requests in hand have their types, and a refund that
\* Alipay has carried out is on record.
AlipayTypeOK ==
    /\ page \subseteq Orders
    /\ trade \in [Orders -> TradeStatus]
    /\ collected \subseteq Orders
    /\ executed \subseteq {f \in Refunds : refund[f].status # "none"}
    /\ work \in [Agents -> WorkRow]
    /\ asking \in [Refunds -> AskRow]
    /\ checked \subseteq Refunds
    /\ bridged \subseteq Orders

\* Unless the payment bridge says so, an order is canceled, and its reserved
\* share given back, only when Alipay has closed its trade unpaid: a buyer who
\* pays while the order is being closed is not left without a license.
CanceledIsUnpaid ==
    \A o \in Orders \ bridged : AlipayOrder(o) /\ order[o].status = "canceled"
                                => trade[o] = "closed" /\ o \notin collected

\* Unless the payment bridge says so, a license is taken back only when Alipay
\* has returned the whole payment; and what Alipay returned stands in the
\* records and never exceeds it, whichever answers were lost and whatever the
\* bridge said.
ReversedIsReturned ==
    \A o \in Orders : AlipayOrder(o) =>
        /\ order[o].status = "chargeback" /\ o \notin bridged => Returned(o) = Gateway(order[o])
        /\ order[o].refunded <= Returned(o)
        /\ Returned(o) <= order[o].refunded + RefundSum(o, "pending")

\* What makes ProcessD2SPaymentEvent refuse the payment of the pending order.
Refused(o) == ~Locked(o[1]) /\ \A l \in Licenses : ~ENABLED Paid(o, l)

\* Pending orders that the reconciliation takes before order o and can neither
\* settle nor cancel: those whose page was never opened, so that Alipay knows no
\* trade of them, and those whose payment is refused.
Stuck(o) == {p \in Pending \ {o} : /\ order[p].expires <= order[o].expires
                                   /\ trade[p] = "none" \/ Refused(p)}

\* They fill every round of the reconciliation.
Starved(o) == Cardinality(Stuck(o)) >= Batch

\* A payment Alipay collected settles its order, though its notification is
\* lost, unless the order can no longer be fulfilled, or older orders that never
\* end fill every round of the reconciliation from some time on.
PaidSettles ==
    \A o \in Orders :
        \/ <>[]Starved(o)
        \/ o \in collected ~> Settled(o) \/ Refused(o)

\* An order whose cashier page was opened does not stay pending beyond its
\* time, unless it was paid and cannot be fulfilled, or the reconciliation never
\* gets to it.
OpenedOrdersEnd ==
    \A o \in Orders :
        \/ <>[]Starved(o)
        \/ (trade[o] # "none" /\ order[o].expires <= MaxNow)
           ~> order[o].status # "pending" \/ Refused(o)

\* Whatever Alipay, the buyers and the administrators do, the tables change
\* only as D2SBilling allows.
ImplementsBilling == [][BillingNext]_vars
=============================================================================
