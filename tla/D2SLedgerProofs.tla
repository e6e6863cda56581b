--------------------------- MODULE D2SLedgerProofs ---------------------------
(***************************************************************************)
(* Proofs about the money and the goods: the balances agree with the       *)
(* orders, rewards and withdrawals they stand for, refunds are covered,    *)
(* every sold license and every counted revoke has its settled order, a    *)
(* reversed payment suspends its license for good, and money is only held  *)
(* by accounts of its region.                                              *)
(***************************************************************************)
EXTENDS D2SBillingProofs, SumTheorems

\* Rows that are not in use are empty, a settled order names its license, and a
\* refund its order.
BillingRows ==
    /\ \A o \in Orders : order[o].status = "none" => order[o] = NoOrder
    /\ \A o \in Orders : Settled(o) => order[o].license \in Licenses
    /\ \A f \in Refunds : refund[f].status # "none" => refund[f].order \in Orders

\* No order but o changes.
Others(o) == \A p \in Orders \ {o} : order'[p] = order[p]

\* What an order keeps once it exists.
SameTerms(o) ==
    /\ order'[o].product = order[o].product /\ order'[o].provider = order[o].provider
    /\ order'[o].region = order[o].region
    /\ order'[o].amount = order[o].amount /\ order'[o].balance = order[o].balance

\* An order is created and waits for its payment.
Opens(o) ==
    /\ Others(o)
    /\ order[o].status = "none" /\ order'[o].status = "pending"
    /\ order'[o].refunded = 0 /\ order'[o].amount - order'[o].balance >= 0
    /\ UNCHANGED <<licVars, refund>>

\* An order is settled and fulfilled with license l.
Settles(o, l) ==
    /\ Others(o)
    /\ \/ /\ order[o].status = "none" /\ order'[o].refunded = 0
          /\ order'[o].amount - order'[o].balance >= 0
       \/ /\ order[o].status = "pending" /\ SameTerms(o)
          /\ order'[o].refunded = order[o].refunded
    /\ order'[o].status = "paid" /\ order'[o].license = l
    /\ \/ order'[o].product = "license" /\ FulfillLicense(o[1], l)
       \/ order'[o].product = "paid_revoke" /\ \E n \in 1 .. MaxPaidRevokes : FulfillPaidRevoke(l, n)
       \/ order'[o].product = "offline_extension" /\ FulfillOfflineExtension(l)
    /\ refund' = refund

\* An order ends unpaid.
Ends(o) ==
    /\ Others(o) /\ SameTerms(o)
    /\ order[o].status = "pending" /\ order'[o].status = "canceled"
    /\ order'[o].refunded = order[o].refunded
    /\ UNCHANGED <<licVars, refund>>

\* A payment is reversed, or some of it refunded.
Returns(o) ==
    /\ Others(o) /\ SameTerms(o) /\ order'[o].license = order[o].license
    /\ order[o].status = "paid"
    /\ \/ order'[o].status = "chargeback" /\ SuspendLicense(order[o].license)
       \/ order'[o].status = "paid" /\ UNCHANGED licVars
    /\ \/ refund' = refund /\ order'[o].refunded = order[o].refunded
       \/ \E f \in Refunds :
             /\ refund[f].order = o /\ refund[f].status = "pending"
             /\ order'[o].refunded = order[o].refunded + refund[f].amount
             /\ refund' = [refund EXCEPT ![f] = [refund[f] EXCEPT !.status = "completed"]]

\* Orders, refunds and rewards stay as they are.
Quiet == UNCHANGED <<order, refund, reward>> /\ (LicensingStep \/ UNCHANGED licVars)

\* What a step does to the orders: one of these.
OrderCases ==
    \/ Quiet
    \/ \E o \in Orders : Opens(o) \/ Ends(o) \/ Returns(o)
    \/ \E o \in Orders, l \in Licenses : Settles(o, l)
    \/ \E f \in Refunds, o \in Orders, amount \in 1 .. MaxAmount : CreateRefund(f, o, amount)

\* What settling an order writes into its row, and what it fulfils.
LEMMA SettleWrites ==
    ASSUME BillingTypeOK, NEW o \in Orders, NEW row \in OrderRow, NEW l \in Licenses,
           NEW b, Settle(o, row, l, b)
    PROVE  /\ Others(o)
           /\ order'[o].status = "paid" /\ order'[o].license = l
           /\ order'[o].product = row.product /\ order'[o].provider = row.provider
           /\ order'[o].region = row.region
           /\ order'[o].amount = row.amount /\ order'[o].balance = row.balance
           /\ order'[o].refunded = row.refunded
           /\ \/ row.product = "license" /\ FulfillLicense(o[1], l)
              \/ row.product = "paid_revoke" /\ \E n \in 1 .. MaxPaidRevokes : FulfillPaidRevoke(l, n)
              \/ row.product = "offline_extension" /\ FulfillOfflineExtension(l)
  <1> DEFINE new == [row EXCEPT !.status = "paid", !.license = l]
  <1>1. /\ new.status = "paid" /\ new.license = l
        /\ new.product = row.product /\ new.provider = row.provider
        /\ new.region = row.region
        /\ new.amount = row.amount /\ new.balance = row.balance
        /\ new.refunded = row.refunded
    BY DEF OrderRow
  <1>2. order' = [order EXCEPT ![o] = new] /\ Fulfill(o[1], row, l)
    BY DEF Settle
  <1>3. FulfillPaidRevoke(l, row.n) => row.n \in 1 .. MaxPaidRevokes
    <2>1. Month(now) \in Months
      BY MonthOfNow DEF BillingTypeOK
    <2>2. quota[l][Month(now)] \in 0 .. MaxPaidRevokes
      BY <2>1 DEF BillingTypeOK, TypeOK
    <2>3. QED
      BY <2>2, LicensingAssumption DEF FulfillPaidRevoke
  <1> HIDE DEF new
  <1>4. order'[o] = new /\ Others(o)
    BY <1>2 DEF BillingTypeOK, Others
  <1>5. QED
    BY <1>1, <1>2, <1>3, <1>4 DEF Fulfill

\* A chargeback reverses its order.
LEMMA ChargebackReturns ==
    ASSUME BillingTypeOK, NEW o \in Orders, Chargeback(o)
    PROVE  Returns(o) /\ order'[o].status = "chargeback"
  <1> DEFINE new == [order[o] EXCEPT !.status = "chargeback"]
  <1>1. /\ order' = [order EXCEPT ![o] = new] /\ order[o].status = "paid"
        /\ order[o] \in OrderRow /\ refund' = refund /\ SuspendLicense(order[o].license)
    BY DEF Chargeback, BillingTypeOK
  <1>2. /\ new.status = "chargeback" /\ new.refunded = order[o].refunded
        /\ new.product = order[o].product /\ new.provider = order[o].provider
        /\ new.region = order[o].region /\ new.license = order[o].license
        /\ new.amount = order[o].amount /\ new.balance = order[o].balance
    BY <1>1 DEF OrderRow
  <1> HIDE DEF new
  <1>3. order'[o] = new /\ Others(o)
    BY <1>1 DEF BillingTypeOK, Others
  <1>4. QED
    BY <1>1, <1>2, <1>3 DEF Returns, SameTerms

\* A completed refund returns some of its order, and reverses it when that was all.
LEMMA RefundReturns ==
    ASSUME BillingTypeOK, BillingRows, NEW f \in Refunds, CompleteRefund(f)
    PROVE  LET o == refund[f].order
           IN  /\ o \in Orders /\ Returns(o)
               /\ \/ order'[o].status = "chargeback" /\ Reverse(o)
                  \/ order'[o].status = "paid" /\ UNCHANGED <<balance, reward>>
  <1> DEFINE o == refund[f].order
             sum == order[o].refunded + refund[f].amount
             st == IF sum = Gateway(order[o]) THEN "chargeback" ELSE "paid"
             new == [order[o] EXCEPT !.refunded = sum, !.status = st]
  <1>1. /\ order' = [order EXCEPT ![o] = new] /\ order[o].status = "paid"
        /\ refund[f].status = "pending"
        /\ refund' = [refund EXCEPT ![f] = [refund[f] EXCEPT !.status = "completed"]]
    BY DEF CompleteRefund
  <1>2. \/ st = "chargeback" /\ SuspendLicense(order[o].license) /\ Reverse(o)
        \/ st = "paid" /\ UNCHANGED <<licVars, balance, reward>>
    BY DEF CompleteRefund
  <1>3. o \in Orders /\ order[o] \in OrderRow
    BY <1>1 DEF BillingRows, BillingTypeOK
  <1> HIDE DEF sum, st
  <1>4. /\ new.status = st /\ new.refunded = sum
        /\ new.product = order[o].product /\ new.provider = order[o].provider
        /\ new.region = order[o].region /\ new.license = order[o].license
        /\ new.amount = order[o].amount /\ new.balance = order[o].balance
    BY <1>3 DEF OrderRow
  <1> HIDE DEF new
  <1>5. order'[o] = new /\ Others(o)
    BY <1>1, <1>3 DEF BillingTypeOK, Others
  <1>6. Returns(o)
    BY <1>1, <1>2, <1>4, <1>5 DEF Returns, SameTerms, sum
  <1>7. QED
    BY <1>2, <1>3, <1>4, <1>5, <1>6

\* Every step is one of these.
LEMMA NextOrderCases == BillingTypeOK /\ BillingRows /\ [BillingNext]_vars => OrderCases
  <1> SUFFICES ASSUME BillingTypeOK, BillingRows, [BillingNext]_vars PROVE OrderCases
    OBVIOUS
  <1>1. ASSUME NEW c \in call, NEW l \in Licenses \cup {None}, InsertOrder(c, l) PROVE OrderCases
    <2> DEFINE o == <<c.user, c.key>>
               row == NewOrder(c)
               held == Move(balance, <<c.user, c.region>>, -c.balance, c.balance)
    <2>1. o \in Orders /\ row \in OrderRow /\ order[o].status = "none"
      BY <1>1, InsertCases
    <2>2. /\ row.status = "pending" /\ row.refunded = 0
          /\ row.amount = Price[c.product] /\ row.balance = c.balance
      BY DEF NewOrder
    <2>3. \/ /\ order' = [order EXCEPT ![o] = row] /\ UNCHANGED licVars
             /\ Price[c.product] - c.balance > 0
          \/ /\ l \in Licenses /\ Settle(o, row, l, held)
             /\ Price[c.product] - c.balance = 0
      BY <1>1 DEF InsertOrder, NewOrder, Gateway
    <2>4. refund' = refund /\ row.amount \in Nat /\ row.balance \in Nat
      BY <1>1, <2>1 DEF InsertOrder, OrderRow
    <2> HIDE DEF o, row, held
    <2>5. CASE order' = [order EXCEPT ![o] = row] /\ UNCHANGED licVars
               /\ Price[c.product] - c.balance > 0
      <3>1. order'[o] = row /\ Others(o)
        BY <2>1, <2>5 DEF BillingTypeOK, Others
      <3>2. row.amount - row.balance >= 0
        BY <2>2, <2>4, <2>5
      <3>3. Opens(o)
        BY <2>1, <2>2, <2>4, <2>5, <3>1, <3>2 DEF Opens
      <3>4. QED
        BY <2>1, <3>3 DEF OrderCases
    <2>6. CASE l \in Licenses /\ Settle(o, row, l, held) /\ Price[c.product] - c.balance = 0
      <3>1. row.amount - row.balance >= 0
        BY <2>2, <2>4, <2>6
      <3>2. Settles(o, l)
        BY <2>1, <2>2, <2>4, <2>6, <3>1, SettleWrites DEF Settles
      <3>3. QED
        BY <2>1, <2>6, <3>2 DEF OrderCases
    <2>7. QED
      BY <2>3, <2>5, <2>6
  <1>2. ASSUME NEW o \in Orders, NEW l \in Licenses, Paid(o, l) PROVE OrderCases
    <2>1. order[o] \in OrderRow
      BY DEF BillingTypeOK
    <2>2. order[o].status = "pending" /\ Settle(o, order[o], l, balance) /\ refund' = refund
      BY <1>2 DEF Paid
    <2>3. Settles(o, l)
      BY <2>1, <2>2, SettleWrites DEF Settles, SameTerms
    <2>4. QED
      BY <2>3 DEF OrderCases
  <1>3. ASSUME NEW o \in Orders, Release(o) PROVE OrderCases
    <2> DEFINE new == [order[o] EXCEPT !.status = "canceled"]
    <2>1. /\ order' = [order EXCEPT ![o] = new] /\ order[o].status = "pending"
          /\ order[o] \in OrderRow /\ UNCHANGED <<licVars, refund>>
      BY <1>3 DEF Release, BillingTypeOK
    <2>2. /\ new.status = "canceled" /\ new.refunded = order[o].refunded
          /\ new.product = order[o].product /\ new.provider = order[o].provider
          /\ new.region = order[o].region
          /\ new.amount = order[o].amount /\ new.balance = order[o].balance
      BY <2>1 DEF OrderRow
    <2> HIDE DEF new
    <2>3. order'[o] = new /\ Others(o)
      BY <2>1 DEF BillingTypeOK, Others
    <2>4. Ends(o)
      BY <2>1, <2>2, <2>3 DEF Ends, SameTerms
    <2>5. QED
      BY <2>4 DEF OrderCases
  <1>4. ASSUME NEW o \in Orders, Chargeback(o) PROVE OrderCases
    BY <1>4, ChargebackReturns DEF OrderCases
  <1>5. ASSUME NEW f \in Refunds, CompleteRefund(f) PROVE OrderCases
    BY <1>5, RefundReturns DEF OrderCases
  <1>6. ASSUME NEW u \in Users, NEW k \in Keys, NEW product \in OnSale,
               NEW l \in Licenses \cup {None}, NEW provider \in Gateways \cup {"balance"},
               NEW n \in 0 .. MaxPaidRevokes, NEW b \in 0 .. MaxAmount,
               QuoteOrder(u, k, product, l, provider, n, b)
        PROVE  Quiet
    BY <1>6 DEF QuoteOrder, Quiet
  <1>7. ASSUME NEW c \in call, DropCall(c) PROVE Quiet
    BY <1>7 DEF DropCall, Quiet
  <1>8. ASSUME NEW u \in Users, CheckWithdrawal(u) \/ DropWithdrawal(u) PROVE Quiet
    BY <1>8 DEF CheckWithdrawal, DropWithdrawal, Quiet
  <1>9. ASSUME NEW w \in Withdrawals, NEW u \in Users, NEW amount \in 1 .. MaxAmount,
               CreateWithdrawal(w, u, amount)
        PROVE  Quiet
    BY <1>9 DEF CreateWithdrawal, Quiet
  <1>10. ASSUME NEW w \in Withdrawals, NEW status \in {"paid", "rejected"},
                ReviewWithdrawal(w, status)
         PROVE  Quiet
    BY <1>10 DEF ReviewWithdrawal, Quiet
  <1>11. ASSUME NEW u \in Users,
                DropRegion(u) \/ \E r \in Regions : CheckRegion(u, r) \/ SetRegion(u, r)
         PROVE  Quiet
    BY <1>11 DEF CheckRegion, SetRegion, DropRegion, Quiet
  <1>12. CASE (LicensingStep /\ UNCHANGED billVars) \/ UNCHANGED vars
    BY <1>12 DEF billVars, vars, Quiet, OrderCases
  <1>13. Quiet => OrderCases
    BY DEF OrderCases
  <1>14. ASSUME NEW f \in Refunds, NEW o \in Orders, NEW amount \in 1 .. MaxAmount,
                CreateRefund(f, o, amount)
         PROVE  OrderCases
    BY <1>14 DEF OrderCases
  <1>15. QED
    BY <1>1, <1>2, <1>3, <1>4, <1>5, <1>6, <1>7, <1>8, <1>9, <1>10, <1>11, <1>12, <1>13, <1>14
       DEF BillingNext, BillingStep, Canceled, ExpireOrder

\* No row is used before it is written.
LEMMA NextBillingRows == BillingTypeOK /\ BillingRows /\ OrderCases => BillingRows'
  <1> SUFFICES ASSUME BillingTypeOK, BillingRows, OrderCases PROVE BillingRows'
    OBVIOUS
  <1>0. BillingRows
    OBVIOUS
  <1>1. CASE Quiet
    BY <1>0, <1>1 DEF BillingRows, Quiet, Settled
  <1>2. ASSUME NEW o \in Orders, Opens(o) \/ Ends(o) PROVE BillingRows'
    BY <1>0, <1>2 DEF BillingRows, Opens, Ends, Others, Settled
  <1>3. ASSUME NEW o \in Orders, NEW l \in Licenses, Settles(o, l) PROVE BillingRows'
    BY <1>0, <1>3 DEF BillingRows, Settles, Others, Settled
  <1>4. ASSUME NEW o \in Orders, Returns(o) PROVE BillingRows'
    <2>1. \A p \in Orders : order'[p].status = "none" => order'[p] = NoOrder
      BY <1>0, <1>4 DEF BillingRows, Returns, Others
    <2>2. \A p \in Orders : order'[p].status \in {"paid", "chargeback"} => order'[p].license \in Licenses
      BY <1>0, <1>4 DEF BillingRows, Returns, Others, Settled
    <2>3. \A f \in Refunds : refund'[f].status # "none" => refund'[f].order \in Orders
      BY <1>0, <1>4 DEF BillingRows, BillingTypeOK, RefundRow, Returns
    <2>4. QED
      BY <2>1, <2>2, <2>3 DEF BillingRows, Settled
  <1>5. ASSUME NEW f \in Refunds, NEW o \in Orders, NEW amount \in 1 .. MaxAmount,
               CreateRefund(f, o, amount)
        PROVE  BillingRows'
    BY <1>0, <1>5 DEF BillingRows, BillingTypeOK, CreateRefund, Settled
  <1>6. QED
    BY <1>1, <1>2, <1>3, <1>4, <1>5 DEF OrderCases

\* The facts every proof below starts from.
BillingBase == BillingTypeOK /\ LicensingInv /\ BillingRows /\ RewardFollowsOrder

\* They hold in every reachable state, and every step is one of the cases.
THEOREM BillingBaseHolds == BillingSpec => []BillingBase
  <1>1. BillingInit => BillingRows
    BY DEF BillingInit, BillingRows, Settled, NoOrder, NoRefund
  <1>2. BillingTypeOK /\ BillingRows /\ [BillingNext]_vars => BillingRows'
    BY NextOrderCases, NextBillingRows
  <1>3. BillingSpec => []BillingRows
    BY <1>1, <1>2, BillingTypeCorrect, PTL DEF BillingSpec
  <1>4. BillingTypeOK /\ LicensingInv /\ BillingRows /\ RewardFollowsOrder => BillingBase
    BY DEF BillingBase
  <1>5. QED
    BY <1>3, <1>4, BillingTypeCorrect, LicensesStayConsistent, RewardsFollowOrders, PTL

-----------------------------------------------------------------------------
(* Licenses and their orders.                                              *)

\* A payment that was charged back or refunded in full leaves its license
\* suspended, whatever happens to the license afterwards (ProcessD2SPaymentEvent,
\* CompleteD2SAlipayRefund).
THEOREM ReversedStaysSuspended == BillingSpec => []ReversedIsSuspended
  <1>1. BillingInit => ReversedIsSuspended
    BY DEF BillingInit, ReversedIsSuspended, NoOrder
  <1>2. BillingBase /\ ReversedIsSuspended /\ [BillingNext]_vars => ReversedIsSuspended'
    <2> SUFFICES ASSUME BillingBase, ReversedIsSuspended, [BillingNext]_vars,
                        NEW p \in Orders, order'[p].status = "chargeback"
                 PROVE  license'[order'[p].license].status = "suspended"
      BY DEF ReversedIsSuspended
    <2>1. BillingTypeOK /\ TypeOK /\ LicensingInv /\ BillingRows /\ [Next]_licVars /\ OrderCases
      BY BillingStepRefines, NextOrderCases DEF BillingBase, BillingTypeOK
    <2>2. ASSUME order[p].status = "chargeback", order'[p].license = order[p].license
          PROVE  license'[order'[p].license].status = "suspended"
      <3>1. order[p].license \in Licenses
        BY <2>1, <2>2 DEF BillingRows, Settled
      <3>2. license[order[p].license].status = "suspended"
        BY <2>2 DEF ReversedIsSuspended
      <3>3. KeepsRow(order[p].license)
        BY <2>1, <3>1, <3>2, LicenseRowSteps
      <3>4. QED
        BY <2>2, <3>2, <3>3 DEF KeepsRow
    <2>3. ASSUME order[p].status = "paid", order'[p].license = order[p].license,
                 SuspendLicense(order[p].license)
          PROVE  license'[order'[p].license].status = "suspended"
      <3> DEFINE l == order[p].license
      <3>1. l \in Licenses /\ license \in [Licenses -> LicenseRow]
        BY <2>1, <2>3 DEF BillingRows, Settled, TypeOK
      <3>2. license' = [license EXCEPT ![l] = [license[l] EXCEPT !.status = "suspended"]]
        BY <2>3 DEF SuspendLicense
      <3>3. [license[l] EXCEPT !.status = "suspended"].status = "suspended"
        BY <3>1 DEF LicenseRow
      <3>4. QED
        BY <2>3, <3>1, <3>2, <3>3
    <2>4. \/ order[p].status = "chargeback" /\ order'[p].license = order[p].license
          \/ /\ order[p].status = "paid" /\ order'[p].license = order[p].license
             /\ SuspendLicense(order[p].license)
      BY <2>1 DEF OrderCases, Quiet, Opens, Ends, Returns, Settles, Others, CreateRefund
    <2>5. QED
      BY <2>2, <2>3, <2>4
  <1>3. QED
    BY <1>1, <1>2, BillingBaseHolds, PTL DEF BillingSpec

\* The settled orders that delivered license l.
Sales(l) == {o \in Orders : /\ Settled(o) /\ order[o].product = "license"
                            /\ order[o].license = l}

\* Every license that was sold has exactly one settled order, of its owner, and
\* every settled purchase its own license: a payment notified twice, or paid from
\* the balance while a notification is on its way, delivers once
\* (fulfillD2SOrderTx).
THEOREM LicensesSoldOnce == BillingSpec => []LicenseSoldOnce
  <1> DEFINE Ok(l) == IF license[l].status # "none" /\ license[l].kind = "paid"
                      THEN \E o \in Orders : Sales(l) = {o} /\ o[1] = license[l].user
                      ELSE Sales(l) = {}
  <1>0. LicenseSoldOnce <=> \A l \in Licenses : Ok(l)
    BY DEF LicenseSoldOnce, Sales
  <1>p. LicenseSoldOnce' <=> \A l \in Licenses : Ok(l)'
    BY DEF LicenseSoldOnce, Sales
  <1>1. BillingInit => LicenseSoldOnce
    BY DEF BillingInit, Init, LicenseSoldOnce, NoOrder, NoLicense, Settled
  <1>2. ASSUME BillingBase, LicenseSoldOnce, [BillingNext]_vars
        PROVE  LicenseSoldOnce'
    <2>1. /\ BillingTypeOK /\ TypeOK /\ LicensingInv /\ BillingRows /\ OrderCases
          /\ license \in [Licenses -> LicenseRow]
      BY <1>2, NextOrderCases DEF BillingBase, BillingTypeOK, TypeOK
    <2>2. ASSUME KeepsRows \/ UNCHANGED licVars, \A l \in Licenses : Sales(l)' = Sales(l)
          PROVE  LicenseSoldOnce'
      <3> SUFFICES ASSUME NEW l \in Licenses PROVE Ok(l)'
        BY <1>p
      <3>1. Ok(l) /\ Sales(l)' = Sales(l)
        BY <1>0, <1>2, <2>2
      <3>2. CASE UNCHANGED licVars
        BY <3>1, <3>2 DEF licVars
      <3>3. CASE KeepsRows /\ license[l].status # "none"
        <4>1. /\ license'[l].user = license[l].user /\ license'[l].kind = license[l].kind
              /\ license'[l].status # "none"
          BY <3>3 DEF KeepsRows, KeepsRow
        <4>2. QED
          BY <3>1, <3>3, <4>1
      <3>4. CASE KeepsRows /\ license[l].status = "none"
        <4>1. license'[l] = license[l] \/ license'[l].kind = "trial"
          BY <3>4 DEF KeepsRows
        <4>2. QED
          BY <3>1, <3>4, <4>1
      <3>5. QED
        BY <2>2, <3>2, <3>3, <3>4
    <2>3. ASSUME NEW o \in Orders, NEW l \in Licenses, Settles(o, l),
                 order'[o].product = "license", FulfillLicense(o[1], l)
          PROVE  LicenseSoldOnce'
      <3>1. /\ license[l].status = "none"
            /\ license'[l] = NewLicense(o[1], "paid")
            /\ \A k \in Licenses \ {l} : license'[k] = license[k]
        BY <2>1, <2>3 DEF FulfillLicense
      <3>2. /\ license'[l].status # "none" /\ license'[l].kind = "paid"
            /\ license'[l].user = o[1]
        BY <3>1 DEF NewLicense, NoLicense
      <3>3. Sales(l) = {}
        BY <1>0, <1>2, <3>1
      <3>4. \A k \in Licenses : Sales(k)' = IF k = l THEN Sales(k) \cup {o} ELSE Sales(k)
        BY <2>3 DEF Sales, Settles, Others, Settled
      <3>5. Ok(l)'
        BY <3>2, <3>3, <3>4
      <3>6. ASSUME NEW k \in Licenses, k # l PROVE Ok(k)'
        <4>1. Ok(k) /\ Sales(k)' = Sales(k) /\ license'[k] = license[k]
          BY <1>0, <1>2, <3>1, <3>4, <3>6
        <4>2. QED
          BY <4>1
      <3>7. QED
        BY <1>p, <3>5, <3>6
    <2>4. ASSUME NEW o \in Orders, NEW l \in Licenses, Settles(o, l),
                 order'[o].product # "license",
                 \/ \E n \in 1 .. MaxPaidRevokes : FulfillPaidRevoke(l, n)
                 \/ FulfillOfflineExtension(l)
          PROVE  LicenseSoldOnce'
      <3>1. KeepsRows
        BY <2>1, <2>4, EffectKeepsRows
      <3>2. \A k \in Licenses : Sales(k)' = Sales(k)
        BY <2>4 DEF Sales, Settles, Others, Settled
      <3>3. QED
        BY <2>2, <3>1, <3>2
    <2>5. ASSUME NEW o \in Orders, NEW l \in Licenses, Settles(o, l) PROVE LicenseSoldOnce'
      BY <2>3, <2>4, <2>5 DEF Settles
    <2>6. ASSUME NEW o \in Orders, Opens(o) \/ Ends(o) PROVE LicenseSoldOnce'
      <3>1. \A k \in Licenses : Sales(k)' = Sales(k)
        BY <2>6 DEF Sales, Opens, Ends, Others, Settled
      <3>2. QED
        BY <2>2, <2>6, <3>1 DEF Opens, Ends
    <2>7. ASSUME NEW o \in Orders, Returns(o) PROVE LicenseSoldOnce'
      <3>1. \A k \in Licenses : Sales(k)' = Sales(k)
        BY <2>7 DEF Sales, Returns, SameTerms, Others, Settled
      <3>2. order[o].license \in Licenses
        BY <2>1, <2>7 DEF Returns, BillingRows, Settled
      <3>3. KeepsRows \/ UNCHANGED licVars
        BY <2>1, <2>7, <3>2, EffectKeepsRows DEF Returns
      <3>4. QED
        BY <2>2, <3>1, <3>3
    <2>8. ASSUME UNCHANGED order, LicensingStep \/ UNCHANGED licVars PROVE LicenseSoldOnce'
      <3>1. \A k \in Licenses : Sales(k)' = Sales(k)
        BY <2>8 DEF Sales, Settled
      <3>2. QED
        BY <2>1, <2>2, <2>8, <3>1, OwnStepKeepsRows
    <2>9. QED
      BY <2>1, <2>5, <2>6, <2>7, <2>8 DEF OrderCases, Quiet, CreateRefund
  <1>3. QED
    BY <1>1, <1>2, BillingBaseHolds, PTL DEF BillingSpec

\* There are finitely many orders and months.
LEMMA FiniteTables ==
    /\ IsFiniteSet(Orders) /\ IsFiniteSet(Withdrawals) /\ IsFiniteSet(Refunds)
    /\ IsFiniteSet(Months)
  <1>1. IsFiniteSet(Orders) /\ IsFiniteSet(Withdrawals) /\ IsFiniteSet(Refunds)
    BY BillingAssumption, FS_Product DEF Orders
  <1>2. IsFiniteSet(Months)
    <2>1. MaxNow \div MonthLength \in Int
      BY LicensingAssumption, Z3
    <2>2. QED
      BY <2>1, FS_Interval DEF Months
  <1>3. QED
    BY <1>1, <1>2

\* The settled orders that revoked license l.
Revokes(l) == {o \in Orders : /\ Settled(o) /\ order[o].product = "paid_revoke"
                              /\ order[o].license = l}

\* The monthly counters of a license add up to its settled revoke orders: no
\* revoke is free, none is counted twice, and none is lost when the month changes
\* between the quote and the payment (fulfillD2SOrderTx).
THEOREM RevokesAreCounted == BillingSpec => []RevokesCounted
  <1> DEFINE Ok(l) == SumFunctionOnSet(quota[l], Months) = Cardinality(Revokes(l))
  <1>0. RevokesCounted <=> \A l \in Licenses : Ok(l)
    BY DEF RevokesCounted, Revokes
  <1>p. RevokesCounted' <=> \A l \in Licenses : Ok(l)'
    BY DEF RevokesCounted, Revokes
  <1>1. BillingInit => RevokesCounted
    <2> SUFFICES ASSUME BillingInit, NEW l \in Licenses PROVE Ok(l)
      BY <1>0
    <2>1. Revokes(l) = {}
      BY DEF BillingInit, Revokes, Settled, NoOrder
    <2> DEFINE zero == [m \in Months |-> 0]
    <2>2. quota[l] = zero
      BY DEF BillingInit, Init
    <2>3. SumFunctionOnSet(zero, Months) = 0
      BY FiniteTables, SumZero
    <2>4. QED
      BY <2>1, <2>2, <2>3, FS_EmptySet
  <1>2. ASSUME BillingBase, RevokesCounted, [BillingNext]_vars
        PROVE  RevokesCounted'
    <2>1. /\ BillingTypeOK /\ TypeOK /\ BillingRows /\ OrderCases
          /\ quota \in [Licenses -> [Months -> 0 .. MaxPaidRevokes]]
      BY <1>2, NextOrderCases DEF BillingBase, BillingTypeOK, TypeOK
    <2>2. ASSUME quota' = quota, \A l \in Licenses : Revokes(l)' = Revokes(l)
          PROVE  RevokesCounted'
      <3>1. \A l \in Licenses : Ok(l)'
        BY <1>0, <1>2, <2>2
      <3>2. QED
        BY <1>p, <3>1
    <2>3. ASSUME NEW o \in Orders, NEW l \in Licenses, Settles(o, l),
                 order'[o].product = "paid_revoke",
                 NEW n \in 1 .. MaxPaidRevokes, FulfillPaidRevoke(l, n)
          PROVE  RevokesCounted'
      <3> DEFINE m == Month(now)
      <3>1. m \in Months
        BY <2>1, MonthOfNow
      <3>2. /\ quota'[l] = [quota[l] EXCEPT ![m] = n] /\ quota[l][m] + 1 = n
            /\ \A k \in Licenses \ {l} : quota'[k] = quota[k]
        BY <2>1, <2>3 DEF FulfillPaidRevoke
      <3> HIDE DEF m
      <3>3. \A k \in Licenses : Revokes(k)' = IF k = l THEN Revokes(k) \cup {o} ELSE Revokes(k)
        BY <2>3 DEF Revokes, Settles, Others, Settled
      <3>4. o \notin Revokes(l)
        BY <2>3 DEF Revokes, Settles, Settled
      <3>5. Ok(l)'
        <4>1. Cardinality(Revokes(l)') = Cardinality(Revokes(l)) + 1 /\ Cardinality(Revokes(l)) \in Nat
          <5>1. IsFiniteSet(Revokes(l))
            BY FiniteTables, FS_Subset DEF Revokes
          <5>2. QED
            BY <3>3, <3>4, <5>1, FS_AddElement, FS_CardinalityType
        <4>2. /\ quota[l] \in [Months -> 0 .. MaxPaidRevokes]
              /\ \A x \in Months : quota[l][x] \in Int /\ quota'[l][x] \in Int
              /\ \A x \in Months \ {m} : quota[l][x] = quota'[l][x]
          BY <2>1, <3>2
        <4>3. SumFunctionOnSet(quota'[l], Months) =
                SumFunctionOnSet(quota[l], Months) - Part(quota[l], Months, m) + Part(quota'[l], Months, m)
          BY <4>2, FiniteTables, SumChange
        <4>4. Part(quota[l], Months, m) = quota[l][m] /\ Part(quota'[l], Months, m) = quota[l][m] + 1
          BY <3>1, <3>2, <4>2 DEF Part
        <4>5. SumFunctionOnSet(quota[l], Months) \in Int /\ quota[l][m] \in Int
          BY <3>1, <4>2, FiniteTables, SumInt
        <4>6. SumFunctionOnSet(quota[l], Months) = Cardinality(Revokes(l))
          BY <1>0, <1>2
        <4>7. QED
          BY <4>1, <4>3, <4>4, <4>5, <4>6
      <3>6. ASSUME NEW k \in Licenses, k # l PROVE Ok(k)'
        <4>1. Ok(k) /\ Revokes(k)' = Revokes(k) /\ quota'[k] = quota[k]
          BY <1>0, <1>2, <3>2, <3>3, <3>6
        <4>2. QED
          BY <4>1
      <3>7. QED
        BY <1>p, <3>5, <3>6
    <2>4. ASSUME NEW o \in Orders, NEW l \in Licenses, Settles(o, l),
                 order'[o].product # "paid_revoke",
                 FulfillLicense(o[1], l) \/ FulfillOfflineExtension(l)
          PROVE  RevokesCounted'
      <3>1. \A k \in Licenses : Revokes(k)' = Revokes(k)
        BY <2>4 DEF Revokes, Settles, Others, Settled
      <3>2. QED
        BY <2>2, <2>4, <3>1 DEF FulfillLicense, FulfillOfflineExtension
    <2>5. ASSUME NEW o \in Orders, NEW l \in Licenses, Settles(o, l) PROVE RevokesCounted'
      BY <2>3, <2>4, <2>5 DEF Settles
    <2>6. ASSUME NEW o \in Orders, Opens(o) \/ Ends(o) PROVE RevokesCounted'
      <3>1. \A k \in Licenses : Revokes(k)' = Revokes(k)
        BY <2>6 DEF Revokes, Opens, Ends, Others, Settled
      <3>2. QED
        BY <2>2, <2>6, <3>1 DEF Opens, Ends, licVars
    <2>7. ASSUME NEW o \in Orders, Returns(o) PROVE RevokesCounted'
      <3>1. \A k \in Licenses : Revokes(k)' = Revokes(k)
        BY <2>7 DEF Revokes, Returns, SameTerms, Others, Settled
      <3>2. QED
        BY <2>2, <2>7, <3>1 DEF Returns, SuspendLicense, licVars
    <2>8. ASSUME UNCHANGED order, LicensingStep \/ UNCHANGED licVars PROVE RevokesCounted'
      <3>1. \A k \in Licenses : Revokes(k)' = Revokes(k)
        BY <2>8 DEF Revokes, Settled
      <3>2. quota' = quota
        BY <2>8 DEF LicensingStep, licVars, EnsureProfileAndTrial, Bind, ChangeMode, FreeRevoke,
             StartOrRenewLease, ReleaseLease, ReleaseAllLeases, DeleteExpiredLeases,
             CreateManualUnbind, ApproveManualUnbind, RejectManualUnbind,
             IssueOfflineEntitlement, DeleteAccount, Tick
      <3>3. QED
        BY <2>2, <3>1, <3>2
    <2>9. QED
      BY <2>1, <2>5, <2>6, <2>7, <2>8 DEF OrderCases, Quiet, CreateRefund
  <1>3. QED
    BY <1>1, <1>2, BillingBaseHolds, PTL DEF BillingSpec

-----------------------------------------------------------------------------
(* Refunds.                                                                *)

\* What a refund adds to the refunds of an order in one state.
Due(f, o, status) ==
    IF refund[f].order = o /\ refund[f].status = status THEN refund[f].amount ELSE 0

\* When one refund changes, the sums change by what it adds.
LEMMA RefundChange ==
    ASSUME refund \in [Refunds -> RefundRow], refund' \in [Refunds -> RefundRow],
           NEW f \in Refunds, \A g \in Refunds \ {f} : refund'[g] = refund[g],
           NEW o, NEW status
    PROVE  /\ RefundSum(o, status) \in Nat /\ RefundSum(o, status)' \in Nat
           /\ Due(f, o, status) \in Nat /\ Due(f, o, status)' \in Nat
           /\ RefundSum(o, status)' = RefundSum(o, status) - Due(f, o, status) + Due(f, o, status)'
  <1> DEFINE S == {g \in Refunds : refund[g].order = o /\ refund[g].status = status}
             T == {g \in Refunds : refund'[g].order = o /\ refund'[g].status = status}
             amt == [g \in Refunds |-> refund[g].amount]
             new == [g \in Refunds |-> refund'[g].amount]
  <1>1. RefundSum(o, status) = SumFunctionOnSet(amt, S) /\ RefundSum(o, status)' = SumFunctionOnSet(new, T)
    BY DEF RefundSum
  <1>2. \A g \in Refunds : amt[g] \in Nat /\ new[g] \in Nat
    BY DEF RefundRow
  <1>3. IsFiniteSet(S) /\ IsFiniteSet(T) /\ S \subseteq Refunds /\ T \subseteq Refunds
    BY FiniteTables, FS_Subset
  <1>4. S \ {f} = T \ {f} /\ \A g \in S \ {f} : amt[g] = new[g]
    OBVIOUS
  <1>5. Part(amt, S, f) = Due(f, o, status) /\ Part(new, T, f) = Due(f, o, status)'
    BY DEF Part, Due
  <1>6. Due(f, o, status) \in Nat /\ Due(f, o, status)' \in Nat
    BY DEF Due, RefundRow
  <1> HIDE DEF S, T, amt, new
  <1>7. SumFunctionOnSet(amt, S) \in Nat /\ SumFunctionOnSet(new, T) \in Nat
    BY <1>2, <1>3, SumNat
  <1>8. SumFunctionOnSet(new, T) = SumFunctionOnSet(amt, S) - Part(amt, S, f) + Part(new, T, f)
    BY <1>2, <1>3, <1>4, SumChange
  <1>9. QED
    BY <1>1, <1>5, <1>6, <1>7, <1>8

\* Refunds in hand and completed never exceed what the buyer paid to the gateway,
\* and the order's total is the sum of the completed ones, however many
\* administrators refund the same order at once (CreateD2SAlipayRefund,
\* CompleteD2SAlipayRefund).
THEOREM RefundsAreCovered == BillingSpec => []RefundsCovered
  <1> DEFINE Ok(o) == /\ order[o].refunded = RefundSum(o, "completed")
                      /\ order[o].refunded + RefundSum(o, "pending")
                           <= order[o].amount - order[o].balance
  <1>0. RefundsCovered <=> \A o \in Orders : Ok(o)
    BY DEF RefundsCovered, Gateway
  <1>p. RefundsCovered' <=> \A o \in Orders : Ok(o)'
    BY DEF RefundsCovered, Gateway
  <1>1. BillingInit => RefundsCovered
    <2> SUFFICES ASSUME BillingInit, NEW o \in Orders PROVE Ok(o)
      BY <1>0
    <2>1. \A st \in {"pending", "completed"} :
            {f \in Refunds : refund[f].order = o /\ refund[f].status = st} = {}
      BY DEF BillingInit, NoRefund
    <2>2. RefundSum(o, "completed") = 0 /\ RefundSum(o, "pending") = 0
      BY <2>1, SumEmpty DEF RefundSum
    <2>3. order[o].refunded = 0 /\ order[o].amount = 0 /\ order[o].balance = 0
      BY DEF BillingInit, NoOrder
    <2>4. QED
      BY <2>2, <2>3
  <1>2. ASSUME BillingBase, RefundsCovered, [BillingNext]_vars
        PROVE  RefundsCovered'
    <2>1. /\ BillingTypeOK /\ BillingTypeOK' /\ BillingRows /\ OrderCases
          /\ refund \in [Refunds -> RefundRow] /\ refund' \in [Refunds -> RefundRow]
      BY <1>2, NextOrderCases, NextBillingTypeOK DEF BillingBase, BillingTypeOK
    <2>2. \A p \in Orders : /\ order[p].refunded \in Nat /\ order[p].amount \in Nat
                            /\ order[p].balance \in Nat
      BY <2>1 DEF BillingTypeOK, OrderRow
    <2>3. ASSUME refund' = refund
          PROVE  \A p, st : RefundSum(p, st)' = RefundSum(p, st)
      BY <2>3 DEF RefundSum
    <2>4. ASSUME NEW o \in Orders, Others(o), refund' = refund,
                 \/ /\ order[o].status = "none" /\ order'[o].refunded = 0
                    /\ order'[o].amount - order'[o].balance >= 0
                 \/ SameTerms(o) /\ order'[o].refunded = order[o].refunded
          PROVE  RefundsCovered'
      <3>1. ASSUME NEW p \in Orders PROVE Ok(p)'
        <4>1. /\ Ok(p) /\ RefundSum(p, "completed")' = RefundSum(p, "completed")
              /\ RefundSum(p, "pending")' = RefundSum(p, "pending")
          BY <1>0, <1>2, <2>3, <2>4
        <4>2. CASE /\ p = o /\ order[o].status = "none" /\ order'[o].refunded = 0
                   /\ order'[o].amount - order'[o].balance >= 0
          <5>1. order[p].refunded = 0 /\ order[p].amount = 0 /\ order[p].balance = 0
            BY <2>1, <4>2 DEF BillingRows, NoOrder
          <5>2. RefundSum(p, "completed") = 0 /\ RefundSum(p, "pending") \in Nat
            <6>1. RefundSum(p, "pending") \in Nat
              <7> DEFINE S == {f \in Refunds : refund[f].order = p /\ refund[f].status = "pending"}
                         amt == [f \in Refunds |-> refund[f].amount]
              <7>1. IsFiniteSet(S) /\ \A f \in S : amt[f] \in Nat
                BY <2>1, FiniteTables, FS_Subset DEF RefundRow
              <7>2. QED
                BY <7>1, SumNat DEF RefundSum
            <6>2. QED
              BY <4>1, <5>1, <6>1
          <5>3. RefundSum(p, "pending") = 0
            BY <4>1, <5>1, <5>2
          <5>4. order'[p].amount \in Nat /\ order'[p].balance \in Nat
            BY <2>1 DEF BillingTypeOK, OrderRow
          <5>5. QED
            BY <4>1, <4>2, <5>2, <5>3, <5>4
        <4>3. CASE SameTerms(p) /\ order'[p].refunded = order[p].refunded
          BY <4>1, <4>3 DEF SameTerms
        <4>4. CASE order'[p] = order[p]
          BY <4>1, <4>4
        <4>5. QED
          BY <2>4, <4>2, <4>3, <4>4 DEF Others
      <3>2. QED
        BY <1>p, <3>1
    <2>5. ASSUME NEW o \in Orders, NEW f \in Refunds, Others(o), SameTerms(o),
                 refund[f].order = o, refund[f].status = "pending",
                 order'[o].refunded = order[o].refunded + refund[f].amount,
                 refund' = [refund EXCEPT ![f] = [refund[f] EXCEPT !.status = "completed"]]
          PROVE  RefundsCovered'
      <3>1. /\ refund'[f].order = o /\ refund'[f].status = "completed"
            /\ refund'[f].amount = refund[f].amount /\ refund[f].amount \in Nat
            /\ \A g \in Refunds \ {f} : refund'[g] = refund[g]
        BY <2>1, <2>5 DEF RefundRow
      <3>2. ASSUME NEW p \in Orders PROVE Ok(p)'
        <4> DEFINE done == RefundSum(p, "completed")
                   open == RefundSum(p, "pending")
                   x == IF p = o THEN refund[f].amount ELSE 0
        <4>1. /\ Due(f, p, "completed") = 0 /\ Due(f, p, "completed")' = x
              /\ Due(f, p, "pending") = x /\ Due(f, p, "pending")' = 0
          BY <2>5, <3>1 DEF Due
        <4>2. done \in Nat /\ done' \in Nat /\ done' = done - 0 + x
          BY <2>1, <3>1, <4>1, RefundChange
        <4>3. open \in Nat /\ open' \in Nat /\ open' = open - x + 0
          BY <2>1, <3>1, <4>1, RefundChange
        <4>4. Ok(p)
          BY <1>0, <1>2
        <4>5. /\ order'[p].refunded = order[p].refunded + x
              /\ order'[p].amount = order[p].amount /\ order'[p].balance = order[p].balance
          <5>1. CASE p = o
            BY <2>5, <5>1 DEF SameTerms
          <5>2. CASE p # o
            BY <2>2, <2>5, <5>2 DEF Others
          <5>3. QED
            BY <5>1, <5>2
        <4>6. x \in Nat
          BY <3>1
        <4> HIDE DEF done, open, x
        <4>7. /\ order'[p].refunded = done'
              /\ order'[p].refunded + open' <= order'[p].amount - order'[p].balance
          <5>1. order[p].refunded = done /\ order[p].refunded + open <= order[p].amount - order[p].balance
            BY <4>4 DEF done, open
          <5>2. QED
            BY <2>2, <4>2, <4>3, <4>5, <4>6, <5>1
        <4>8. QED
          BY <4>7 DEF done, open
      <3>3. QED
        BY <1>p, <3>2
    <2>6. ASSUME NEW f \in Refunds, NEW o \in Orders, NEW amount \in 1 .. MaxAmount,
                 CreateRefund(f, o, amount)
          PROVE  RefundsCovered'
      <3>1. /\ refund'[f].order = o /\ refund'[f].status = "pending" /\ refund'[f].amount = amount
            /\ refund[f].status = "none" /\ order' = order
            /\ \A g \in Refunds \ {f} : refund'[g] = refund[g]
            /\ amount <= order[o].amount - order[o].balance - order[o].refunded - RefundSum(o, "pending")
        BY <2>1, <2>6 DEF CreateRefund, Gateway
      <3>2. ASSUME NEW p \in Orders PROVE Ok(p)'
        <4> DEFINE done == RefundSum(p, "completed")
                   open == RefundSum(p, "pending")
                   x == IF p = o THEN amount ELSE 0
        <4>1. /\ Due(f, p, "completed") = 0 /\ Due(f, p, "completed")' = 0
              /\ Due(f, p, "pending") = 0 /\ Due(f, p, "pending")' = x
          BY <3>1 DEF Due
        <4>2. done \in Nat /\ done' \in Nat /\ done' = done - 0 + 0
          BY <2>1, <3>1, <4>1, RefundChange
        <4>3. open \in Nat /\ open' \in Nat /\ open' = open - 0 + x
          BY <2>1, <3>1, <4>1, RefundChange
        <4>4. Ok(p)
          BY <1>0, <1>2
        <4>5. x \in Int /\ (p = o => x <= order[p].amount - order[p].balance - order[p].refunded - open)
              /\ (p # o => x = 0)
          BY <3>1
        <4> HIDE DEF done, open, x
        <4>6. /\ order'[p].refunded = done'
              /\ order'[p].refunded + open' <= order'[p].amount - order'[p].balance
          <5>1. order[p].refunded = done /\ order[p].refunded + open <= order[p].amount - order[p].balance
            BY <4>4 DEF done, open
          <5>2. QED
            BY <2>2, <3>1, <4>2, <4>3, <4>5, <5>1
        <4>7. QED
          BY <4>6 DEF done, open
      <3>3. QED
        BY <1>p, <3>2
    <2>7. CASE Quiet
      <3>1. \A p \in Orders : Ok(p)'
        BY <1>0, <1>2, <2>3, <2>7 DEF Quiet
      <3>2. QED
        BY <1>p, <3>1
    <2>8. ASSUME NEW o \in Orders, Opens(o) \/ Ends(o) PROVE RefundsCovered'
      BY <2>4, <2>8 DEF Opens, Ends
    <2>9. ASSUME NEW o \in Orders, NEW l \in Licenses, Settles(o, l) PROVE RefundsCovered'
      BY <2>4, <2>9 DEF Settles
    <2>10. ASSUME NEW o \in Orders, Returns(o) PROVE RefundsCovered'
      BY <2>4, <2>5, <2>10 DEF Returns
    <2>11. QED
      BY <2>1, <2>6, <2>7, <2>8, <2>9, <2>10 DEF OrderCases
  <1>3. QED
    BY <1>1, <1>2, BillingBaseHolds, PTL DEF BillingSpec

-----------------------------------------------------------------------------
(* Balances.                                                               *)

\* The states in which an order has taken its share of the balance.
Taken == {"pending", "paid", "chargeback"}

\* What order o holds of account a, while its state is one of the given.
Held(o, a, states) ==
    IF o[1] = a[1] /\ order[o].region = a[2] /\ order[o].status \in states
    THEN order[o].balance ELSE 0

\* What withdrawal w holds of account a.
Drawn(w, a, states) ==
    IF a = <<withdrawal[w].user, "CN">> /\ withdrawal[w].status \in states
    THEN withdrawal[w].amount ELSE 0

\* What the reward of order o adds to account a.
Bonus(o, a) ==
    IF reward[o] = "credited" /\ a = <<Inviter[o[1]], order[o].region>> THEN RewardAmount ELSE 0

\* When one order changes, the shares change by what it holds.
LEMMA OrderSharesChange ==
    ASSUME BillingTypeOK, BillingTypeOK', NEW o \in Orders, Others(o), NEW a, NEW states
    PROVE  /\ OrderShares(a, states) \in Nat /\ OrderShares(a, states)' \in Nat
           /\ Held(o, a, states) \in Nat /\ Held(o, a, states)' \in Nat
           /\ OrderShares(a, states)' = OrderShares(a, states) - Held(o, a, states) + Held(o, a, states)'
  <1> DEFINE S == {p \in Orders : p[1] = a[1] /\ order[p].region = a[2] /\ order[p].status \in states}
             T == {p \in Orders : p[1] = a[1] /\ order'[p].region = a[2] /\ order'[p].status \in states}
             bal == [p \in Orders |-> order[p].balance]
             new == [p \in Orders |-> order'[p].balance]
  <1>1. /\ OrderShares(a, states) = SumFunctionOnSet(bal, S)
        /\ OrderShares(a, states)' = SumFunctionOnSet(new, T)
    BY DEF OrderShares
  <1>2. \A p \in Orders : bal[p] \in Nat /\ new[p] \in Nat
    BY DEF BillingTypeOK, OrderRow
  <1>3. IsFiniteSet(S) /\ IsFiniteSet(T) /\ S \subseteq Orders /\ T \subseteq Orders
    BY FiniteTables, FS_Subset
  <1>4. S \ {o} = T \ {o} /\ \A p \in S \ {o} : bal[p] = new[p]
    BY DEF Others
  <1>5. Part(bal, S, o) = Held(o, a, states) /\ Part(new, T, o) = Held(o, a, states)'
    BY DEF Part, Held
  <1>6. Held(o, a, states) \in Nat /\ Held(o, a, states)' \in Nat
    BY DEF Held, BillingTypeOK, OrderRow
  <1> HIDE DEF S, T, bal, new
  <1>7. SumFunctionOnSet(bal, S) \in Nat /\ SumFunctionOnSet(new, T) \in Nat
    BY <1>2, <1>3, SumNat
  <1>8. SumFunctionOnSet(new, T) = SumFunctionOnSet(bal, S) - Part(bal, S, o) + Part(new, T, o)
    BY <1>2, <1>3, <1>4, SumChange
  <1>9. QED
    BY <1>1, <1>5, <1>6, <1>7, <1>8

\* The same for withdrawals.
LEMMA WithdrawalSharesChange ==
    ASSUME BillingTypeOK, BillingTypeOK', NEW w \in Withdrawals,
           \A v \in Withdrawals \ {w} : withdrawal'[v] = withdrawal[v], NEW a, NEW states
    PROVE  /\ WithdrawalShares(a, states) \in Nat /\ WithdrawalShares(a, states)' \in Nat
           /\ Drawn(w, a, states) \in Nat /\ Drawn(w, a, states)' \in Nat
           /\ WithdrawalShares(a, states)' =
                WithdrawalShares(a, states) - Drawn(w, a, states) + Drawn(w, a, states)'
  <1> DEFINE S == {v \in Withdrawals : a = <<withdrawal[v].user, "CN">> /\ withdrawal[v].status \in states}
             T == {v \in Withdrawals : a = <<withdrawal'[v].user, "CN">> /\ withdrawal'[v].status \in states}
             amt == [v \in Withdrawals |-> withdrawal[v].amount]
             new == [v \in Withdrawals |-> withdrawal'[v].amount]
  <1>1. /\ WithdrawalShares(a, states) = SumFunctionOnSet(amt, S)
        /\ WithdrawalShares(a, states)' = SumFunctionOnSet(new, T)
    BY DEF WithdrawalShares
  <1>2. \A v \in Withdrawals : amt[v] \in Nat /\ new[v] \in Nat
    BY DEF BillingTypeOK, WithdrawalRow
  <1>3. IsFiniteSet(S) /\ IsFiniteSet(T) /\ S \subseteq Withdrawals /\ T \subseteq Withdrawals
    BY FiniteTables, FS_Subset
  <1>4. S \ {w} = T \ {w} /\ \A v \in S \ {w} : amt[v] = new[v]
    OBVIOUS
  <1>5. Part(amt, S, w) = Drawn(w, a, states) /\ Part(new, T, w) = Drawn(w, a, states)'
    BY DEF Part, Drawn
  <1>6. Drawn(w, a, states) \in Nat /\ Drawn(w, a, states)' \in Nat
    BY DEF Drawn, BillingTypeOK, WithdrawalRow
  <1> HIDE DEF S, T, amt, new
  <1>7. SumFunctionOnSet(amt, S) \in Nat /\ SumFunctionOnSet(new, T) \in Nat
    BY <1>2, <1>3, SumNat
  <1>8. SumFunctionOnSet(new, T) = SumFunctionOnSet(amt, S) - Part(amt, S, w) + Part(new, T, w)
    BY <1>2, <1>3, <1>4, SumChange
  <1>9. QED
    BY <1>1, <1>5, <1>6, <1>7, <1>8

\* The same for rewards.
LEMMA CreditedChange ==
    ASSUME NEW o \in Orders, Others(o), \A p \in Orders \ {o} : reward'[p] = reward[p], NEW a
    PROVE  /\ Credited(a) \in Nat /\ Credited(a)' \in Nat
           /\ Bonus(o, a) \in Nat /\ Bonus(o, a)' \in Nat
           /\ Credited(a)' = Credited(a) - Bonus(o, a) + Bonus(o, a)'
  <1> DEFINE S == {p \in Orders : reward[p] = "credited" /\ a = <<Inviter[p[1]], order[p].region>>}
             T == {p \in Orders : reward'[p] = "credited" /\ a = <<Inviter[p[1]], order'[p].region>>}
             n == Cardinality(S)
             m == Cardinality(T)
             x == IF o \in S THEN 1 ELSE 0
             y == IF o \in T THEN 1 ELSE 0
  <1>1. Credited(a) = RewardAmount * n /\ Credited(a)' = RewardAmount * m
    BY DEF Credited
  <1>2. IsFiniteSet(S) /\ IsFiniteSet(T)
    BY FiniteTables, FS_Subset
  <1>3. S \ {o} = T \ {o}
    BY DEF Others
  <1>4. RewardAmount \in Nat
    BY BillingAssumption
  <1>5. Bonus(o, a) = RewardAmount * x /\ Bonus(o, a)' = RewardAmount * y
    BY <1>4 DEF Bonus
  <1> HIDE DEF S, T
  <1>6. n \in Nat /\ m \in Nat /\ m = n - x + y
    BY <1>2, <1>3, CardinalityChange
  <1>7. x \in {0, 1} /\ y \in {0, 1}
    OBVIOUS
  <1> HIDE DEF n, m, x, y
  <1>8. RewardAmount * m = RewardAmount * n - RewardAmount * x + RewardAmount * y
    BY <1>4, <1>6, <1>7
  <1>9. /\ RewardAmount * n \in Nat /\ RewardAmount * m \in Nat
        /\ RewardAmount * x \in Nat /\ RewardAmount * y \in Nat
    BY <1>4, <1>6, <1>7
  <1>10. QED
    BY <1>1, <1>5, <1>8, <1>9

\* A step on one order books in the balances what it changes in the order and
\* its reward.
Booked(o) ==
    /\ Others(o) /\ \A p \in Orders \ {o} : reward'[p] = reward[p]
    /\ withdrawal' = withdrawal
    /\ \A a \in Accounts :
          /\ balance'[a].reserved
               = balance[a].reserved - Held(o, a, {"pending"}) + Held(o, a, {"pending"})'
          /\ balance'[a].available
               = balance[a].available - Bonus(o, a) + Bonus(o, a)'
                 + Held(o, a, Taken) - Held(o, a, Taken)'

\* A step on one withdrawal books what it changes in the withdrawal.
Booking(w) ==
    /\ UNCHANGED <<order, reward>>
    /\ \A v \in Withdrawals \ {w} : withdrawal'[v] = withdrawal[v]
    /\ \A a \in Accounts :
          /\ balance'[a].reserved
               = balance[a].reserved - Drawn(w, a, {"pending"}) + Drawn(w, a, {"pending"})'
          /\ balance'[a].available
               = balance[a].available + Drawn(w, a, {"pending", "paid"})
                                      - Drawn(w, a, {"pending", "paid"})'

\* Steps that book what they change keep the ledger balanced.
LEMMA BookedKeepsLedger ==
    ASSUME BillingTypeOK, BillingTypeOK', ReservedMatches, LedgerBalanced,
           NEW o \in Orders, Booked(o)
    PROVE  ReservedMatches' /\ LedgerBalanced'
  <1>1. \A a \in Accounts : balance[a].reserved \in Int /\ balance[a].available \in Int
    BY DEF BillingTypeOK
  <1>2. \A a, states : WithdrawalShares(a, states)' = WithdrawalShares(a, states)
    BY DEF Booked, WithdrawalShares
  <1>3. \A a, states : WithdrawalShares(a, states) \in Nat
    <2> SUFFICES ASSUME NEW a, NEW states PROVE WithdrawalShares(a, states) \in Nat
      OBVIOUS
    <2> DEFINE S == {v \in Withdrawals : a = <<withdrawal[v].user, "CN">> /\ withdrawal[v].status \in states}
               amt == [v \in Withdrawals |-> withdrawal[v].amount]
    <2>1. IsFiniteSet(S) /\ \A v \in S : amt[v] \in Nat
      BY FiniteTables, FS_Subset DEF BillingTypeOK, WithdrawalRow
    <2>2. QED
      BY <2>1, SumNat DEF WithdrawalShares
  <1>4. ASSUME NEW a \in Accounts
        PROVE  balance'[a].reserved = OrderShares(a, {"pending"})' + WithdrawalShares(a, {"pending"})'
    <2> DEFINE h == Held(o, a, {"pending"})
               s == OrderShares(a, {"pending"})
               w == WithdrawalShares(a, {"pending"})
    <2>1. s \in Nat /\ s' \in Nat /\ h \in Nat /\ h' \in Nat /\ s' = s - h + h'
      BY OrderSharesChange DEF Booked
    <2>2. w' = w /\ w \in Nat /\ balance[a].reserved = s + w
          /\ balance'[a].reserved = balance[a].reserved - h + h'
      BY <1>2, <1>3 DEF ReservedMatches, Booked
    <2> HIDE DEF h, s, w
    <2>3. balance'[a].reserved = s' + w'
      BY <1>1, <2>1, <2>2
    <2>4. QED
      BY <2>3 DEF s, w
  <1>5. ASSUME NEW a \in Accounts
        PROVE  balance'[a].available = Credited(a)' - OrderShares(a, Taken)'
                                       - WithdrawalShares(a, {"pending", "paid"})'
    <2> DEFINE h == Held(o, a, Taken)
               s == OrderShares(a, Taken)
               w == WithdrawalShares(a, {"pending", "paid"})
               c == Credited(a)
               x == Bonus(o, a)
    <2>1. s \in Nat /\ s' \in Nat /\ h \in Nat /\ h' \in Nat /\ s' = s - h + h'
      BY OrderSharesChange DEF Booked
    <2>2. c \in Nat /\ c' \in Nat /\ x \in Nat /\ x' \in Nat /\ c' = c - x + x'
      BY CreditedChange DEF Booked
    <2>3. w' = w /\ w \in Nat /\ balance[a].available = c - s - w
          /\ balance'[a].available = balance[a].available - x + x' + h - h'
      BY <1>2, <1>3 DEF LedgerBalanced, Booked, Taken
    <2> HIDE DEF h, s, w, c, x
    <2>4. balance'[a].available = c' - s' - w'
      BY <1>1, <2>1, <2>2, <2>3
    <2>5. QED
      BY <2>4 DEF s, w, c
  <1>6. QED
    BY <1>4, <1>5 DEF ReservedMatches, LedgerBalanced, Taken

\* The same for steps on withdrawals.
LEMMA BookingKeepsLedger ==
    ASSUME BillingTypeOK, BillingTypeOK', ReservedMatches, LedgerBalanced,
           NEW w \in Withdrawals, Booking(w)
    PROVE  ReservedMatches' /\ LedgerBalanced'
  <1>1. \A a \in Accounts : balance[a].reserved \in Int /\ balance[a].available \in Int
    BY DEF BillingTypeOK
  <1>2. \A a, states : OrderShares(a, states)' = OrderShares(a, states) /\ Credited(a)' = Credited(a)
    BY DEF Booking, OrderShares, Credited
  <1>3. \A a, states : OrderShares(a, states) \in Nat
    <2> SUFFICES ASSUME NEW a, NEW states PROVE OrderShares(a, states) \in Nat
      OBVIOUS
    <2> DEFINE S == {p \in Orders : p[1] = a[1] /\ order[p].region = a[2] /\ order[p].status \in states}
               bal == [p \in Orders |-> order[p].balance]
    <2>1. IsFiniteSet(S) /\ \A p \in S : bal[p] \in Nat
      BY FiniteTables, FS_Subset DEF BillingTypeOK, OrderRow
    <2>2. QED
      BY <2>1, SumNat DEF OrderShares
  <1>4. \A a : Credited(a) \in Nat
    <2> SUFFICES ASSUME NEW a PROVE Credited(a) \in Nat
      OBVIOUS
    <2> DEFINE S == {p \in Orders : reward[p] = "credited" /\ a = <<Inviter[p[1]], order[p].region>>}
               n == Cardinality(S)
    <2>1. n \in Nat /\ RewardAmount \in Nat
      BY FiniteTables, FS_Subset, FS_CardinalityType, BillingAssumption
    <2>2. Credited(a) = RewardAmount * n
      BY DEF Credited
    <2> HIDE DEF n
    <2>3. QED
      BY <2>1, <2>2
  <1>5. ASSUME NEW a \in Accounts
        PROVE  balance'[a].reserved = OrderShares(a, {"pending"})' + WithdrawalShares(a, {"pending"})'
    <2> DEFINE d == Drawn(w, a, {"pending"})
               s == OrderShares(a, {"pending"})
               t == WithdrawalShares(a, {"pending"})
    <2>1. t \in Nat /\ t' \in Nat /\ d \in Nat /\ d' \in Nat /\ t' = t - d + d'
      BY WithdrawalSharesChange DEF Booking
    <2>2. s' = s /\ s \in Nat /\ balance[a].reserved = s + t
          /\ balance'[a].reserved = balance[a].reserved - d + d'
      BY <1>2, <1>3 DEF ReservedMatches, Booking
    <2> HIDE DEF d, s, t
    <2>3. balance'[a].reserved = s' + t'
      BY <1>1, <2>1, <2>2
    <2>4. QED
      BY <2>3 DEF s, t
  <1>6. ASSUME NEW a \in Accounts
        PROVE  balance'[a].available = Credited(a)' - OrderShares(a, Taken)'
                                       - WithdrawalShares(a, {"pending", "paid"})'
    <2> DEFINE d == Drawn(w, a, {"pending", "paid"})
               s == OrderShares(a, Taken)
               t == WithdrawalShares(a, {"pending", "paid"})
               c == Credited(a)
    <2>1. t \in Nat /\ t' \in Nat /\ d \in Nat /\ d' \in Nat /\ t' = t - d + d'
      BY WithdrawalSharesChange DEF Booking
    <2>2. s' = s /\ s \in Nat /\ c' = c /\ c \in Nat /\ balance[a].available = c - s - t
          /\ balance'[a].available = balance[a].available + d - d'
      BY <1>2, <1>3, <1>4 DEF LedgerBalanced, Booking, Taken
    <2> HIDE DEF d, s, t, c
    <2>3. balance'[a].available = c' - s' - t'
      BY <1>1, <2>1, <2>2
    <2>4. QED
      BY <2>3 DEF s, t, c
  <1>7. QED
    BY <1>5, <1>6 DEF ReservedMatches, LedgerBalanced, Taken

\* What Move adds to each account.
LEMMA MoveAt ==
    ASSUME NEW b \in Balances, NEW c, NEW x \in Int, NEW y \in Int, NEW a \in Accounts
    PROVE  /\ Move(b, c, x, y)[a].available = b[a].available + (IF a = c THEN x ELSE 0)
           /\ Move(b, c, x, y)[a].reserved = b[a].reserved + (IF a = c THEN y ELSE 0)
           /\ b[a].available \in Int /\ b[a].reserved \in Int
  BY DEF Move, Balances

\* The share of a new order row in account a.
Share(o, row, a) == IF a = <<o[1], row.region>> THEN row.balance ELSE 0

\* What a pending order holds is its share; one that does not exist holds nothing.
LEMMA HeldIsShare ==
    ASSUME BillingTypeOK, NEW o \in Orders, NEW a \in Accounts, NEW states
    PROVE  /\ order[o].status \in states => Held(o, a, states) = Share(o, order[o], a)
           /\ order[o].status \notin states => Held(o, a, states) = 0
  <1>1. a = <<a[1], a[2]>>
    BY DEF Accounts
  <1>2. QED
    BY <1>1 DEF Held, Share

\* Settling books the reward and consumes the share, on balances b in which the
\* share of the order is held.
LEMMA SettleIsBooked ==
    ASSUME BillingTypeOK, BillingTypeOK', RewardFollowsOrder,
           NEW o \in Orders, NEW row \in OrderRow, NEW l \in Licenses, NEW b \in Balances,
           Settle(o, row, l, b), withdrawal' = withdrawal,
           order[o].status \in {"none", "pending"},
           \A a \in Accounts :
              /\ b[a].reserved = balance[a].reserved - Held(o, a, {"pending"}) + Share(o, row, a)
              /\ b[a].available = balance[a].available + Held(o, a, Taken) - Share(o, row, a)
    PROVE  Booked(o)
  <1> DEFINE mine == <<o[1], row.region>>
             theirs == <<Inviter[o[1]], row.region>>
             consumed == Move(b, mine, 0, -row.balance)
             final == Move(consumed, theirs, RewardAmount, 0)
  <1>1. /\ Others(o) /\ order'[o].status = "paid" /\ order'[o].region = row.region
        /\ order'[o].balance = row.balance
    BY SettleWrites
  <1>2. /\ row.balance \in Nat /\ -row.balance \in Int /\ RewardAmount \in Int
        /\ row.balance <= b[mine].reserved /\ mine \in Accounts
    BY BillingAssumption DEF OrderRow, Settle, Orders, Accounts
  <1>3. /\ consumed \in Balances
        /\ \A a \in Accounts : /\ consumed[a].available = b[a].available + 0
                               /\ consumed[a].reserved = b[a].reserved - Share(o, row, a)
                               /\ b[a].available \in Int /\ b[a].reserved \in Int
    <2>1. b[mine].reserved + (-row.balance) >= 0
      BY <1>2 DEF Balances
    <2>2. consumed \in Balances
      BY <1>2, <2>1, MoveType
    <2>3. ASSUME NEW a \in Accounts
          PROVE  /\ consumed[a].available = b[a].available + 0
                 /\ consumed[a].reserved = b[a].reserved - Share(o, row, a)
                 /\ b[a].available \in Int /\ b[a].reserved \in Int
      <3>1. /\ consumed[a].available = b[a].available + (IF a = mine THEN 0 ELSE 0)
            /\ consumed[a].reserved = b[a].reserved + (IF a = mine THEN -row.balance ELSE 0)
            /\ b[a].available \in Int /\ b[a].reserved \in Int
        BY <1>2, MoveAt
      <3>2. QED
        BY <1>2, <3>1 DEF Share
    <2>4. QED
      BY <2>2, <2>3
  <1> HIDE DEF consumed
  <1>4. \A a \in Accounts : /\ final[a].available = consumed[a].available + (IF a = theirs THEN RewardAmount ELSE 0)
                            /\ final[a].reserved = consumed[a].reserved + 0
    BY <1>2, <1>3, MoveAt
  <1>5. \/ reward' = reward /\ balance' = consumed
        \/ /\ Rewarded(o[1], row) /\ reward' = [reward EXCEPT ![o] = "credited"]
           /\ balance' = final
    BY DEF Settle, consumed
  <1> HIDE DEF final
  <1>6. reward[o] # "credited" /\ reward \in [Orders -> {"none", "credited", "reversed"}]
    BY DEF RewardFollowsOrder, BillingTypeOK
  <1>7. /\ \A p \in Orders \ {o} : reward'[p] = reward[p]
        /\ \/ reward'[o] # "credited" /\ balance' = consumed
           \/ reward'[o] = "credited" /\ balance' = final
    BY <1>5, <1>6
  <1>8. ASSUME NEW a \in Accounts
        PROVE  /\ balance'[a].reserved
                    = balance[a].reserved - Held(o, a, {"pending"}) + Held(o, a, {"pending"})'
               /\ balance'[a].available
                    = balance[a].available - Bonus(o, a) + Bonus(o, a)'
                      + Held(o, a, Taken) - Held(o, a, Taken)'
    <2> DEFINE s == Share(o, row, a)
               h == Held(o, a, {"pending"})
               t == Held(o, a, Taken)
               x == IF reward'[o] = "credited" /\ a = theirs THEN RewardAmount ELSE 0
    <2>1. Bonus(o, a) = 0 /\ Bonus(o, a)' = x
      BY <1>1, <1>6 DEF Bonus
    <2>2. Held(o, a, {"pending"})' = 0 /\ Held(o, a, Taken)' = s
      <3>1. a = <<a[1], a[2]>>
        BY DEF Accounts
      <3>2. QED
        BY <1>1, <3>1 DEF Held, Share, Taken
    <2>3. s \in Nat /\ h \in Nat /\ t \in Nat /\ x \in Int
      BY <1>1, <1>2, OrderSharesChange DEF Share
    <2>4. /\ b[a].reserved = balance[a].reserved - h + s
          /\ b[a].available = balance[a].available + t - s
          /\ balance[a].reserved \in Int /\ balance[a].available \in Int
      BY DEF BillingTypeOK
    <2>5. balance'[a].reserved = b[a].reserved - s /\ balance'[a].available = b[a].available + x
      <3>1. /\ consumed[a].available = b[a].available /\ consumed[a].reserved = b[a].reserved - s
            /\ b[a].available \in Int /\ b[a].reserved \in Int
        BY <1>3
      <3>2. CASE reward'[o] # "credited" /\ balance' = consumed
        BY <3>1, <3>2
      <3>3. CASE reward'[o] = "credited" /\ balance' = final
        <4>1. final[a].available = consumed[a].available + x /\ final[a].reserved = consumed[a].reserved + 0
          BY <1>4, <3>3
        <4> HIDE DEF x, s
        <4>2. QED
          BY <2>3, <3>1, <3>3, <4>1
      <3>4. QED
        BY <1>7, <3>2, <3>3
    <2> HIDE DEF s, h, t, x
    <2>6. balance'[a].reserved = balance[a].reserved - h + 0
          /\ balance'[a].available = balance[a].available - 0 + x + t - s
      BY <2>3, <2>4, <2>5
    <2>7. QED
      BY <2>1, <2>2, <2>6 DEF h, t
  <1>9. QED
    BY <1>1, <1>7, <1>8 DEF Booked

\* So does creating an order, paid at once or not.
LEMMA InsertIsBooked ==
    ASSUME BillingTypeOK, BillingTypeOK', RewardFollowsOrder,
           NEW c \in call, NEW l \in Licenses \cup {None}, InsertOrder(c, l)
    PROVE  \E o \in Orders : Booked(o)
  <1> DEFINE o == <<c.user, c.key>>
             mine == <<c.user, c.region>>
             row == NewOrder(c)
             held == Move(balance, mine, -c.balance, c.balance)
  <1>1. /\ o \in Orders /\ row \in OrderRow /\ held \in Balances /\ order[o].status = "none"
        /\ \/ order' = [order EXCEPT ![o] = row] /\ balance' = held /\ UNCHANGED reward
           \/ l \in Licenses /\ Settle(o, row, l, held)
        /\ withdrawal' = withdrawal
    BY InsertCases
  <1>2. /\ row.region = c.region /\ row.balance = c.balance /\ row.status = "pending"
        /\ c.balance \in Nat /\ -c.balance \in Int /\ o[1] = c.user /\ balance \in Balances
    BY <1>1 DEF NewOrder, OrderRow, BillingTypeOK, Balances
  <1>3. ASSUME NEW a \in Accounts
        PROVE  /\ held[a].reserved = balance[a].reserved - Held(o, a, {"pending"}) + Share(o, row, a)
               /\ held[a].available = balance[a].available + Held(o, a, Taken) - Share(o, row, a)
               /\ Share(o, row, a) \in Nat
               /\ Held(o, a, {"pending"}) = 0 /\ Held(o, a, Taken) = 0
               /\ balance[a].reserved \in Int /\ balance[a].available \in Int
    <2>1. Held(o, a, {"pending"}) = 0 /\ Held(o, a, Taken) = 0
      BY <1>1 DEF Held, Taken
    <2>2. Share(o, row, a) = IF a = mine THEN c.balance ELSE 0
      BY <1>2 DEF Share
    <2>3. /\ held[a].available = balance[a].available + (IF a = mine THEN -c.balance ELSE 0)
          /\ held[a].reserved = balance[a].reserved + (IF a = mine THEN c.balance ELSE 0)
          /\ balance[a].reserved \in Int /\ balance[a].available \in Int
      BY <1>2, MoveAt
    <2> HIDE DEF o, row, held, mine
    <2>4. QED
      BY <1>2, <2>1, <2>2, <2>3
  <1> HIDE DEF o, row, held, mine
  <1>4. CASE l \in Licenses /\ Settle(o, row, l, held)
    BY <1>1, <1>3, <1>4, SettleIsBooked
  <1>5. CASE order' = [order EXCEPT ![o] = row] /\ balance' = held /\ UNCHANGED reward
    <2>1. order'[o] = row /\ Others(o)
      BY <1>1, <1>5 DEF BillingTypeOK, Others
    <2>2. reward[o] # "credited" /\ reward'[o] # "credited"
      BY <1>1, <1>5 DEF RewardFollowsOrder
    <2>3. ASSUME NEW a \in Accounts
          PROVE  /\ balance'[a].reserved
                      = balance[a].reserved - Held(o, a, {"pending"}) + Held(o, a, {"pending"})'
                 /\ balance'[a].available
                      = balance[a].available - Bonus(o, a) + Bonus(o, a)'
                        + Held(o, a, Taken) - Held(o, a, Taken)'
      <3>1. Bonus(o, a) = 0 /\ Bonus(o, a)' = 0
        BY <2>2 DEF Bonus
      <3>2. Held(o, a, {"pending"})' = Share(o, row, a) /\ Held(o, a, Taken)' = Share(o, row, a)
        <4>1. a = <<a[1], a[2]>>
          BY DEF Accounts
        <4>2. QED
          BY <1>2, <2>1, <4>1 DEF Held, Share, Taken
      <3>3. QED
        BY <1>3, <1>5, <3>1, <3>2
    <2>4. Booked(o)
      BY <1>1, <1>5, <2>1, <2>3 DEF Booked
    <2>5. QED
      BY <1>1, <2>4
  <1>6. QED
    BY <1>1, <1>4, <1>5

\* So does settling an order that waited for its payment.
LEMMA PaidIsBooked ==
    ASSUME BillingTypeOK, BillingTypeOK', RewardFollowsOrder,
           NEW o \in Orders, NEW l \in Licenses, Paid(o, l)
    PROVE  Booked(o)
  <1>1. /\ order[o] \in OrderRow /\ balance \in Balances /\ order[o].status = "pending"
        /\ Settle(o, order[o], l, balance) /\ withdrawal' = withdrawal
    BY DEF Paid, BillingTypeOK, Balances
  <1>2. ASSUME NEW a \in Accounts
        PROVE  /\ balance[a].reserved = balance[a].reserved - Held(o, a, {"pending"}) + Share(o, order[o], a)
               /\ balance[a].available = balance[a].available + Held(o, a, Taken) - Share(o, order[o], a)
    <2> DEFINE s == Share(o, order[o], a)
    <2>1. Held(o, a, {"pending"}) = s /\ Held(o, a, Taken) = s
      BY <1>1, HeldIsShare DEF Taken
    <2>2. s \in Nat /\ balance[a].reserved \in Int /\ balance[a].available \in Int
      BY <1>1 DEF Share, OrderRow, BillingTypeOK
    <2> HIDE DEF s
    <2>3. QED
      BY <2>1, <2>2 DEF s
  <1>3. QED
    BY <1>1, <1>2, SettleIsBooked

\* So does giving the share of a pending order back.
LEMMA ReleaseIsBooked ==
    ASSUME BillingTypeOK, BillingTypeOK', RewardFollowsOrder, NEW o \in Orders, Release(o)
    PROVE  Booked(o)
  <1> DEFINE row == order[o]
             new == [row EXCEPT !.status = "canceled"]
             mine == <<o[1], row.region>>
  <1>1. /\ row \in OrderRow /\ balance \in Balances /\ row.status = "pending"
        /\ order' = [order EXCEPT ![o] = new] /\ UNCHANGED <<reward, withdrawal>>
        /\ balance' = Move(balance, mine, row.balance, -row.balance)
    BY DEF Release, BillingTypeOK, Balances
  <1>2. new.status = "canceled" /\ row.balance \in Nat /\ -row.balance \in Int
    BY <1>1 DEF OrderRow
  <1>3. order'[o] = new /\ Others(o)
    BY <1>1 DEF BillingTypeOK, Others
  <1>4. reward[o] # "credited" /\ reward'[o] # "credited"
    BY <1>1 DEF RewardFollowsOrder
  <1> HIDE DEF new
  <1>5. ASSUME NEW a \in Accounts
        PROVE  /\ balance'[a].reserved
                    = balance[a].reserved - Held(o, a, {"pending"}) + Held(o, a, {"pending"})'
               /\ balance'[a].available
                    = balance[a].available - Bonus(o, a) + Bonus(o, a)'
                      + Held(o, a, Taken) - Held(o, a, Taken)'
    <2> DEFINE s == Share(o, row, a)
    <2>1. Bonus(o, a) = 0 /\ Bonus(o, a)' = 0
      BY <1>4 DEF Bonus
    <2>2. Held(o, a, {"pending"}) = s /\ Held(o, a, Taken) = s
      BY <1>1, HeldIsShare DEF Taken
    <2>3. Held(o, a, {"pending"})' = 0 /\ Held(o, a, Taken)' = 0
      BY <1>2, <1>3 DEF Held, Taken
    <2>4. /\ balance'[a].available = balance[a].available + (IF a = mine THEN row.balance ELSE 0)
          /\ balance'[a].reserved = balance[a].reserved + (IF a = mine THEN -row.balance ELSE 0)
          /\ balance[a].reserved \in Int /\ balance[a].available \in Int
      BY <1>1, <1>2, MoveAt
    <2>5. s = IF a = mine THEN row.balance ELSE 0
      BY DEF Share
    <2> HIDE DEF s, row, mine
    <2>6. QED
      BY <1>2, <2>1, <2>2, <2>3, <2>4, <2>5
  <1>6. QED
    BY <1>1, <1>3, <1>5 DEF Booked

\* So does reversing a payment, in full or in part.
LEMMA ReturnIsBooked ==
    ASSUME BillingTypeOK, BillingTypeOK', NEW o \in Orders, Returns(o), withdrawal' = withdrawal,
           \/ order'[o].status = "chargeback" /\ Reverse(o)
           \/ order'[o].status = "paid" /\ UNCHANGED <<balance, reward>>
    PROVE  Booked(o)
  <1> DEFINE theirs == <<Inviter[o[1]], order[o].region>>
  <1>1. /\ Others(o) /\ order'[o].region = order[o].region /\ order'[o].balance = order[o].balance
        /\ order[o].status = "paid" /\ order'[o].status \in {"paid", "chargeback"}
        /\ balance \in Balances /\ RewardAmount \in Int /\ -RewardAmount \in Int
    BY BillingAssumption DEF Returns, SameTerms, BillingTypeOK, Balances
  <1>2. \/ UNCHANGED <<balance, reward>>
        \/ /\ reward[o] = "credited" /\ reward' = [reward EXCEPT ![o] = "reversed"]
           /\ balance' = Move(balance, theirs, -RewardAmount, 0)
    BY DEF Reverse
  <1>3. /\ reward \in [Orders -> {"none", "credited", "reversed"}]
        /\ \A p \in Orders \ {o} : reward'[p] = reward[p]
    BY <1>2 DEF BillingTypeOK
  <1>4. ASSUME NEW a \in Accounts
        PROVE  /\ balance'[a].reserved
                    = balance[a].reserved - Held(o, a, {"pending"}) + Held(o, a, {"pending"})'
               /\ balance'[a].available
                    = balance[a].available - Bonus(o, a) + Bonus(o, a)'
                      + Held(o, a, Taken) - Held(o, a, Taken)'
    <2> DEFINE t == Held(o, a, Taken)
    <2>1. /\ Held(o, a, {"pending"}) = 0 /\ Held(o, a, {"pending"})' = 0
          /\ Held(o, a, Taken)' = t
      BY <1>1 DEF Held, Taken
    <2>2. t \in Nat /\ balance[a].reserved \in Int /\ balance[a].available \in Int
      BY <1>1, OrderSharesChange DEF Balances
    <2>3. CASE UNCHANGED <<balance, reward>>
      <3> DEFINE x == Bonus(o, a)
      <3>1. Bonus(o, a)' = x /\ x \in Int
        BY <1>1, <2>3 DEF Bonus
      <3> HIDE DEF t, x
      <3>2. QED
        BY <2>1, <2>2, <2>3, <3>1 DEF t, x
    <2>4. CASE /\ reward[o] = "credited" /\ reward' = [reward EXCEPT ![o] = "reversed"]
               /\ balance' = Move(balance, theirs, -RewardAmount, 0)
      <3> DEFINE x == IF a = theirs THEN RewardAmount ELSE 0
      <3>1. reward'[o] = "reversed"
        BY <1>3, <2>4
      <3>2. Bonus(o, a) = x /\ Bonus(o, a)' = 0
        BY <2>4, <3>1 DEF Bonus
      <3>3. /\ balance'[a].available = balance[a].available + (IF a = theirs THEN -RewardAmount ELSE 0)
            /\ balance'[a].reserved = balance[a].reserved + (IF a = theirs THEN 0 ELSE 0)
        BY <1>1, <2>4, MoveAt
      <3>4. /\ balance'[a].available = balance[a].available - x /\ x \in Int
            /\ balance'[a].reserved = balance[a].reserved
        BY <1>1, <2>2, <3>3
      <3> HIDE DEF t, x
      <3>5. QED
        BY <2>1, <2>2, <3>2, <3>4 DEF t
    <2>5. QED
      BY <1>2, <2>3, <2>4
  <1>5. QED
    BY <1>1, <1>3, <1>4 DEF Booked

\* Asking for a withdrawal and answering it book what they change.
LEMMA WithdrawalIsBooked ==
    ASSUME BillingTypeOK, BillingTypeOK', NEW w \in Withdrawals,
           \/ \E u \in Users, amount \in 1 .. MaxAmount : CreateWithdrawal(w, u, amount)
           \/ \E status \in {"paid", "rejected"} : ReviewWithdrawal(w, status)
    PROVE  Booking(w)
  <1>0. balance \in Balances /\ withdrawal \in [Withdrawals -> WithdrawalRow]
    BY DEF BillingTypeOK, Balances
  <1>1. ASSUME NEW u \in Users, NEW amount \in 1 .. MaxAmount, CreateWithdrawal(w, u, amount)
        PROVE  Booking(w)
    <2> DEFINE mine == <<u, "CN">>
    <2>1. /\ UNCHANGED <<order, reward>> /\ withdrawal[w].status = "none"
          /\ withdrawal' = [withdrawal EXCEPT ![w] = [user |-> u, amount |-> amount, status |-> "pending"]]
          /\ balance' = Move(balance, mine, -amount, amount)
          /\ amount \in Int /\ -amount \in Int
      BY <1>1 DEF CreateWithdrawal
    <2>2. /\ withdrawal'[w] = [user |-> u, amount |-> amount, status |-> "pending"]
          /\ \A v \in Withdrawals \ {w} : withdrawal'[v] = withdrawal[v]
      BY <1>0, <2>1
    <2>3. ASSUME NEW a \in Accounts
          PROVE  /\ balance'[a].reserved
                      = balance[a].reserved - Drawn(w, a, {"pending"}) + Drawn(w, a, {"pending"})'
                 /\ balance'[a].available
                      = balance[a].available + Drawn(w, a, {"pending", "paid"})
                                             - Drawn(w, a, {"pending", "paid"})'
      <3> DEFINE x == IF a = mine THEN amount ELSE 0
      <3>1. Drawn(w, a, {"pending"}) = 0 /\ Drawn(w, a, {"pending", "paid"}) = 0
        BY <2>1 DEF Drawn
      <3>2. Drawn(w, a, {"pending"})' = x /\ Drawn(w, a, {"pending", "paid"})' = x
        BY <2>2 DEF Drawn
      <3>3. /\ balance'[a].available = balance[a].available + (IF a = mine THEN -amount ELSE 0)
            /\ balance'[a].reserved = balance[a].reserved + (IF a = mine THEN amount ELSE 0)
            /\ balance[a].reserved \in Int /\ balance[a].available \in Int
        BY <1>0, <2>1, MoveAt
      <3> HIDE DEF mine
      <3>4. QED
        BY <2>1, <3>1, <3>2, <3>3
    <2>4. QED
      BY <2>1, <2>2, <2>3 DEF Booking
  <1>2. ASSUME NEW status \in {"paid", "rejected"}, ReviewWithdrawal(w, status)
        PROVE  Booking(w)
    <2> DEFINE row == withdrawal[w]
               mine == <<row.user, "CN">>
               new == [row EXCEPT !.status = status]
               back == IF status = "rejected" THEN row.amount ELSE 0
    <2>1. /\ UNCHANGED <<order, reward>> /\ row.status = "pending" /\ row \in WithdrawalRow
          /\ withdrawal' = [withdrawal EXCEPT ![w] = new]
          /\ balance' = Move(balance, mine, back, -row.amount)
      BY <1>0, <1>2 DEF ReviewWithdrawal
    <2>2. new.user = row.user /\ new.amount = row.amount /\ new.status = status
          /\ row.amount \in Nat /\ back \in Int /\ -row.amount \in Int
      BY <2>1 DEF WithdrawalRow
    <2>3. withdrawal'[w] = new /\ \A v \in Withdrawals \ {w} : withdrawal'[v] = withdrawal[v]
      BY <1>0, <2>1
    <2> HIDE DEF new
    <2>4. ASSUME NEW a \in Accounts
          PROVE  /\ balance'[a].reserved
                      = balance[a].reserved - Drawn(w, a, {"pending"}) + Drawn(w, a, {"pending"})'
                 /\ balance'[a].available
                      = balance[a].available + Drawn(w, a, {"pending", "paid"})
                                             - Drawn(w, a, {"pending", "paid"})'
      <3> DEFINE x == IF a = mine THEN row.amount ELSE 0
                 y == IF a = mine /\ status = "paid" THEN row.amount ELSE 0
      <3>1. Drawn(w, a, {"pending"}) = x /\ Drawn(w, a, {"pending", "paid"}) = x
        BY <2>1 DEF Drawn
      <3>2. Drawn(w, a, {"pending"})' = 0 /\ Drawn(w, a, {"pending", "paid"})' = y
        BY <2>2, <2>3 DEF Drawn
      <3>3. /\ balance'[a].available = balance[a].available + (IF a = mine THEN back ELSE 0)
            /\ balance'[a].reserved = balance[a].reserved + (IF a = mine THEN -row.amount ELSE 0)
            /\ balance[a].reserved \in Int /\ balance[a].available \in Int
        BY <1>0, <2>1, <2>2, MoveAt
      <3> HIDE DEF row, mine
      <3>4. QED
        BY <2>2, <3>1, <3>2, <3>3
    <2>5. QED
      BY <2>1, <2>3, <2>4 DEF Booking
  <1>3. QED
    BY <1>1, <1>2

\* Every step books what it changes.
LEMMA NextIsBooked ==
    ASSUME BillingBase, [BillingNext]_vars
    PROVE  \/ UNCHANGED <<order, reward, withdrawal, balance>>
           \/ \E o \in Orders : Booked(o)
           \/ \E w \in Withdrawals : Booking(w)
  <1> DEFINE Goal == \/ UNCHANGED <<order, reward, withdrawal, balance>>
                     \/ \E o \in Orders : Booked(o)
                     \/ \E w \in Withdrawals : Booking(w)
  <1> SUFFICES Goal
    OBVIOUS
  <1>0. BillingTypeOK /\ BillingTypeOK' /\ RewardFollowsOrder /\ BillingRows
    BY NextBillingTypeOK DEF BillingBase
  <1>1. ASSUME NEW c \in call, NEW l \in Licenses \cup {None}, InsertOrder(c, l) PROVE Goal
    BY <1>0, <1>1, InsertIsBooked
  <1>2. ASSUME NEW o \in Orders, NEW l \in Licenses, Paid(o, l) PROVE Goal
    BY <1>0, <1>2, PaidIsBooked
  <1>3. ASSUME NEW o \in Orders, Canceled(o) \/ ExpireOrder(o) PROVE Goal
    BY <1>0, <1>3, ReleaseIsBooked DEF Canceled, ExpireOrder
  <1>4. ASSUME NEW o \in Orders, Chargeback(o) PROVE Goal
    <2>1. Reverse(o) /\ withdrawal' = withdrawal
      BY <1>4 DEF Chargeback
    <2>2. QED
      BY <1>0, <1>4, <2>1, ChargebackReturns, ReturnIsBooked
  <1>5. ASSUME NEW f \in Refunds, CompleteRefund(f) PROVE Goal
    <2> DEFINE o == refund[f].order
    <2>1. o \in Orders /\ Returns(o)
          /\ \/ order'[o].status = "chargeback" /\ Reverse(o)
             \/ order'[o].status = "paid" /\ UNCHANGED <<balance, reward>>
      BY <1>0, <1>5, RefundReturns
    <2>2. withdrawal' = withdrawal
      BY <1>5 DEF CompleteRefund
    <2>3. QED
      BY <1>0, <2>1, <2>2, ReturnIsBooked
  <1>6. ASSUME NEW w \in Withdrawals, NEW u \in Users, NEW amount \in 1 .. MaxAmount,
               CreateWithdrawal(w, u, amount)
        PROVE  Goal
    BY <1>0, <1>6, WithdrawalIsBooked
  <1>7. ASSUME NEW w \in Withdrawals, NEW status \in {"paid", "rejected"},
               ReviewWithdrawal(w, status)
        PROVE  Goal
    BY <1>0, <1>7, WithdrawalIsBooked
  <1>8. ASSUME NEW u \in Users, NEW k \in Keys, NEW product \in OnSale,
               NEW l \in Licenses \cup {None}, NEW provider \in Gateways \cup {"balance"},
               NEW n \in 0 .. MaxPaidRevokes, NEW b \in 0 .. MaxAmount,
               QuoteOrder(u, k, product, l, provider, n, b)
        PROVE  Goal
    BY <1>8 DEF QuoteOrder
  <1>9. ASSUME NEW c \in call, DropCall(c) PROVE Goal
    BY <1>9 DEF DropCall
  <1>10. ASSUME NEW u \in Users, CheckWithdrawal(u) \/ DropWithdrawal(u) PROVE Goal
    BY <1>10 DEF CheckWithdrawal, DropWithdrawal
  <1>11. ASSUME NEW f \in Refunds, NEW o \in Orders, NEW amount \in 1 .. MaxAmount,
                CreateRefund(f, o, amount)
         PROVE  Goal
    BY <1>11 DEF CreateRefund
  <1>12. ASSUME NEW u \in Users,
                DropRegion(u) \/ \E r \in Regions : CheckRegion(u, r) \/ SetRegion(u, r)
         PROVE  Goal
    BY <1>12 DEF CheckRegion, SetRegion, DropRegion
  <1>13. CASE (LicensingStep /\ UNCHANGED billVars) \/ UNCHANGED vars
    BY <1>13 DEF billVars, vars
  <1> HIDE DEF Goal
  <1>14. QED
    BY <1>1, <1>2, <1>3, <1>4, <1>5, <1>6, <1>7, <1>8, <1>9, <1>10, <1>11, <1>12, <1>13
       DEF BillingNext, BillingStep

\* The reserved column is what pending orders and withdrawals hold, and the
\* available column the rewards that stand less what was taken, for any number of
\* accounts, orders and withdrawals in any interleaving
\* (settleD2SReservedBalanceTx, releaseD2SReservedBalanceTx, awardD2SInviteTx,
\* reverseD2SInviteRewardTx, ReviewD2SWithdrawal).
THEOREM LedgerHolds == BillingSpec => [](ReservedMatches /\ LedgerBalanced)
  <1>1. BillingInit => ReservedMatches /\ LedgerBalanced
    <2> SUFFICES ASSUME BillingInit, NEW a \in Accounts
                 PROVE  /\ balance[a].reserved = OrderShares(a, {"pending"})
                                                 + WithdrawalShares(a, {"pending"})
                        /\ balance[a].available = Credited(a)
                               - OrderShares(a, {"pending", "paid", "chargeback"})
                               - WithdrawalShares(a, {"pending", "paid"})
      BY DEF ReservedMatches, LedgerBalanced
    <2>1. ASSUME NEW states, "none" \notin states
          PROVE  OrderShares(a, states) = 0 /\ WithdrawalShares(a, states) = 0
      <3>1. /\ {o \in Orders : o[1] = a[1] /\ order[o].region = a[2] /\ order[o].status \in states} = {}
            /\ {w \in Withdrawals : a = <<withdrawal[w].user, "CN">> /\ withdrawal[w].status \in states} = {}
        BY <2>1 DEF BillingInit, NoOrder, NoWithdrawal
      <3>2. QED
        BY <3>1, SumEmpty DEF OrderShares, WithdrawalShares
    <2>2. Credited(a) = 0
      <3>1. {o \in Orders : reward[o] = "credited" /\ a = <<Inviter[o[1]], order[o].region>>} = {}
        BY DEF BillingInit
      <3>2. Credited(a) = RewardAmount * 0
        BY <3>1, FS_EmptySet DEF Credited
      <3>3. QED
        BY <3>2, BillingAssumption
    <2>3. balance[a].reserved = 0 /\ balance[a].available = 0
      BY DEF BillingInit
    <2>4. QED
      BY <2>1, <2>2, <2>3
  <1>2. ASSUME BillingBase, ReservedMatches, LedgerBalanced, [BillingNext]_vars
        PROVE  ReservedMatches' /\ LedgerBalanced'
    <2>1. BillingTypeOK /\ BillingTypeOK'
      BY <1>2, NextBillingTypeOK DEF BillingBase
    <2>2. CASE UNCHANGED <<order, reward, withdrawal, balance>>
      BY <1>2, <2>2 DEF ReservedMatches, LedgerBalanced, OrderShares, WithdrawalShares, Credited
    <2>3. QED
      BY <1>2, <2>1, <2>2, NextIsBooked, BookedKeepsLedger, BookingKeepsLedger
  <1>3. QED
    BY <1>1, <1>2, BillingBaseHolds, PTL DEF BillingSpec

\* In particular the reserved column never holds more or less than the orders and
\* withdrawals that are pending (settleD2SReservedBalanceTx,
\* releaseD2SReservedBalanceTx), so settling one never takes from another.
THEOREM ReservedIsHeld == BillingSpec => []ReservedMatches
  BY LedgerHolds, PTL

-----------------------------------------------------------------------------
(* Money and the region of its account.                                    *)

\* The account holds money, free or reserved.
HasMoney(a) == balance[a].available > 0 \/ balance[a].reserved > 0

\* The account may hold money in the currency of region r: it is of that region,
\* or it was deleted and nobody draws on it any more.
MayHold(u, r) == u \in deleted \/ (u \in profile /\ region[u] = r)

\* MoneyInRegion, strengthened: an account without profile has no money, so that
\* the profile it may get later, without a region, does not break the rule.
RegionInv ==
    /\ profile \cap deleted = {}
    /\ SingleWriter => \A u \in Users, r \in Regions : HasMoney(<<u, r>>) => MayHold(u, r)

\* An account that is deleted stays so, and a profile only goes with its account.
AccountStep ==
    /\ profile' \cap deleted' = {}
    /\ deleted \subseteq deleted' /\ profile \subseteq profile' \cup deleted'

\* The steps on licenses treat accounts so (EnsureD2SProfileAndTrial,
\* AnonymizeAndDeleteUserAccount).
LEMMA LicensingKeepsAccounts ==
    ASSUME profile \cap deleted = {}, [Next]_licVars
    PROVE  AccountStep
  <1>1. CASE UNCHANGED <<profile, deleted>>
    BY <1>1 DEF AccountStep
  <1>2. ASSUME NEW u \in Users, NEW l \in Licenses, EnsureProfileAndTrial(u, l) PROVE AccountStep
    BY <1>2 DEF EnsureProfileAndTrial, AccountStep
  <1>3. ASSUME NEW u \in Users, DeleteAccount(u) PROVE AccountStep
    BY <1>3 DEF DeleteAccount, AccountStep
  <1>4. CASE OrderEffect
    BY <1>1, <1>4 DEF OrderEffect, FulfillLicense, FulfillPaidRevoke, FulfillOfflineExtension,
                      SuspendLicense
  <1>5. CASE \/ \E l \in Licenses, d \in Devices : Bind(l, d)
             \/ \E l \in Licenses, d \in Devices, days \in OfflinePeriods : ChangeMode(l, d, "offline", days)
             \/ \E l \in Licenses, d \in Devices, m \in {"online", "permanent"} : ChangeMode(l, d, m, 0)
             \/ \E l \in Licenses, d \in Devices : FreeRevoke(l, d)
             \/ \E l \in Licenses, d \in Devices, raw \in Tokens \cup {None}, t \in Tokens :
                   StartOrRenewLease(l, d, raw, t)
    BY <1>1, <1>5 DEF Bind, ChangeMode, FreeRevoke, StartOrRenewLease
  <1>6. CASE \/ \E l \in Licenses, t \in Tokens : ReleaseLease(l, t)
             \/ \E u \in Users : ReleaseAllLeases(u)
             \/ DeleteExpiredLeases
             \/ \E r \in Requests, l \in Licenses : CreateManualUnbind(r, l)
             \/ \E r \in Requests : ApproveManualUnbind(r)
             \/ \E r \in Requests : RejectManualUnbind(r)
             \/ \E l \in Licenses, d \in Devices, days \in OfflinePeriods : IssueOfflineEntitlement(l, d, days)
             \/ Tick
    BY <1>1, <1>6 DEF ReleaseLease, ReleaseAllLeases, DeleteExpiredLeases, CreateManualUnbind,
                      ApproveManualUnbind, RejectManualUnbind, IssueOfflineEntitlement, Tick
  <1>7. CASE UNCHANGED licVars
    BY <1>1, <1>7 DEF licVars
  <1>8. QED
    BY <1>2, <1>3, <1>4, <1>5, <1>6, <1>7 DEF Next, LicensingStep

\* Money stays with an account that keeps its region or is deleted, or comes to an
\* account of the right region.
RegionStep ==
    \A u \in Users, r \in Regions : HasMoney(<<u, r>>)' =>
       \/ HasMoney(<<u, r>>) /\ (u \in deleted \/ region'[u] = region[u])
       \/ u \in profile /\ region'[u] = r

\* Such a step keeps the invariant.
LEMMA RegionInvKept ==
    ASSUME RegionInv, AccountStep, SingleWriter => RegionStep
    PROVE  RegionInv'
  <1> SUFFICES ASSUME SingleWriter, NEW u \in Users, NEW r \in Regions, HasMoney(<<u, r>>)'
               PROVE  MayHold(u, r)'
    BY DEF RegionInv, AccountStep
  <1>1. CASE HasMoney(<<u, r>>) /\ (u \in deleted \/ region'[u] = region[u])
    BY <1>1 DEF RegionInv, MayHold, AccountStep
  <1>2. CASE u \in profile /\ region'[u] = r
    BY <1>2 DEF MayHold, AccountStep
  <1>3. QED
    BY <1>1, <1>2 DEF RegionStep

\* What settling on top of the balances b does to each account.
LEMMA SettleBalances ==
    ASSUME NEW o \in Orders, NEW row \in OrderRow, NEW l \in Licenses, NEW b \in Balances,
           Settle(o, row, l, b), NEW a \in Accounts
    PROVE  /\ balance'[a].reserved = b[a].reserved - Share(o, row, a)
           /\ \/ balance'[a].available = b[a].available
              \/ Rewarded(o[1], row) /\ a = <<Inviter[o[1]], row.region>>
           /\ b[a].available \in Int /\ b[a].reserved \in Int
  <1> DEFINE mine == <<o[1], row.region>>
             theirs == <<Inviter[o[1]], row.region>>
             consumed == Move(b, mine, 0, -row.balance)
             final == Move(consumed, theirs, RewardAmount, 0)
  <1>1. /\ row.balance \in Nat /\ -row.balance \in Int /\ RewardAmount \in Int
        /\ row.balance <= b[mine].reserved /\ mine \in Accounts
    BY BillingAssumption DEF OrderRow, Settle, Orders, Accounts
  <1>2. b[mine].reserved + (-row.balance) >= 0
    BY <1>1 DEF Balances
  <1>3. consumed \in Balances
    BY <1>1, <1>2, MoveType
  <1>4. /\ consumed[a].available = b[a].available + (IF a = mine THEN 0 ELSE 0)
        /\ consumed[a].reserved = b[a].reserved + (IF a = mine THEN -row.balance ELSE 0)
        /\ b[a].available \in Int /\ b[a].reserved \in Int
    BY <1>1, MoveAt
  <1>5. \/ balance' = consumed
        \/ Rewarded(o[1], row) /\ balance' = final
    BY DEF Settle
  <1> HIDE DEF consumed
  <1>6. /\ final[a].available = consumed[a].available + (IF a = theirs THEN RewardAmount ELSE 0)
        /\ final[a].reserved = consumed[a].reserved + (IF a = theirs THEN 0 ELSE 0)
        /\ consumed[a].available \in Int /\ consumed[a].reserved \in Int
    BY <1>1, <1>3, MoveAt
  <1> HIDE DEF final
  <1>7. consumed[a].available = b[a].available /\ consumed[a].reserved = b[a].reserved - Share(o, row, a)
    BY <1>1, <1>4 DEF Share
  <1>8. final[a].reserved = consumed[a].reserved
    BY <1>6
  <1>9. a = theirs \/ final[a].available = consumed[a].available
    BY <1>6
  <1>10. QED
    BY <1>4, <1>5, <1>7, <1>8, <1>9

\* Creating an order, which only uses money that is there; the reward of one paid
\* at once goes to an inviter of the same region.
LEMMA InsertInRegion ==
    ASSUME BillingTypeOK, NEW c \in call, NEW l \in Licenses \cup {None}, InsertOrder(c, l)
    PROVE  RegionStep
  <1> DEFINE o == <<c.user, c.key>>
             mine == <<c.user, c.region>>
             row == NewOrder(c)
             held == Move(balance, mine, -c.balance, c.balance)
  <1>1. /\ o \in Orders /\ o[1] = c.user /\ row \in OrderRow /\ held \in Balances
        /\ row.balance = c.balance /\ row.region = c.region
    BY InsertCases DEF NewOrder
  <1>2. /\ balance \in Balances /\ c.balance \in Nat /\ c.balance \in Int /\ -c.balance \in Int
        /\ region' = region /\ (c.balance > 0 => balance[mine].available >= c.balance)
    BY DEF BillingTypeOK, Balances, CallRow, InsertOrder
  <1>3. \/ balance' = held
        \/ l \in Licenses /\ Settle(o, row, l, held)
    BY DEF InsertOrder, NewOrder
  <1> SUFFICES ASSUME NEW u \in Users, NEW r \in Regions, HasMoney(<<u, r>>)'
               PROVE  HasMoney(<<u, r>>) \/ (u \in profile /\ region[u] = r)
    BY <1>2 DEF RegionStep
  <1> DEFINE a == <<u, r>>
  <1>4. a \in Accounts
    BY DEF Accounts
  <1>5. /\ held[a].available = balance[a].available + (IF a = mine THEN -c.balance ELSE 0)
        /\ held[a].reserved = balance[a].reserved + (IF a = mine THEN c.balance ELSE 0)
        /\ balance[a].available \in Int /\ balance[a].reserved \in Int
    BY <1>2, <1>4, MoveAt
  <1>6. Share(o, row, a) = IF a = mine THEN c.balance ELSE 0
    BY <1>1 DEF Share
  <1> HIDE DEF held, row, o
  <1>7. CASE balance' = held
    <2>1. balance'[a].available > 0 \/ balance'[a].reserved > 0
      BY DEF HasMoney
    <2>2. balance[a].available > 0 \/ balance[a].reserved > 0
      <3> HIDE DEF a, mine
      <3>1. QED
        BY <1>2, <1>5, <1>7, <2>1
    <2>3. QED
      BY <2>2 DEF HasMoney
  <1>8. CASE l \in Licenses /\ Settle(o, row, l, held)
    <2>1. /\ balance'[a].reserved = held[a].reserved - Share(o, row, a)
          /\ \/ balance'[a].available = held[a].available
             \/ Rewarded(o[1], row) /\ a = <<Inviter[o[1]], row.region>>
      BY <1>1, <1>4, <1>8, SettleBalances
    <2>2. CASE Rewarded(o[1], row) /\ a = <<Inviter[o[1]], row.region>>
      <3>1. u = Inviter[o[1]] /\ r = row.region
        BY <2>2
      <3>2. QED
        BY <2>2, <3>1 DEF Rewarded
    <2>3. CASE balance'[a].available = held[a].available
      <3>1. balance'[a].available > 0 \/ balance'[a].reserved > 0
        BY DEF HasMoney
      <3>2. balance[a].available > 0 \/ balance[a].reserved > 0
        <4> HIDE DEF a, mine
        <4>1. QED
          BY <1>2, <1>5, <1>6, <2>1, <2>3, <3>1
      <3>3. QED
        BY <3>2 DEF HasMoney
    <2>4. QED
      BY <2>1, <2>2, <2>3
  <1>9. QED
    BY <1>3, <1>7, <1>8

\* A payment, which may give the account its region: an account without region has
\* no money then.
LEMMA PaidInRegion ==
    ASSUME BillingTypeOK, RegionInv, SingleWriter, NEW o \in Orders, NEW l \in Licenses, Paid(o, l)
    PROVE  RegionStep
  <1> DEFINE row == order[o]
  <1>1. /\ row \in OrderRow /\ balance \in Balances /\ Settle(o, row, l, balance)
        /\ o[1] \in Users /\ o[1] \in profile /\ region[o[1]] \in {None, row.region}
        /\ region' = [region EXCEPT ![o[1]] = row.region] /\ region \in [Users -> Regions \cup {None}]
    BY DEF Paid, BillingTypeOK, Balances, Orders
  <1> SUFFICES ASSUME NEW u \in Users, NEW r \in Regions, HasMoney(<<u, r>>)'
               PROVE  \/ HasMoney(<<u, r>>) /\ (u \in deleted \/ region'[u] = region[u])
                      \/ u \in profile /\ region'[u] = r
    BY DEF RegionStep
  <1> DEFINE a == <<u, r>>
  <1>2. a \in Accounts
    BY DEF Accounts
  <1>3. /\ balance'[a].reserved = balance[a].reserved - Share(o, row, a)
        /\ \/ balance'[a].available = balance[a].available
           \/ Rewarded(o[1], row) /\ a = <<Inviter[o[1]], row.region>>
        /\ balance[a].available \in Int /\ balance[a].reserved \in Int
    BY <1>1, <1>2, SettleBalances
  <1>4. Share(o, row, a) \in Nat
    BY <1>1 DEF Share, OrderRow
  <1>5. region'[o[1]] = row.region /\ (u # o[1] => region'[u] = region[u])
    BY <1>1
  <1> HIDE DEF row
  <1>6. CASE Rewarded(o[1], row) /\ a = <<Inviter[o[1]], row.region>>
    <2>1. u = Inviter[o[1]] /\ r = row.region
      BY <1>6
    <2>2. u # o[1] /\ u \in profile /\ region[u] = r
      BY <1>6, <2>1 DEF Rewarded
    <2>3. QED
      BY <1>5, <2>2
  <1>7. CASE balance'[a].available = balance[a].available
    <2>1. balance'[a].available > 0 \/ balance'[a].reserved > 0
      BY DEF HasMoney
    <2>2. balance[a].available > 0 \/ balance[a].reserved > 0
      <3> HIDE DEF a
      <3>1. QED
        BY <1>3, <1>4, <1>7, <2>1
    <2>3. HasMoney(<<u, r>>)
      BY <2>2 DEF HasMoney
    <2>4. CASE u = o[1]
      <3>1. region[u] = r
        BY <1>1, <2>3, <2>4 DEF RegionInv, MayHold
      <3>2. r # None
        BY BillingAssumption DEF Regions
      <3>3. QED
        BY <1>1, <1>5, <2>4, <3>1, <3>2
    <2>5. QED
      BY <1>5, <2>3, <2>4
  <1>8. QED
    BY <1>3, <1>6, <1>7

\* Money that moves between the columns of an account, or leaves it, was there.
LEMMA MoveInRegion ==
    ASSUME BillingTypeOK, NEW c, NEW x \in Int, NEW y \in Int,
           balance' = Move(balance, c, x, y), region' = region,
           c \in Accounts => /\ x > 0 => balance[c].reserved > 0
                             /\ y > 0 => balance[c].available > 0
    PROVE  RegionStep
  <1> SUFFICES ASSUME NEW u \in Users, NEW r \in Regions, HasMoney(<<u, r>>)'
               PROVE  HasMoney(<<u, r>>)
    BY DEF RegionStep
  <1> DEFINE a == <<u, r>>
  <1>1. a \in Accounts /\ balance \in Balances
    BY DEF Accounts, Balances, BillingTypeOK
  <1>2. /\ balance'[a].available = balance[a].available + (IF a = c THEN x ELSE 0)
        /\ balance'[a].reserved = balance[a].reserved + (IF a = c THEN y ELSE 0)
        /\ balance[a].available \in Int /\ balance[a].reserved \in Int
    BY <1>1, MoveAt
  <1>3. balance'[a].available > 0 \/ balance'[a].reserved > 0
    BY DEF HasMoney
  <1> HIDE DEF a
  <1>4. balance[a].available > 0 \/ balance[a].reserved > 0
    BY <1>1, <1>2, <1>3
  <1>5. QED
    BY <1>4 DEF HasMoney, a

\* Every step keeps the money in the region of its account.
LEMMA NextInRegion ==
    ASSUME BillingTypeOK, RegionInv, SingleWriter, [BillingNext]_vars
    PROVE  RegionStep
  <1>0. /\ balance \in Balances /\ region \in [Users -> Regions \cup {None}]
        /\ \A o \in Orders : order[o] \in OrderRow
        /\ \A w \in Withdrawals : withdrawal[w] \in WithdrawalRow
    BY DEF BillingTypeOK, Balances
  <1>1. ASSUME UNCHANGED <<balance, region>> PROVE RegionStep
    BY <1>1 DEF RegionStep, HasMoney
  <1>2. ASSUME NEW o \in Orders, Release(o) PROVE RegionStep
    <2> DEFINE b == order[o].balance
               c == <<o[1], order[o].region>>
    <2>1. /\ b \in Nat /\ b \in Int /\ -b \in Int /\ b <= balance[c].reserved
          /\ balance' = Move(balance, c, b, -b) /\ region' = region
      BY <1>0, <1>2 DEF Release, OrderRow
    <2>2. c \in Accounts => balance[c].reserved \in Int
      BY <1>0 DEF Balances
    <2> HIDE DEF b, c
    <2>3. QED
      BY <2>1, <2>2, MoveInRegion
  <1>3. ASSUME NEW o \in Orders, Reverse(o), region' = region PROVE RegionStep
    <2>1. CASE UNCHANGED <<reward, balance>>
      BY <1>1, <1>3, <2>1
    <2>2. CASE balance' = Move(balance, <<Inviter[o[1]], order[o].region>>, -RewardAmount, 0)
      <3>1. -RewardAmount \in Int /\ ~(-RewardAmount > 0) /\ 0 \in Int /\ ~(0 > 0)
        BY BillingAssumption
      <3>2. QED
        BY <1>3, <2>2, <3>1, MoveInRegion
    <2>3. QED
      BY <1>3, <2>1, <2>2 DEF Reverse
  <1>4. ASSUME NEW w \in Withdrawals, NEW u \in Users, NEW amount \in 1 .. MaxAmount,
               CreateWithdrawal(w, u, amount)
        PROVE  RegionStep
    <2> DEFINE c == <<u, "CN">>
    <2>1. /\ amount \in Int /\ -amount \in Int /\ amount >= 1 /\ balance[c].available >= amount
          /\ balance' = Move(balance, c, -amount, amount) /\ region' = region
      BY <1>4, BillingAssumption DEF CreateWithdrawal
    <2>2. c \in Accounts => balance[c].available \in Int
      BY <1>0 DEF Balances
    <2> HIDE DEF c
    <2>3. QED
      BY <2>1, <2>2, MoveInRegion
  <1>5. ASSUME NEW w \in Withdrawals, NEW status \in {"paid", "rejected"},
               ReviewWithdrawal(w, status)
        PROVE  RegionStep
    <2> DEFINE n == withdrawal[w].amount
               back == IF status = "rejected" THEN n ELSE 0
               c == <<withdrawal[w].user, "CN">>
    <2>1. /\ n \in Nat /\ n <= balance[c].reserved /\ -n \in Int /\ back \in Int
          /\ back > 0 => back = n
          /\ balance' = Move(balance, c, back, -n) /\ region' = region
      BY <1>0, <1>5 DEF ReviewWithdrawal, WithdrawalRow
    <2>2. c \in Accounts => balance[c].reserved \in Int
      BY <1>0 DEF Balances
    <2> HIDE DEF n, back, c
    <2>3. ~(-n > 0) /\ (c \in Accounts => (back > 0 => balance[c].reserved > 0))
      BY <2>1, <2>2
    <2>4. QED
      BY <2>1, <2>3, MoveInRegion
  <1>6. ASSUME NEW u \in Users, NEW r \in Regions, SetRegion(u, r) PROVE RegionStep
    <2> SUFFICES ASSUME NEW v \in Users, NEW s \in Regions, HasMoney(<<v, s>>)'
                 PROVE  HasMoney(<<v, s>>) /\ region'[v] = region[v]
      BY DEF RegionStep
    <2>1. /\ balance' = balance /\ region' = [region EXCEPT ![u] = r]
          /\ balance[<<u, s>>] = [available |-> 0, reserved |-> 0]
      BY <1>6 DEF SetRegion, RegionFree
    <2>2. HasMoney(<<v, s>>)
      BY <2>1 DEF HasMoney
    <2>3. v # u
      <3>1. balance[<<u, s>>].available = 0 /\ balance[<<u, s>>].reserved = 0
        BY <2>1
      <3>2. QED
        BY <2>2, <3>1 DEF HasMoney
    <2>4. QED
      BY <1>0, <2>1, <2>2, <2>3
  <1>7. ASSUME NEW f \in Refunds, CompleteRefund(f) PROVE RegionStep
    <2>1. /\ region' = region
          /\ Reverse(refund[f].order) \/ UNCHANGED <<balance, reward>>
      BY <1>7 DEF CompleteRefund
    <2>2. CASE Reverse(refund[f].order)
      <3>1. UNCHANGED <<balance, reward>>
            \/ balance' = Move(balance, <<Inviter[refund[f].order[1]], order[refund[f].order].region>>,
                               -RewardAmount, 0)
        BY <2>2 DEF Reverse
      <3>2. -RewardAmount \in Int /\ ~(-RewardAmount > 0) /\ 0 \in Int /\ ~(0 > 0)
        BY BillingAssumption
      <3>3. QED
        BY <1>1, <2>1, <3>1, <3>2, MoveInRegion
    <2>3. QED
      BY <1>1, <2>1, <2>2
  <1>8. CASE \/ \E c \in call, l \in Licenses \cup {None} : InsertOrder(c, l)
             \/ \E o \in Orders, l \in Licenses : Paid(o, l)
    BY <1>8, InsertInRegion, PaidInRegion
  <1>9. CASE \E o \in Orders : Canceled(o) \/ ExpireOrder(o) \/ Chargeback(o)
    BY <1>2, <1>3, <1>9 DEF Canceled, ExpireOrder, Chargeback
  <1>10. ASSUME NEW u \in Users, NEW k \in Keys, NEW product \in OnSale,
                NEW l \in Licenses \cup {None}, NEW provider \in Gateways \cup {"balance"},
                NEW n \in 0 .. MaxPaidRevokes, NEW b \in 0 .. MaxAmount,
                QuoteOrder(u, k, product, l, provider, n, b)
         PROVE  RegionStep
    BY <1>1, <1>10 DEF QuoteOrder
  <1>11. CASE \/ \E c \in call : DropCall(c)
              \/ \E f \in Refunds, o \in Orders, amount \in 1 .. MaxAmount : CreateRefund(f, o, amount)
              \/ \E u \in Users : CheckWithdrawal(u) \/ DropWithdrawal(u) \/ DropRegion(u)
              \/ \E u \in Users, r \in Regions : CheckRegion(u, r)
    BY <1>1, <1>11 DEF DropCall, CreateRefund, CheckWithdrawal, DropWithdrawal, DropRegion, CheckRegion
  <1>12. CASE UNCHANGED billVars
    BY <1>1, <1>12 DEF billVars
  <1>13. QED
    BY <1>4, <1>5, <1>6, <1>7, <1>8, <1>9, <1>10, <1>11, <1>12 DEF BillingNext, BillingStep, vars

\* Where the database is SQLite, money in a currency is only held by accounts of
\* its region, for any number of accounts and whatever orders, payments and
\* withdrawals are under way while the region is locked or changed
\* (CreateD2SOrder, CreateD2SWithdrawal, awardD2SInviteTx, SetD2SUserRegion).
THEOREM MoneyStaysInRegion == BillingSpec => []MoneyInRegion
  <1>1. BillingInit => RegionInv
    <2> SUFFICES ASSUME BillingInit PROVE RegionInv
      OBVIOUS
    <2>1. ASSUME NEW u \in Users, NEW r \in Regions PROVE ~HasMoney(<<u, r>>)
      BY DEF BillingInit, HasMoney, Accounts
    <2>2. profile = {}
      BY DEF BillingInit, Init
    <2>3. QED
      BY <2>1, <2>2 DEF RegionInv
  <1>2. BillingTypeOK /\ RegionInv /\ [BillingNext]_vars => RegionInv'
    <2> SUFFICES ASSUME BillingTypeOK, RegionInv, [BillingNext]_vars PROVE RegionInv'
      OBVIOUS
    <2>1. AccountStep
      BY BillingStepRefines, LicensingKeepsAccounts DEF RegionInv, BillingTypeOK
    <2>2. QED
      BY <2>1, NextInRegion, RegionInvKept
  <1>3. BillingTypeOK /\ RegionInv => MoneyInRegion
    BY DEF BillingTypeOK, TypeOK, RegionInv, MoneyInRegion, MayHold, HasMoney
  <1>4. QED
    BY <1>1, <1>2, <1>3, BillingTypeCorrect, PTL DEF BillingSpec

\* An order is settled in the region its account has then, also when two orders of
\* different regions were created before the account had one (CreateD2SOrder,
\* ProcessD2SPaymentEvent).
THEOREM OrdersSettleInRegion == BillingSpec => SettlesInRegion
  <1> DEFINE Ok(o) == order[o].status # "paid" /\ order'[o].status = "paid"
                      => region'[o[1]] = order'[o].region
             Step == \A o \in Orders : Ok(o)
  <1>1. ASSUME BillingTypeOK, BillingRows, [BillingNext]_vars PROVE Step
    <2>0. BillingTypeOK
      BY <1>1
    <2>1. ASSUME order' = order PROVE Step
      BY <2>1
    <2>2. ASSUME NEW o \in Orders, Others(o), Ok(o) PROVE Step
      BY <2>2 DEF Others
    <2> HIDE DEF Step
    <2>3. ASSUME NEW c \in call, NEW l \in Licenses \cup {None}, InsertOrder(c, l) PROVE Step
      <3> DEFINE o == <<c.user, c.key>>
                 row == NewOrder(c)
                 held == Move(balance, <<c.user, c.region>>, -c.balance, c.balance)
      <3>1. o \in Orders /\ o[1] = c.user /\ row \in OrderRow
            /\ row.status = "pending" /\ row.region = c.region
        BY <1>1, <2>3, InsertCases DEF NewOrder
      <3>2. \/ order' = [order EXCEPT ![o] = row]
            \/ /\ l \in Licenses /\ Settle(o, row, l, held)
               /\ region[c.user] = c.region /\ region' = region
        BY <2>3 DEF InsertOrder, NewOrder
      <3> HIDE DEF o, row, held
      <3>3. CASE order' = [order EXCEPT ![o] = row]
        <4>1. order'[o] = row /\ Others(o)
          BY <1>1, <3>1, <3>3 DEF BillingTypeOK, Others
        <4>2. QED
          BY <2>2, <3>1, <4>1
      <3>4. CASE /\ l \in Licenses /\ Settle(o, row, l, held)
                 /\ region[c.user] = c.region /\ region' = region
        <4>1. Others(o) /\ order'[o].region = c.region
          BY <2>0, <3>1, <3>4, SettleWrites
        <4>2. QED
          BY <2>2, <3>1, <3>4, <4>1
      <3>5. QED
        BY <3>2, <3>3, <3>4
    <2>4. ASSUME NEW o \in Orders, NEW l \in Licenses, Paid(o, l) PROVE Step
      <3>1. /\ order[o] \in OrderRow /\ Settle(o, order[o], l, balance)
            /\ region' = [region EXCEPT ![o[1]] = order[o].region]
            /\ o[1] \in Users /\ region \in [Users -> Regions \cup {None}]
        BY <2>0, <2>4 DEF Paid, BillingTypeOK, Orders
      <3>2. Others(o) /\ order'[o].region = order[o].region
        BY <2>0, <3>1, SettleWrites
      <3>3. region'[o[1]] = order[o].region
        BY <3>1
      <3>4. QED
        BY <2>2, <3>2, <3>3
    <2>5. ASSUME NEW o \in Orders, Release(o) PROVE Step
      <3> DEFINE new == [order[o] EXCEPT !.status = "canceled"]
      <3>1. order' = [order EXCEPT ![o] = new] /\ order[o] \in OrderRow
        BY <1>1, <2>5 DEF Release, BillingTypeOK
      <3>2. new.status = "canceled"
        BY <3>1 DEF OrderRow
      <3> HIDE DEF new
      <3>3. order'[o] = new /\ Others(o)
        BY <1>1, <3>1 DEF BillingTypeOK, Others
      <3>4. QED
        BY <2>2, <3>2, <3>3
    <2>6. ASSUME NEW o \in Orders, Chargeback(o) PROVE Step
      BY <2>0, <2>2, <2>6, ChargebackReturns DEF Returns
    <2>7. ASSUME NEW f \in Refunds, CompleteRefund(f) PROVE Step
      BY <1>1, <2>2, <2>7, RefundReturns DEF Returns
    <2>8. CASE \/ \E c \in call : DropCall(c)
               \/ \E f \in Refunds, o \in Orders, amount \in 1 .. MaxAmount : CreateRefund(f, o, amount)
               \/ \E u \in Users : CheckWithdrawal(u) \/ DropWithdrawal(u)
               \/ \E w \in Withdrawals, u \in Users, amount \in 1 .. MaxAmount : CreateWithdrawal(w, u, amount)
               \/ \E w \in Withdrawals, status \in {"paid", "rejected"} : ReviewWithdrawal(w, status)
               \/ \E u \in Users, r \in Regions : CheckRegion(u, r) \/ SetRegion(u, r)
               \/ \E u \in Users : DropRegion(u)
      BY <2>1, <2>8 DEF DropCall, CreateRefund, CheckWithdrawal, DropWithdrawal, CreateWithdrawal,
                        ReviewWithdrawal, CheckRegion, SetRegion, DropRegion
    <2>9. ASSUME NEW u \in Users, NEW k \in Keys, NEW product \in OnSale,
                 NEW l \in Licenses \cup {None}, NEW provider \in Gateways \cup {"balance"},
                 NEW n \in 0 .. MaxPaidRevokes, NEW b \in 0 .. MaxAmount,
                 QuoteOrder(u, k, product, l, provider, n, b)
          PROVE  Step
      BY <2>1, <2>9 DEF QuoteOrder
    <2>10. CASE UNCHANGED billVars
      BY <2>1, <2>10 DEF billVars
    <2>11. QED
      BY <1>1, <2>3, <2>4, <2>5, <2>6, <2>7, <2>8, <2>9, <2>10
         DEF BillingNext, BillingStep, Canceled, ExpireOrder, vars
  <1>2. BillingBase /\ [BillingNext]_vars => [Step]_vars
    BY <1>1 DEF BillingBase
  <1>3. QED
    BY <1>2, BillingBaseHolds, PTL DEF BillingSpec, SettlesInRegion
=============================================================================
