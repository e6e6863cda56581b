-------------------------- MODULE D2SBillingProofs --------------------------
(***************************************************************************)
(* Proofs, for any number of accounts, licenses, orders and calls and any  *)
(* prices, that orders act on licenses only in the ways of D2SLicensing,   *)
(* and that rewards and paid revokes are given once.                       *)
(***************************************************************************)
EXTENDS D2SBilling, D2SLicensingProofs

\* Fulfilling an order is one of the order effects of the license state machine.
LEMMA FulfillIsEffect ==
    ASSUME TypeOK, NEW u \in Users, NEW row, NEW l \in Licenses, Fulfill(u, row, l)
    PROVE  OrderEffect
  <1>1. CASE FulfillLicense(u, l)
    BY <1>1 DEF OrderEffect
  <1>2. CASE FulfillPaidRevoke(l, row.n)
    <2>1. Month(now) \in Months
      BY MonthOfNow
    <2>2. quota[l][Month(now)] \in 0 .. MaxPaidRevokes
      BY <2>1 DEF TypeOK
    <2>3. row.n \in 1 .. MaxPaidRevokes
      BY <1>2, <2>2, LicensingAssumption DEF FulfillPaidRevoke
    <2>4. QED
      BY <1>2, <2>3 DEF OrderEffect
  <1>3. CASE FulfillOfflineExtension(l)
    BY <1>3 DEF OrderEffect
  <1>4. QED
    BY <1>1, <1>2, <1>3 DEF Fulfill

\* So is suspending the license of an order.
LEMMA SuspendIsEffect ==
    ASSUME TypeOK, NEW l, SuspendLicense(l)
    PROVE  OrderEffect \/ UNCHANGED licVars
  <1>1. CASE l \in Licenses
    BY <1>1 DEF OrderEffect
  <1>2. CASE l \notin Licenses
    <2>1. license' = license
      BY <1>2 DEF SuspendLicense, TypeOK
    <2>2. QED
      BY <2>1 DEF SuspendLicense, licVars
  <1>3. QED
    BY <1>1, <1>2

\* Every step of the composed system is a step of the license state machine or
\* leaves its tables alone.
LEMMA BillingStepRefines == TypeOK /\ [BillingNext]_vars => [Next]_licVars
  <1> SUFFICES ASSUME TypeOK, [BillingNext]_vars PROVE [Next]_licVars
    OBVIOUS
  <1>1. ASSUME NEW o \in Orders, NEW row, NEW l \in Licenses, NEW b, Settle(o, row, l, b)
        PROVE  Next
    <2>1. o[1] \in Users
      BY DEF Orders
    <2>2. Fulfill(o[1], row, l)
      BY <1>1 DEF Settle
    <2>3. QED
      BY <2>1, <2>2, FulfillIsEffect DEF Next
  <1>2. ASSUME NEW c \in call, NEW l \in Licenses \cup {None}, InsertOrder(c, l)
        PROVE  OrderEffect \/ UNCHANGED licVars
    <2> DEFINE row == [status |-> "pending", product |-> c.product, license |-> c.license,
                       provider |-> c.provider, region |-> c.region, n |-> c.n,
                       amount |-> Price[c.product], balance |-> c.balance,
                       refunded |-> 0, expires |-> now + OrderTTL]
    <2>1. CASE UNCHANGED licVars
      BY <2>1
    <2>2. CASE l # None /\ c.user \in profile
               /\ Settle(<<c.user, c.key>>, row, l,
                         Move(balance, <<c.user, c.region>>, -c.balance, c.balance))
      <3>1. c.user \in Users /\ l \in Licenses
        BY <2>2 DEF TypeOK
      <3>2. Fulfill(c.user, row, l)
        BY <2>2 DEF Settle
      <3> HIDE DEF row
      <3>3. QED
        BY <3>1, <3>2, FulfillIsEffect
    <2>3. QED
      BY <1>2, <2>1, <2>2 DEF InsertOrder
  <1>3. ASSUME NEW o \in Orders, NEW l \in Licenses, Paid(o, l) PROVE Next
    BY <1>1, <1>3 DEF Paid
  <1>4. ASSUME NEW o \in Orders, Chargeback(o) PROVE OrderEffect \/ UNCHANGED licVars
    BY <1>4, SuspendIsEffect DEF Chargeback
  <1>5. ASSUME NEW f \in Refunds, CompleteRefund(f) PROVE OrderEffect \/ UNCHANGED licVars
    BY <1>5, SuspendIsEffect DEF CompleteRefund, licVars
  <1>6. ASSUME BillingStep PROVE OrderEffect \/ Next \/ UNCHANGED licVars
    <2>1. ASSUME NEW u \in Users, NEW k \in Keys, NEW product \in OnSale,
                 NEW l \in Licenses \cup {None}, NEW provider \in Gateways \cup {"balance"},
                 NEW n \in 0 .. MaxPaidRevokes, NEW b \in 0 .. MaxAmount,
                 QuoteOrder(u, k, product, l, provider, n, b)
          PROVE  UNCHANGED licVars
      BY <2>1 DEF QuoteOrder
    <2>2. ASSUME NEW c \in call, DropCall(c) PROVE UNCHANGED licVars
      BY <2>2 DEF DropCall
    <2>3. ASSUME NEW o \in Orders, Canceled(o) \/ ExpireOrder(o) PROVE UNCHANGED licVars
      BY <2>3 DEF Canceled, ExpireOrder, Release
    <2>4. ASSUME NEW f \in Refunds, NEW o \in Orders, NEW amount \in 1 .. MaxAmount,
                 CreateRefund(f, o, amount)
          PROVE  UNCHANGED licVars
      BY <2>4 DEF CreateRefund
    <2>5. ASSUME NEW w \in Withdrawals, NEW u \in Users, NEW amount \in 1 .. MaxAmount,
                 CreateWithdrawal(w, u, amount)
          PROVE  UNCHANGED licVars
      BY <2>5 DEF CreateWithdrawal
    <2>6. ASSUME NEW u \in Users, CheckWithdrawal(u) \/ DropWithdrawal(u) PROVE UNCHANGED licVars
      BY <2>6 DEF CheckWithdrawal, DropWithdrawal
    <2>7. ASSUME NEW w \in Withdrawals, NEW status \in {"paid", "rejected"},
                 ReviewWithdrawal(w, status)
          PROVE  UNCHANGED licVars
      BY <2>7 DEF ReviewWithdrawal
    <2>8. ASSUME NEW u \in Users,
                 DropRegion(u) \/ \E r \in Regions : CheckRegion(u, r) \/ SetRegion(u, r)
          PROVE  UNCHANGED licVars
      BY <2>8 DEF CheckRegion, SetRegion, DropRegion
    <2>9. QED
      BY <1>6, <1>2, <1>3, <1>4, <1>5, <2>1, <2>2, <2>3, <2>4, <2>5, <2>6, <2>7, <2>8
         DEF BillingStep
  <1>7. QED
    BY <1>6 DEF BillingNext, Next, vars

\* Orders, payments, reversals and refunds act on licenses only in the ways the
\* license state machine allows (fulfillD2SOrderTx, ProcessD2SPaymentEvent,
\* CompleteD2SAlipayRefund): the composed system implements D2SLicensing, whose
\* theorems therefore hold of it.
THEOREM Refinement == BillingSpec => ImplementsLicensing
  <1>1. BillingInit => Init /\ TypeOK
    BY InitTypeOK DEF BillingInit
  <1>2. TypeOK /\ [BillingNext]_vars => TypeOK' /\ [Next]_licVars
    BY BillingStepRefines, NextTypeOK
  <1>3. QED
    BY <1>1, <1>2, PTL DEF BillingSpec, ImplementsLicensing, Spec

\* With orders acting on them, the license tables stay as consistent as they are
\* on their own.
THEOREM LicensesStayConsistent == BillingSpec => []LicensingInv
  BY Refinement, LicensingInvariant, PTL DEF ImplementsLicensing

-----------------------------------------------------------------------------
Balances == [Accounts -> [available : Int, reserved : Nat]]

\* Adding to an account keeps the table's shape as long as the reserved column
\* does not become negative.
LEMMA MoveType ==
    ASSUME NEW b \in Balances, NEW a, NEW x \in Int, NEW y \in Int,
           a \in Accounts => b[a].reserved + y >= 0
    PROVE  /\ Move(b, a, x, y) \in Balances
           /\ a \in Accounts => Move(b, a, x, y)[a].reserved = b[a].reserved + y
  <1>1. CASE a \in Accounts
    <2>1. [available |-> b[a].available + x, reserved |-> b[a].reserved + y]
            \in [available : Int, reserved : Nat]
      BY <1>1 DEF Balances
    <2>2. QED
      BY <1>1, <2>1 DEF Move, Balances
  <1>2. CASE a \notin Accounts
    <2>1. Move(b, a, x, y) = b
      BY <1>2 DEF Move, Balances
    <2>2. QED
      BY <1>2, <2>1
  <1>3. QED
    BY <1>1, <1>2

\* What settling an order does to the tables of this module.
LEMMA SettleType ==
    ASSUME BillingTypeOK, NEW o \in Orders, NEW row \in OrderRow, NEW l \in Licenses,
           NEW b \in Balances, Settle(o, row, l, b)
    PROVE  /\ order' \in [Orders -> OrderRow]
           /\ order'[o].status = "paid"
           /\ order'[o].product = row.product
           /\ order'[o].provider = row.provider
           /\ \A p \in Orders \ {o} : order'[p] = order[p]
           /\ balance' \in Balances
           /\ \/ reward' = reward
              \/ Rewarded(o[1], row) /\ reward' = [reward EXCEPT ![o] = "credited"]
           /\ reward' \in [Orders -> {"none", "credited", "reversed"}]
  <1> DEFINE new == [row EXCEPT !.status = "paid", !.license = l]
             a == <<o[1], row.region>>
             consumed == Move(b, a, 0, -row.balance)
             final == Move(consumed, <<Inviter[o[1]], row.region>>, RewardAmount, 0)
  <1>1. /\ new \in OrderRow /\ new.status = "paid"
        /\ new.product = row.product /\ new.provider = row.provider
    BY DEF OrderRow
  <1>2. order' = [order EXCEPT ![o] = new]
    BY DEF Settle
  <1>3. row.balance \in Nat /\ row.balance <= b[a].reserved /\ -row.balance \in Int
    BY DEF Settle, OrderRow
  <1>4. a \in Accounts
    BY DEF Orders, Accounts, OrderRow
  <1>5. b[a].reserved + (-row.balance) >= 0
    BY <1>3, <1>4 DEF Balances
  <1>6. balance' = consumed \/ balance' = final
    BY DEF Settle
  <1> HIDE DEF new, a
  <1>7. consumed \in Balances
    BY <1>3, <1>5, MoveType
  <1> HIDE DEF consumed
  <1>8. \A x \in Accounts : consumed[x].reserved + 0 >= 0
    BY <1>7 DEF Balances
  <1>9. final \in Balances
    BY <1>7, <1>8, MoveType, BillingAssumption
  <1> HIDE DEF final
  <1>10. balance' \in Balances
    BY <1>6, <1>7, <1>9
  <1>11. /\ order' \in [Orders -> OrderRow]
         /\ order'[o] = new
         /\ \A p \in Orders \ {o} : order'[p] = order[p]
    BY <1>1, <1>2 DEF BillingTypeOK
  <1>12. \/ reward' = reward
         \/ Rewarded(o[1], row) /\ reward' = [reward EXCEPT ![o] = "credited"]
    BY DEF Settle
  <1>13. reward' \in [Orders -> {"none", "credited", "reversed"}]
    BY <1>12 DEF BillingTypeOK
  <1>14. QED
    BY <1>1, <1>10, <1>11, <1>12, <1>13

\* The row an order starts with.
NewOrder(c) == [status |-> "pending", product |-> c.product, license |-> c.license,
                provider |-> c.provider, region |-> c.region, n |-> c.n,
                amount |-> Price[c.product], balance |-> c.balance,
                refunded |-> 0, expires |-> now + OrderTTL]

\* The two ways the transaction of CreateD2SOrder ends, with the shape of what
\* it works on.
LEMMA InsertCases ==
    ASSUME BillingTypeOK, NEW c \in call, NEW l \in Licenses \cup {None}, InsertOrder(c, l)
    PROVE  LET o == <<c.user, c.key>>
               held == Move(balance, <<c.user, c.region>>, -c.balance, c.balance)
           IN  /\ o \in Orders /\ NewOrder(c) \in OrderRow /\ held \in Balances
               /\ order[o].status = "none"
               /\ c.product = "paid_revoke" => ~PendingRevoke(c.license)
               /\ \/ order' = [order EXCEPT ![o] = NewOrder(c)] /\ balance' = held
                     /\ UNCHANGED <<licVars, reward>>
                  \/ l \in Licenses /\ Settle(o, NewOrder(c), l, held)
               /\ call' = call \ {c}
               /\ UNCHANGED <<region, changing, paidEvent, withdrawing, withdrawal, refund>>
  <1> DEFINE held == Move(balance, <<c.user, c.region>>, -c.balance, c.balance)
  <1>1. c \in CallRow /\ now \in Nat
    BY DEF BillingTypeOK, TypeOK
  <1>2. <<c.user, c.key>> \in Orders /\ <<c.user, c.region>> \in Accounts
    BY <1>1 DEF CallRow, Orders, Accounts
  <1>3. NewOrder(c) \in OrderRow
    <2>1. Price[c.product] \in Nat /\ now + OrderTTL \in Nat
      BY <1>1, BillingAssumption DEF CallRow, Products
    <2>2. QED
      BY <1>1, <2>1 DEF CallRow, OrderRow, NewOrder
  <1>4. held \in Balances
    <2>1. c.balance \in Nat /\ -c.balance \in Int /\ balance \in Balances
      BY <1>1 DEF CallRow, BillingTypeOK, Balances
    <2>2. balance[<<c.user, c.region>>].reserved + c.balance >= 0
      BY <1>2, <2>1 DEF Balances
    <2>3. QED
      BY <2>1, <2>2, MoveType
  <1>5. QED
    BY <1>2, <1>3, <1>4 DEF InsertOrder, NewOrder

\* Every step of the composed system keeps the shape of the billing tables.
LEMMA NextBillingTypeOK == BillingTypeOK /\ [BillingNext]_vars => BillingTypeOK'
  <1> SUFFICES ASSUME BillingTypeOK, [BillingNext]_vars PROVE BillingTypeOK'
    OBVIOUS
  <1> USE BillingAssumption
  <1>0. TypeOK'
    BY BillingStepRefines, NextTypeOK DEF BillingTypeOK
  <1>1. ASSUME NEW u \in Users, NEW k \in Keys, NEW product \in OnSale,
               NEW l \in Licenses \cup {None}, NEW provider \in Gateways \cup {"balance"},
               NEW n \in 0 .. MaxPaidRevokes, NEW b \in 0 .. MaxAmount,
               QuoteOrder(u, k, product, l, provider, n, b)
        PROVE  BillingTypeOK'
    <2> DEFINE r == IF provider = "balance" THEN region[u] ELSE ProviderRegion(provider)
    <2>1. r \in Regions
      BY <1>1 DEF QuoteOrder, BillingTypeOK, ProviderRegion, Regions
    <2>2. b \in Nat /\ n \in Nat /\ product \in Products /\ provider \in Providers
      BY DEF Products, Providers
    <2>3. call' = call \cup {[user |-> u, key |-> k, product |-> product, license |-> l,
                              provider |-> provider, region |-> r, n |-> n, balance |-> b]}
      BY <1>1 DEF QuoteOrder
    <2> HIDE DEF r
    <2>4. call' \subseteq CallRow
      BY <2>1, <2>2, <2>3 DEF BillingTypeOK, CallRow
    <2>5. QED
      BY <1>0, <1>1, <2>4 DEF BillingTypeOK, QuoteOrder
  <1>2. ASSUME NEW c \in call, NEW l \in Licenses \cup {None}, InsertOrder(c, l)
        PROVE  BillingTypeOK'
    <2> DEFINE o == <<c.user, c.key>>
               held == Move(balance, <<c.user, c.region>>, -c.balance, c.balance)
    <2>1. /\ o \in Orders /\ NewOrder(c) \in OrderRow /\ held \in Balances
          /\ \/ order' = [order EXCEPT ![o] = NewOrder(c)] /\ balance' = held
                /\ UNCHANGED reward
             \/ l \in Licenses /\ Settle(o, NewOrder(c), l, held)
          /\ call' = call \ {c}
          /\ UNCHANGED <<region, changing, paidEvent, withdrawing, withdrawal, refund>>
      BY <1>2, InsertCases
    <2> HIDE DEF o, held
    <2>2. /\ order' \in [Orders -> OrderRow] /\ balance' \in Balances
          /\ reward' \in [Orders -> {"none", "credited", "reversed"}]
      <3>1. CASE order' = [order EXCEPT ![o] = NewOrder(c)] /\ balance' = held /\ UNCHANGED reward
        BY <2>1, <3>1 DEF BillingTypeOK
      <3>2. CASE l \in Licenses /\ Settle(o, NewOrder(c), l, held)
        BY <2>1, <3>2, SettleType
      <3>3. QED
        BY <2>1, <3>1, <3>2
    <2>3. QED
      BY <1>0, <2>1, <2>2 DEF BillingTypeOK, Balances
  <1>3. ASSUME NEW c \in call, DropCall(c) PROVE BillingTypeOK'
    BY <1>0, <1>3 DEF BillingTypeOK, DropCall
  <1>4. ASSUME NEW o \in Orders, NEW l \in Licenses, Paid(o, l) PROVE BillingTypeOK'
    <2>1. order[o] \in OrderRow /\ balance \in Balances
      BY DEF BillingTypeOK, Balances
    <2>2. /\ order' \in [Orders -> OrderRow] /\ balance' \in Balances
          /\ reward' \in [Orders -> {"none", "credited", "reversed"}]
      BY <1>4, <2>1, SettleType DEF Paid
    <2>3. region' \in [Users -> Regions \cup {None}]
      BY <1>4, <2>1 DEF Paid, BillingTypeOK, OrderRow
    <2>4. QED
      BY <1>0, <1>4, <2>2, <2>3 DEF Paid, BillingTypeOK, Balances
  <1>5. ASSUME NEW o \in Orders, Release(o) PROVE BillingTypeOK'
    <2> DEFINE row == order[o]
               a == <<o[1], row.region>>
    <2>1. row \in OrderRow /\ balance \in Balances /\ a \in Accounts
      BY DEF BillingTypeOK, Balances, Orders, Accounts, OrderRow
    <2>2. row.balance \in Nat /\ -row.balance \in Int /\ row.balance <= balance[a].reserved
      BY <1>5, <2>1 DEF Release, OrderRow
    <2>3. balance[a].reserved + (-row.balance) >= 0
      BY <2>1, <2>2 DEF Balances
    <2>4. balance' = Move(balance, a, row.balance, -row.balance)
      BY <1>5 DEF Release
    <2>5. balance' \in Balances
      <3> HIDE DEF row, a
      <3>1. QED
        BY <2>1, <2>2, <2>3, <2>4, MoveType
    <2>6. [row EXCEPT !.status = "canceled"] \in OrderRow
      BY <2>1 DEF OrderRow
    <2>7. order' \in [Orders -> OrderRow]
      BY <1>5, <2>6 DEF Release, BillingTypeOK
    <2>8. QED
      BY <1>0, <1>5, <2>5, <2>7 DEF Release, BillingTypeOK, Balances
  <1>6. ASSUME NEW o, Reverse(o)
        PROVE  /\ balance' \in Balances
               /\ reward' \in [Orders -> {"none", "credited", "reversed"}]
    <2> DEFINE a == <<Inviter[o[1]], order[o].region>>
    <2>1. balance \in Balances
      BY DEF BillingTypeOK, Balances
    <2>2. CASE reward[o] = "credited"
      <3>1. balance' = Move(balance, a, -RewardAmount, 0) /\ -RewardAmount \in Int
        BY <1>6, <2>2 DEF Reverse
      <3>2. reward' = [reward EXCEPT ![o] = "reversed"]
        BY <1>6, <2>2 DEF Reverse
      <3>3. \A x \in Accounts : balance[x].reserved + 0 >= 0
        BY <2>1 DEF Balances
      <3> HIDE DEF a
      <3>4. balance' \in Balances
        BY <2>1, <3>1, <3>3, MoveType
      <3>5. QED
        BY <3>2, <3>4 DEF BillingTypeOK
    <2>3. CASE reward[o] # "credited"
      BY <1>6, <2>1, <2>3 DEF Reverse, BillingTypeOK
    <2>4. QED
      BY <2>2, <2>3
  <1>7. ASSUME NEW o \in Orders, Chargeback(o) PROVE BillingTypeOK'
    <2>0. order[o] \in OrderRow
      BY DEF BillingTypeOK
    <2>1. [order[o] EXCEPT !.status = "chargeback"] \in OrderRow
      BY <2>0 DEF OrderRow
    <2>2. order' \in [Orders -> OrderRow]
      BY <1>7, <2>1 DEF Chargeback, BillingTypeOK
    <2>3. QED
      BY <1>0, <1>6, <1>7, <2>2 DEF Chargeback, BillingTypeOK, Balances
  <1>8. ASSUME NEW f \in Refunds, NEW o \in Orders, NEW amount \in 1 .. MaxAmount,
               CreateRefund(f, o, amount)
        PROVE  BillingTypeOK'
    <2>1. [order |-> o, amount |-> amount, status |-> "pending"] \in RefundRow
      BY DEF RefundRow
    <2>2. refund' \in [Refunds -> RefundRow]
      BY <1>8, <2>1 DEF CreateRefund, BillingTypeOK
    <2>3. QED
      BY <1>0, <1>8, <2>2 DEF CreateRefund, BillingTypeOK
  <1>9. ASSUME NEW f \in Refunds, CompleteRefund(f) PROVE BillingTypeOK'
    <2> DEFINE o == refund[f].order
               row == order[o]
               sum == row.refunded + refund[f].amount
               st == IF sum = Gateway(row) THEN "chargeback" ELSE "paid"
               new == [row EXCEPT !.refunded = sum, !.status = st]
    <2>1. refund[f] \in RefundRow
      BY DEF BillingTypeOK
    <2>2. [refund[f] EXCEPT !.status = "completed"] \in RefundRow
      BY <2>1 DEF RefundRow
    <2>3. refund' \in [Refunds -> RefundRow]
      BY <1>9, <2>2 DEF CompleteRefund, BillingTypeOK
    <2>4. order' = [order EXCEPT ![o] = new]
      BY <1>9 DEF CompleteRefund
    <2>5. order' \in [Orders -> OrderRow]
      <3>1. CASE o \in Orders
        <4>1. row \in OrderRow /\ sum \in Nat
          BY <2>1, <3>1 DEF BillingTypeOK, OrderRow, RefundRow
        <4>2. st \in {"chargeback", "paid"}
          OBVIOUS
        <4> HIDE DEF sum, st
        <4>3. new \in OrderRow
          BY <4>1, <4>2 DEF OrderRow
        <4> HIDE DEF new, o
        <4>4. QED
          BY <2>4, <3>1, <4>3 DEF BillingTypeOK
      <3>2. CASE o \notin Orders
        <4> HIDE DEF new, o
        <4>1. order' = order
          BY <2>4, <3>2 DEF BillingTypeOK
        <4>2. QED
          BY <4>1 DEF BillingTypeOK
      <3>3. QED
        BY <3>1, <3>2
    <2>6. /\ balance' \in Balances
          /\ reward' \in [Orders -> {"none", "credited", "reversed"}]
      <3>1. CASE Reverse(o)
        BY <3>1, <1>6
      <3>2. CASE UNCHANGED <<balance, reward>>
        BY <3>2 DEF BillingTypeOK, Balances
      <3>3. QED
        BY <1>9, <3>1, <3>2 DEF CompleteRefund
    <2>7. QED
      BY <1>0, <1>9, <2>3, <2>5, <2>6 DEF CompleteRefund, BillingTypeOK, Balances
  <1>10. ASSUME NEW u \in Users, CheckWithdrawal(u) \/ DropWithdrawal(u) PROVE BillingTypeOK'
    BY <1>0, <1>10 DEF CheckWithdrawal, DropWithdrawal, BillingTypeOK
  <1>11. ASSUME NEW w \in Withdrawals, NEW u \in Users, NEW amount \in 1 .. MaxAmount,
                CreateWithdrawal(w, u, amount)
         PROVE  BillingTypeOK'
    <2>1. [user |-> u, amount |-> amount, status |-> "pending"] \in WithdrawalRow
      BY DEF WithdrawalRow
    <2>2. withdrawal' \in [Withdrawals -> WithdrawalRow]
      BY <1>11, <2>1 DEF CreateWithdrawal, BillingTypeOK
    <2>3. balance \in Balances /\ amount \in Int /\ -amount \in Int
      BY DEF BillingTypeOK, Balances
    <2>4. <<u, "CN">> \in Accounts => balance[<<u, "CN">>].reserved + amount >= 0
      BY <2>3 DEF Balances
    <2>5. balance' \in Balances
      BY <1>11, <2>3, <2>4, MoveType DEF CreateWithdrawal
    <2>6. QED
      BY <1>0, <1>11, <2>2, <2>5 DEF CreateWithdrawal, BillingTypeOK, Balances
  <1>12. ASSUME NEW w \in Withdrawals, NEW status \in {"paid", "rejected"},
                ReviewWithdrawal(w, status)
         PROVE  BillingTypeOK'
    <2> DEFINE row == withdrawal[w]
               a == <<row.user, "CN">>
               back == IF status = "rejected" THEN row.amount ELSE 0
    <2>1. row \in WithdrawalRow /\ balance \in Balances
      BY DEF BillingTypeOK, Balances
    <2>2. row.amount \in Nat /\ -row.amount \in Int /\ back \in Int
      BY <2>1 DEF WithdrawalRow
    <2>3. [row EXCEPT !.status = status] \in WithdrawalRow
      BY <2>1 DEF WithdrawalRow
    <2>4. withdrawal' \in [Withdrawals -> WithdrawalRow]
      BY <1>12, <2>3 DEF ReviewWithdrawal, BillingTypeOK
    <2>5. balance' = Move(balance, a, back, -row.amount) /\ row.amount <= balance[a].reserved
      BY <1>12 DEF ReviewWithdrawal
    <2> HIDE DEF row, a, back
    <2>6. a \in Accounts => balance[a].reserved + (-row.amount) >= 0
      BY <2>1, <2>2, <2>5 DEF Balances
    <2>7. balance' \in Balances
      BY <2>1, <2>2, <2>5, <2>6, MoveType
    <2>8. QED
      BY <1>0, <1>12, <2>4, <2>7 DEF ReviewWithdrawal, BillingTypeOK, Balances
  <1>13. ASSUME NEW u \in Users,
                DropRegion(u) \/ \E r \in Regions : CheckRegion(u, r) \/ SetRegion(u, r)
         PROVE  BillingTypeOK'
    BY <1>0, <1>13 DEF CheckRegion, SetRegion, DropRegion, BillingTypeOK
  <1>14. CASE UNCHANGED billVars
    BY <1>0, <1>14 DEF billVars, BillingTypeOK
  <1>15. QED
    BY <1>1, <1>2, <1>3, <1>4, <1>5, <1>7, <1>8, <1>9, <1>10, <1>11, <1>12, <1>13, <1>14
       DEF BillingNext, BillingStep, Canceled, ExpireOrder, vars

\* Every billing table keeps its shape; in particular no reserved column becomes
\* negative (settleD2SReservedBalanceTx, ReviewD2SWithdrawal).
THEOREM BillingTypeCorrect == BillingSpec => []BillingTypeOK
  <1>1. BillingInit => BillingTypeOK
    BY InitTypeOK
       DEF BillingInit, BillingTypeOK, NoOrder, OrderRow, Products, Providers, Regions,
           NoWithdrawal, WithdrawalRow, NoRefund, RefundRow, Orders, Accounts
  <1>2. BillingTypeOK /\ [BillingNext]_vars => BillingTypeOK'
    BY NextBillingTypeOK
  <1>3. QED
    BY <1>1, <1>2, PTL DEF BillingSpec

-----------------------------------------------------------------------------
\* What a step may do to orders and rewards: nothing, create a pending order,
\* settle an order with or without a reward, end a pending order, count a
\* partial refund, or reverse a payment with its reward.  An order keeps its
\* payment provider.
OrderMove ==
    \/ UNCHANGED <<order, reward>>
    \/ \E o \in Orders :
        /\ \A p \in Orders \ {o} : order'[p] = order[p] /\ reward'[p] = reward[p]
        /\ order[o].status # "none" => order'[o].provider = order[o].provider
        /\ \/ /\ order[o].status = "none" /\ order'[o].status = "pending"
              /\ order'[o].product = "paid_revoke" => ~PendingRevoke(order'[o].license)
              /\ reward'[o] = reward[o]
           \/ /\ order[o].status \in {"none", "pending"} /\ order'[o].status = "paid"
              /\ \/ reward'[o] = reward[o]
                 \/ /\ reward'[o] = "credited"
                    /\ \A k \in Keys : reward[<<o[1], k>>] = "none"
           \/ /\ order[o].status = "pending" /\ order'[o].status = "canceled"
              /\ reward'[o] = reward[o]
           \/ order[o].status = "paid" /\ order'[o].status = "paid" /\ reward'[o] = reward[o]
           \/ /\ order[o].status = "paid" /\ order'[o].status = "chargeback"
              /\ reward'[o] = IF reward[o] = "credited" THEN "reversed" ELSE reward[o]

\* Reversing the reward of an order touches no other reward.
LEMMA ReverseEffect ==
    ASSUME BillingTypeOK, NEW o \in Orders, Reverse(o)
    PROVE  /\ reward'[o] = IF reward[o] = "credited" THEN "reversed" ELSE reward[o]
           /\ \A p \in Orders \ {o} : reward'[p] = reward[p]
  BY DEF Reverse, BillingTypeOK

\* Settling an order touches no other order and rewards it at most.
LEMMA SettleEffect ==
    ASSUME BillingTypeOK, NEW o \in Orders, NEW row \in OrderRow, NEW l \in Licenses,
           NEW b \in Balances, Settle(o, row, l, b), order[o].status \in {"none", "pending"},
           order[o].status # "none" => row.provider = order[o].provider
    PROVE  OrderMove
  <1>1. /\ order'[o].status = "paid"
        /\ order'[o].provider = row.provider
        /\ \A p \in Orders \ {o} : order'[p] = order[p]
        /\ \/ reward' = reward
           \/ Rewarded(o[1], row) /\ reward' = [reward EXCEPT ![o] = "credited"]
    BY SettleType
  <1>2. \/ reward'[o] = reward[o]
        \/ reward'[o] = "credited" /\ \A k \in Keys : reward[<<o[1], k>>] = "none"
    BY <1>1 DEF Rewarded, BillingTypeOK
  <1>3. \A p \in Orders \ {o} : reward'[p] = reward[p]
    BY <1>1 DEF BillingTypeOK
  <1>4. QED
    BY <1>1, <1>2, <1>3 DEF OrderMove

\* Every step moves orders and rewards in one of these ways.
LEMMA NextOrderMove == BillingTypeOK /\ [BillingNext]_vars => OrderMove
  <1> SUFFICES ASSUME BillingTypeOK, [BillingNext]_vars PROVE OrderMove
    OBVIOUS
  <1>1. CASE UNCHANGED <<order, reward>>
    BY <1>1 DEF OrderMove
  <1>2. ASSUME NEW c \in call, NEW l \in Licenses \cup {None}, InsertOrder(c, l) PROVE OrderMove
    <2> DEFINE o == <<c.user, c.key>>
               held == Move(balance, <<c.user, c.region>>, -c.balance, c.balance)
    <2>1. /\ o \in Orders /\ NewOrder(c) \in OrderRow /\ held \in Balances
          /\ order[o].status = "none"
          /\ c.product = "paid_revoke" => ~PendingRevoke(c.license)
          /\ \/ order' = [order EXCEPT ![o] = NewOrder(c)] /\ UNCHANGED reward
             \/ l \in Licenses /\ Settle(o, NewOrder(c), l, held)
      BY <1>2, InsertCases
    <2>2. /\ NewOrder(c).status = "pending"
          /\ NewOrder(c).product = c.product
          /\ NewOrder(c).license = c.license
      BY DEF NewOrder
    <2> HIDE DEF o, held
    <2>3. CASE order' = [order EXCEPT ![o] = NewOrder(c)] /\ UNCHANGED reward
      <3>1. order'[o] = NewOrder(c) /\ \A p \in Orders \ {o} : order'[p] = order[p]
        BY <2>1, <2>3 DEF BillingTypeOK
      <3>2. QED
        BY <2>1, <2>2, <2>3, <3>1 DEF OrderMove
    <2>4. CASE l \in Licenses /\ Settle(o, NewOrder(c), l, held)
      BY <2>1, <2>4, SettleEffect
    <2>5. QED
      BY <2>1, <2>3, <2>4
  <1>3. ASSUME NEW o \in Orders, NEW l \in Licenses, Paid(o, l) PROVE OrderMove
    <2>1. order[o] \in OrderRow /\ balance \in Balances
      BY DEF BillingTypeOK, Balances
    <2>2. QED
      BY <1>3, <2>1, SettleEffect DEF Paid
  <1>4. ASSUME NEW o \in Orders, Release(o) PROVE OrderMove
    <2>1. order[o] \in OrderRow
      BY DEF BillingTypeOK
    <2>2. /\ order[o].status = "pending" /\ order'[o].status = "canceled" /\ UNCHANGED reward
          /\ order'[o].provider = order[o].provider
          /\ \A p \in Orders \ {o} : order'[p] = order[p]
      BY <1>4, <2>1 DEF Release, BillingTypeOK, OrderRow
    <2>3. QED
      BY <2>2 DEF OrderMove
  <1>5. ASSUME NEW o \in Orders, Chargeback(o) PROVE OrderMove
    <2>1. order[o] \in OrderRow
      BY DEF BillingTypeOK
    <2>2. /\ order[o].status = "paid" /\ order'[o].status = "chargeback"
          /\ order'[o].provider = order[o].provider
          /\ \A p \in Orders \ {o} : order'[p] = order[p]
      BY <1>5, <2>1 DEF Chargeback, BillingTypeOK, OrderRow
    <2>3. QED
      BY <1>5, <2>2, ReverseEffect DEF Chargeback, OrderMove
  <1>6. ASSUME NEW f \in Refunds, CompleteRefund(f) PROVE OrderMove
    <2> DEFINE o == refund[f].order
               st == IF order[o].refunded + refund[f].amount = Gateway(order[o])
                     THEN "chargeback" ELSE "paid"
               new == [order[o] EXCEPT !.refunded = order[o].refunded + refund[f].amount,
                                       !.status = st]
    <2>1. order' = [order EXCEPT ![o] = new]
      BY <1>6 DEF CompleteRefund
    <2>2. /\ order[o].status = "paid"
          /\ \/ st = "chargeback" /\ Reverse(o)
             \/ st = "paid" /\ UNCHANGED reward
      BY <1>6 DEF CompleteRefund
    <2>3. CASE o \in Orders
      <3>1. order[o] \in OrderRow
        BY <2>3 DEF BillingTypeOK
      <3> HIDE DEF st
      <3>2. new.status = st /\ new.provider = order[o].provider
        BY <3>1 DEF OrderRow
      <3> HIDE DEF new, o
      <3>3. /\ order'[o].status = st /\ order'[o].provider = order[o].provider
            /\ \A p \in Orders \ {o} : order'[p] = order[p]
        BY <2>1, <2>3, <3>2 DEF BillingTypeOK
      <3>4. QED
        BY <2>2, <2>3, <3>3, ReverseEffect DEF OrderMove
    <2>4. CASE o \notin Orders
      <3> HIDE DEF new, o, st
      <3>1. order' = order
        BY <2>1, <2>4 DEF BillingTypeOK
      <3>2. reward' = reward
        BY <2>2, <2>4 DEF Reverse, BillingTypeOK
      <3>3. QED
        BY <3>1, <3>2 DEF OrderMove
    <2>5. QED
      BY <2>3, <2>4
  <1>7. ASSUME NEW u \in Users, NEW k \in Keys, NEW product \in OnSale,
               NEW l \in Licenses \cup {None}, NEW provider \in Gateways \cup {"balance"},
               NEW n \in 0 .. MaxPaidRevokes, NEW b \in 0 .. MaxAmount,
               QuoteOrder(u, k, product, l, provider, n, b)
        PROVE  UNCHANGED <<order, reward>>
    BY <1>7 DEF QuoteOrder
  <1>8. ASSUME NEW c \in call, DropCall(c) PROVE UNCHANGED <<order, reward>>
    BY <1>8 DEF DropCall
  <1>9. ASSUME NEW f \in Refunds, NEW o \in Orders, NEW amount \in 1 .. MaxAmount,
               CreateRefund(f, o, amount)
        PROVE  UNCHANGED <<order, reward>>
    BY <1>9 DEF CreateRefund
  <1>10. ASSUME NEW u \in Users, CheckWithdrawal(u) \/ DropWithdrawal(u)
         PROVE  UNCHANGED <<order, reward>>
    BY <1>10 DEF CheckWithdrawal, DropWithdrawal
  <1>11. ASSUME NEW w \in Withdrawals, NEW u \in Users, NEW amount \in 1 .. MaxAmount,
                CreateWithdrawal(w, u, amount)
         PROVE  UNCHANGED <<order, reward>>
    BY <1>11 DEF CreateWithdrawal
  <1>12. ASSUME NEW w \in Withdrawals, NEW status \in {"paid", "rejected"},
                ReviewWithdrawal(w, status)
         PROVE  UNCHANGED <<order, reward>>
    BY <1>12 DEF ReviewWithdrawal
  <1>13. ASSUME NEW u \in Users,
                DropRegion(u) \/ \E r \in Regions : CheckRegion(u, r) \/ SetRegion(u, r)
         PROVE  UNCHANGED <<order, reward>>
    BY <1>13 DEF CheckRegion, SetRegion, DropRegion
  <1>14. CASE UNCHANGED billVars
    BY <1>1, <1>14 DEF billVars
  <1>15. QED
    BY <1>1, <1>2, <1>3, <1>4, <1>5, <1>6, <1>7, <1>8, <1>9, <1>10, <1>11, <1>12, <1>13, <1>14
       DEF BillingNext, BillingStep, Canceled, ExpireOrder, vars

\* A reward stands exactly as long as its payment (awardD2SInviteTx,
\* reverseD2SInviteRewardTx).
THEOREM RewardsFollowOrders == BillingSpec => []RewardFollowsOrder
  <1>1. BillingInit => RewardFollowsOrder
    BY DEF BillingInit, RewardFollowsOrder
  <1>2. RewardFollowsOrder /\ OrderMove => RewardFollowsOrder'
    BY DEF RewardFollowsOrder, OrderMove
  <1>3. QED
    BY <1>1, <1>2, BillingTypeCorrect, NextOrderMove, PTL DEF BillingSpec

\* An invited account earns its inviter at most one reward (awardD2SInviteTx).
THEOREM RewardedOnce == BillingSpec => []OneRewardPerInvitee
  <1>1. BillingInit => OneRewardPerInvitee
    BY DEF BillingInit, OneRewardPerInvitee, Orders
  <1>2. OneRewardPerInvitee /\ BillingTypeOK /\ OrderMove => OneRewardPerInvitee'
    <2> SUFFICES ASSUME OneRewardPerInvitee, OrderMove, NEW u \in Users,
                        NEW j \in Keys, NEW k \in Keys, j # k,
                        reward'[<<u, j>>] # "none", reward'[<<u, k>>] # "none"
                 PROVE  FALSE
      BY DEF OneRewardPerInvitee
    <2>1. <<u, j>> \in Orders /\ <<u, k>> \in Orders /\ <<u, j>> # <<u, k>>
      BY DEF Orders
    <2>2. reward[<<u, j>>] = "none" \/ reward[<<u, k>>] = "none"
      BY DEF OneRewardPerInvitee
    <2>3. CASE UNCHANGED reward
      BY <2>2, <2>3
    <2>4. ASSUME NEW o \in Orders,
                 \A p \in Orders \ {o} : reward'[p] = reward[p],
                 \/ reward'[o] = reward[o]
                 \/ reward'[o] = "credited" /\ \A i \in Keys : reward[<<o[1], i>>] = "none"
                 \/ reward'[o] = IF reward[o] = "credited" THEN "reversed" ELSE reward[o]
          PROVE  FALSE
      <3>1. CASE o = <<u, j>>
        BY <2>1, <2>2, <2>4, <3>1
      <3>2. CASE o = <<u, k>>
        BY <2>1, <2>2, <2>4, <3>2
      <3>3. CASE o # <<u, j>> /\ o # <<u, k>>
        BY <2>1, <2>2, <2>4, <3>3
      <3>4. QED
        BY <3>1, <3>2, <3>3
    <2>5. QED
      BY <2>3, <2>4 DEF OrderMove
  <1>3. QED
    BY <1>1, <1>2, BillingTypeCorrect, NextOrderMove, PTL DEF BillingSpec

\* A license has at most one paid revoke order waiting for its payment
\* (CreateD2SOrder).
THEOREM PendingRevokeOnce == BillingSpec => []OnePendingRevoke
  <1>1. BillingInit => OnePendingRevoke
    BY DEF BillingInit, OnePendingRevoke, NoOrder
  <1>2. OnePendingRevoke /\ OrderMove => OnePendingRevoke'
    BY DEF OnePendingRevoke, OrderMove, PendingRevoke
  <1>3. QED
    BY <1>1, <1>2, BillingTypeCorrect, NextOrderMove, PTL DEF BillingSpec
=============================================================================
