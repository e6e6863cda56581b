----------------------------- MODULE D2SBilling -----------------------------
(***************************************************************************)
(* Orders, payment events, balances, invite rewards, withdrawals, refunds  *)
(* and the account region, composed with the licenses they act on          *)
(* (D2SLicensing): a settled order performs one of the order effects of    *)
(* that module in the same transaction.                                    *)
(*                                                                         *)
(* Creating an order is two steps, because CreateD2SOrder quotes the order *)
(* outside the transaction that inserts it; so is a withdrawal, whose      *)
(* region check precedes its transaction, and a change of region, whose    *)
(* counts are not covered by the row it locks.  Everything else is one     *)
(* transaction and one action.  A payment event is delivered any number of *)
(* times and in any order: a replay under a known event id changes nothing *)
(* and is a stuttering step, and every event may come again under a fresh  *)
(* id (the Alipay notification and the query of the same trade do).        *)
(*                                                                         *)
(* A region stands for its currency too (CN and CNY, INTL and USD).        *)
(***************************************************************************)
EXTENDS D2SLicensing, Functions

CONSTANTS
    Keys,           \* idempotency keys of a user's orders
    Withdrawals,    \* pool of withdrawal request ids
    Refunds,        \* pool of refund request numbers
    Gateways,       \* payment providers enabled for new orders
    OnSale,         \* bound: the products that are ordered
    Inviter,        \* user -> the user who invited them, or None
    Price,          \* product -> price
    RewardAmount,   \* invite reward
    MinWithdrawal,  \* least amount of a withdrawal
    OrderTTL,       \* half an hour
    SingleWriter,   \* the database is SQLite: a transaction whose reads are stale fails
    MaxCalls        \* bound: order requests in flight

\* "epay" stands for the CN providers that only send notifications, "stripe"
\* for the INTL ones.
ASSUME BillingAssumption ==
    /\ IsFiniteSet(Users) /\ IsFiniteSet(Keys)
    /\ IsFiniteSet(Withdrawals) /\ IsFiniteSet(Refunds)
    /\ Gateways \subseteq {"alipay_pc", "epay", "stripe"}
    /\ OnSale \subseteq {"license", "paid_revoke", "offline_extension"}
    /\ Inviter \in [Users -> Users \cup {None}]
    /\ Price \in [{"license", "paid_revoke", "offline_extension"} -> Nat \ {0}]
    /\ RewardAmount \in Nat \ {0}
    /\ MinWithdrawal \in Nat \ {0}
    /\ OrderTTL \in Nat \ {0}
    /\ MaxCalls \in Nat
    /\ SingleWriter \in BOOLEAN
    /\ None \notin {"CN", "INTL"}

VARIABLES
    region,       \* D2SUserProfile.Region: user -> region, None until locked
    changing,     \* SetD2SUserRegion between its counts and its write: user -> region
    call,         \* CreateD2SOrder requests between their quote and their transaction
    order,        \* D2SOrder, by user and idempotency key
    paidEvent,    \* orders with a "paid" row in D2SPaymentEvent
    balance,      \* D2SBalanceAccount, by user and currency
    reward,       \* D2SInviteReward: order -> status
    withdrawing,  \* users between the region check and the transaction of a withdrawal
    withdrawal,   \* D2SWithdrawalRequest
    refund        \* D2SAlipayRefund

billVars == <<region, changing, call, order, paidEvent, balance, reward, withdrawing,
              withdrawal, refund>>
vars == <<licVars, billVars>>

Products == {"license", "paid_revoke", "offline_extension"}
Regions == {"CN", "INTL"}
Providers == {"alipay_pc", "epay", "stripe", "balance"}
ProviderRegion(p) == IF p = "stripe" THEN "INTL" ELSE "CN"

Orders == Users \X Keys
Accounts == Users \X Regions

CallRow == [user : Users, key : Keys, product : Products,
            license : Licenses \cup {None}, provider : Providers,
            region : Regions, n : Nat, balance : Nat]

OrderRow == [status : {"none", "pending", "paid", "canceled", "chargeback"},
             product : Products, license : Licenses \cup {None},
             provider : Providers, region : Regions, n : Nat,   \* RevokeNumber
             amount : Nat, balance : Nat,       \* AmountMinor, BalanceMinor
             refunded : Nat, expires : Nat]

NoOrder == [status |-> "none", product |-> "license", license |-> None,
            provider |-> "balance", region |-> "CN", n |-> 0,
            amount |-> 0, balance |-> 0, refunded |-> 0, expires |-> 0]

WithdrawalRow == [user : Users \cup {None}, amount : Nat,
                  status : {"none", "pending", "paid", "rejected"}]
NoWithdrawal == [user |-> None, amount |-> 0, status |-> "none"]

RefundRow == [order : Orders \cup {None}, amount : Nat,
              status : {"none", "pending", "completed"}]
NoRefund == [order |-> None, amount |-> 0, status |-> "none"]

Gateway(row) == row.amount - row.balance   \* GatewayMinor

\* Adds to the two columns of an account.
Move(b, a, available, reserved) ==
    [b EXCEPT ![a] = [available |-> @.available + available,
                      reserved  |-> @.reserved + reserved]]

BillingInit ==
    /\ Init
    /\ region = [u \in Users |-> None]
    /\ changing = [u \in Users |-> None]
    /\ call = {}
    /\ order = [o \in Orders |-> NoOrder]
    /\ paidEvent = {}
    /\ balance = [a \in Accounts |-> [available |-> 0, reserved |-> 0]]
    /\ reward = [o \in Orders |-> "none"]
    /\ withdrawing = {}
    /\ withdrawal = [w \in Withdrawals |-> NoWithdrawal]
    /\ refund = [f \in Refunds |-> NoRefund]

-----------------------------------------------------------------------------
(* Creating an order.                                                      *)

\* The conditions of QuoteD2SOrder on the product; n is the revoke's number.
Quotable(u, product, l, n) ==
    \/ product = "license" /\ l = None /\ n = 0
    \/ /\ product = "paid_revoke"
       /\ l # None /\ license[l].user = u /\ Usable(l)
       /\ license[l].mode # "permanent" /\ license[l].device # None
       /\ n = quota[l][Month(now)] + 1 /\ n <= MaxPaidRevokes
    \/ /\ product = "offline_extension"
       /\ l # None /\ license[l].user = u /\ Usable(l)
       /\ license[l].mode # "permanent" /\ n = 0

\* What an order may take from the balance: all of it with the provider
\* "balance", nothing with Alipay, less than all with another gateway.
BalanceShare(provider, price) ==
    CASE provider = "balance"   -> {price}
      [] provider = "alipay_pc" -> {0}
      [] OTHER                  -> 0 .. (price - 1)

\* The part of CreateD2SOrder before its transaction: no order has the key yet
\* and the server's own quote agrees with the client's.
\* QuoteD2SOrder first creates a missing profile and trial in a transaction of
\* its own, which is EnsureProfileAndTrial.
QuoteOrder(u, k, product, l, provider, n, b) ==
    LET r == IF provider = "balance" THEN region[u] ELSE ProviderRegion(provider) IN
    /\ u \in profile /\ u \notin deleted
    /\ order[<<u, k>>].status = "none"
    /\ r # None
    /\ region[u] \in {None, r}
    /\ Quotable(u, product, l, n)
    /\ b \in BalanceShare(provider, Price[product])
    /\ Cardinality(call) < MaxCalls
    /\ call' = call \cup {[user |-> u, key |-> k, product |-> product, license |-> l,
                           provider |-> provider, region |-> r, n |-> n, balance |-> b]}
    /\ UNCHANGED <<licVars, region, changing, order, paidEvent, balance, reward, withdrawing,
                   withdrawal, refund>>

\* The profile row is locked by a change of the region.  Settling an order waits
\* for it; the approval of a manual unbind and the deletion of the account wait
\* too, but meet nothing that the change writes, and are left alone here.
Locked(u) == changing[u] # None

\* awardD2SInviteTx: the conditions of an invite reward.  The inviter's profile
\* is read without a lock, also while its region is being changed.
Rewarded(u, row) ==
    LET inviter == Inviter[u] IN
    /\ row.product = "license"
    /\ inviter # None /\ inviter # u
    /\ \A k \in Keys : reward[<<u, k>>] = "none"
    /\ inviter \in profile /\ region[inviter] = row.region
    /\ \E l \in Licenses : /\ license[l].user = inviter /\ license[l].kind = "paid"
                           /\ license[l].status = "active" /\ ~Expired(l)

\* fulfillD2SOrderTx: l is the license the order is about, a new one if it buys one.
Fulfill(u, row, l) ==
    \/ row.product = "license" /\ FulfillLicense(u, l)
    \/ row.product = "paid_revoke" /\ l = row.license /\ FulfillPaidRevoke(l, row.n)
    \/ row.product = "offline_extension" /\ l = row.license /\ FulfillOfflineExtension(l)

\* Fulfilling an order, rewarding the inviter and consuming the reserved share,
\* on top of the balances b.
Settle(o, row, l, b) ==
    LET u == o[1]
        consumed == Move(b, <<u, row.region>>, 0, -row.balance)
        wins == Rewarded(u, row)
    IN  /\ Fulfill(u, row, l)
        /\ row.balance <= b[<<u, row.region>>].reserved
        /\ order' = [order EXCEPT ![o] = [row EXCEPT !.status = "paid", !.license = l]]
        /\ reward' = IF wins THEN [reward EXCEPT ![o] = "credited"] ELSE reward
        /\ balance' = IF wins THEN Move(consumed, <<Inviter[u], row.region>>, RewardAmount, 0)
                              ELSE consumed

\* Mutant: pending revoke orders of the license are not counted.
NoPendingRevoke(l) == FALSE

PendingRevoke(l) ==
    \E o \in Orders : /\ order[o].status = "pending" /\ order[o].product = "paid_revoke"
                      /\ order[o].license = l

\* The transaction of CreateD2SOrder.  An order paid from the balance alone is
\* settled at once.
InsertOrder(c, l) ==
    LET o == <<c.user, c.key>>
        a == <<c.user, c.region>>
        row == [status |-> "pending", product |-> c.product, license |-> c.license,
                provider |-> c.provider, region |-> c.region, n |-> c.n,
                amount |-> Price[c.product], balance |-> c.balance,
                refunded |-> 0, expires |-> now + OrderTTL]
        held == Move(balance, a, -c.balance, c.balance)
    IN  /\ order[o].status = "none"
        /\ c.product = "paid_revoke" => ~PendingRevoke(c.license)
        /\ c.balance > 0 => balance[a].available >= c.balance
        /\ call' = call \ {c}
        /\ \/ /\ Gateway(row) > 0 /\ l = c.license
              /\ order' = [order EXCEPT ![o] = row]
              /\ balance' = held
              /\ UNCHANGED <<licVars, reward>>
           \/ /\ Gateway(row) = 0 /\ l # None
              /\ c.user \in profile /\ ~Locked(c.user) /\ region[c.user] = c.region
              /\ Settle(o, row, l, held)
        /\ UNCHANGED <<region, changing, paidEvent, withdrawing, withdrawal, refund>>

\* The request ends without an order: its key is taken by a concurrent request,
\* the transaction is refused, or the server stops.
DropCall(c) ==
    /\ call' = call \ {c}
    /\ UNCHANGED <<licVars, region, changing, order, paidEvent, balance, reward, withdrawing,
                   withdrawal, refund>>

-----------------------------------------------------------------------------
(* Payment events (ProcessD2SPaymentEvent).                                *)

\* Mutants: the order's state is not checked, the account's region is not checked.
PaidWith(o, l, allowed, locked) ==
    /\ allowed /\ o[1] \in profile /\ ~Locked(o[1])
    /\ region' = [region EXCEPT ![o[1]] = locked]
    /\ paidEvent' = paidEvent \cup {o}
    /\ Settle(o, order[o], l, balance)
    /\ UNCHANGED <<changing, call, withdrawing, withdrawal, refund>>
PaidAgain(o, l) ==
    PaidWith(o, l, order[o].status # "none" /\ region[o[1]] \in {None, order[o].region},
             order[o].region)
PaidAnyRegion(o, l) ==
    PaidWith(o, l, order[o].status = "pending" /\ order[o].expires > now,
             IF region[o[1]] = None THEN order[o].region ELSE region[o[1]])

\* The first external payment locks the region of the account.
Paid(o, l) ==
    LET u == o[1]
        row == order[o]
    IN  /\ row.status = "pending"
        /\ row.expires > now \/ row.provider = "alipay_pc"
        /\ u \in profile /\ ~Locked(u)
        /\ region[u] \in {None, row.region}
        /\ region' = [region EXCEPT ![u] = row.region]
        /\ paidEvent' = paidEvent \cup {o}
        /\ Settle(o, row, l, balance)
        /\ UNCHANGED <<changing, call, withdrawing, withdrawal, refund>>

\* The pending order ends and its reserved share returns to the balance.
Release(o) ==
    LET row == order[o] IN
    /\ row.status = "pending"
    /\ row.balance <= balance[<<o[1], row.region>>].reserved
    /\ order' = [order EXCEPT ![o] = [row EXCEPT !.status = "canceled"]]
    /\ balance' = Move(balance, <<o[1], row.region>>, row.balance, -row.balance)
    /\ UNCHANGED <<licVars, region, changing, call, paidEvent, reward, withdrawing, withdrawal, refund>>

\* Events "canceled" and "failed".
Canceled(o) == Release(o)

\* Mutants: the share stays reserved, orders of all CN providers are left alone.
ExpireKeepsHold(o) ==
    /\ order[o].status = "pending" /\ order[o].expires <= now
    /\ order' = [order EXCEPT ![o] = [order[o] EXCEPT !.status = "canceled"]]
    /\ UNCHANGED <<licVars, region, changing, call, paidEvent, balance, reward, withdrawing,
                   withdrawal, refund>>
ExpireIntlOnly(o) ==
    order[o].expires <= now /\ ProviderRegion(order[o].provider) # "CN" /\ Release(o)

\* ExpireD2SPendingOrders, which leaves Alipay orders to the reconciliation.
ExpireOrder(o) ==
    /\ order[o].expires <= now
    /\ order[o].provider # "alipay_pc"
    /\ Release(o)

\* Mutant: the reward stays.
ReverseNothing(o) == UNCHANGED <<reward, balance>>

\* reverseD2SInviteRewardTx: the balance may become negative.
Reverse(o) ==
    LET a == <<Inviter[o[1]], order[o].region>> IN
    IF reward[o] = "credited"
    THEN /\ reward' = [reward EXCEPT ![o] = "reversed"]
         /\ balance' = Move(balance, a, -RewardAmount, 0)
    ELSE UNCHANGED <<reward, balance>>

\* Mutant: the license row is cleared too, the binding row is not.
ChargebackUnbinds(o) ==
    /\ order[o].status = "paid" /\ o \in paidEvent
    /\ license' = [license EXCEPT ![order[o].license] = [Unbound(@) EXCEPT !.status = "suspended"]]
    /\ Reverse(o)
    /\ order' = [order EXCEPT ![o] = [order[o] EXCEPT !.status = "chargeback"]]
    /\ UNCHANGED <<now, profile, deleted, binding, lease, cooldown, quota, request, entitlement,
                   region, changing, call, paidEvent, withdrawing, withdrawal, refund>>

\* Events "chargeback" and "reversed".
Chargeback(o) ==
    /\ order[o].status = "paid"
    /\ o \in paidEvent
    /\ SuspendLicense(order[o].license)
    /\ Reverse(o)
    /\ order' = [order EXCEPT ![o] = [order[o] EXCEPT !.status = "chargeback"]]
    /\ UNCHANGED <<region, changing, call, paidEvent, withdrawing, withdrawal, refund>>

-----------------------------------------------------------------------------
(* Alipay refunds.                                                         *)

RefundSum(o, status) ==
    SumFunctionOnSet([f \in Refunds |-> refund[f].amount],
                     {f \in Refunds : refund[f].order = o /\ refund[f].status = status})

\* Mutant: refunds that still wait for Alipay are not counted.
RefundIgnoresPending(f, o, amount) ==
    /\ refund[f].status = "none"
    /\ order[o].provider = "alipay_pc" /\ order[o].status = "paid"
    /\ amount <= Gateway(order[o]) - order[o].refunded
    /\ refund' = [refund EXCEPT ![f] = [order |-> o, amount |-> amount, status |-> "pending"]]
    /\ UNCHANGED <<licVars, region, changing, call, order, paidEvent, balance, reward, withdrawing,
                   withdrawal>>

\* CreateD2SAlipayRefund, before Alipay is asked.
CreateRefund(f, o, amount) ==
    /\ refund[f].status = "none"
    /\ order[o].provider = "alipay_pc"
    /\ order[o].status = "paid"
    /\ amount <= Gateway(order[o]) - order[o].refunded - RefundSum(o, "pending")
    /\ refund' = [refund EXCEPT ![f] = [order |-> o, amount |-> amount, status |-> "pending"]]
    /\ UNCHANGED <<licVars, region, changing, call, order, paidEvent, balance, reward, withdrawing,
                   withdrawal>>

\* Mutant: a full refund does not suspend the license.
RefundKeepsLicense(f) ==
    LET row == order[refund[f].order]
        refunded == row.refunded + refund[f].amount
    IN  /\ refund[f].status = "pending" /\ row.status = "paid"
        /\ refund' = [refund EXCEPT ![f] = [refund[f] EXCEPT !.status = "completed"]]
        /\ order' = [order EXCEPT ![refund[f].order] =
              [row EXCEPT !.refunded = refunded,
                          !.status = IF refunded = Gateway(row) THEN "chargeback" ELSE "paid"]]
        /\ IF refunded = Gateway(row) THEN Reverse(refund[f].order) ELSE UNCHANGED <<balance, reward>>
        /\ UNCHANGED <<licVars, region, changing, call, paidEvent, withdrawing, withdrawal>>

\* CompleteD2SAlipayRefund, once Alipay has confirmed it.
CompleteRefund(f) ==
    LET o == refund[f].order
        row == order[o]
        refunded == row.refunded + refund[f].amount
        full == refunded = Gateway(row)
    IN  /\ refund[f].status = "pending"
        /\ row.provider = "alipay_pc" /\ row.status = "paid"
        /\ refund[f].amount <= Gateway(row) - row.refunded
        /\ refund' = [refund EXCEPT ![f] = [refund[f] EXCEPT !.status = "completed"]]
        /\ order' = [order EXCEPT ![o] =
              [row EXCEPT !.refunded = refunded,
                          !.status = IF full THEN "chargeback" ELSE "paid"]]
        /\ IF full THEN SuspendLicense(row.license) /\ Reverse(o)
                   ELSE UNCHANGED <<licVars, balance, reward>>
        /\ UNCHANGED <<region, changing, call, paidEvent, withdrawing, withdrawal>>

-----------------------------------------------------------------------------
(* Withdrawals and the region of an account.                               *)

\* CreateD2SWithdrawal before its transaction.
CheckWithdrawal(u) ==
    /\ u \in profile /\ u \notin deleted
    /\ region[u] = "CN"
    /\ withdrawing' = withdrawing \cup {u}
    /\ UNCHANGED <<licVars, region, changing, call, order, paidEvent, balance, reward, withdrawal, refund>>

\* Mutant: the amount is reserved and stays available.
WithdrawalStaysAvailable(w, u, amount) ==
    /\ u \in withdrawing /\ withdrawal[w].status = "none"
    /\ amount >= MinWithdrawal /\ balance[<<u, "CN">>].available >= amount
    /\ withdrawing' = withdrawing \ {u}
    /\ withdrawal' = [withdrawal EXCEPT ![w] = [user |-> u, amount |-> amount, status |-> "pending"]]
    /\ balance' = Move(balance, <<u, "CN">>, 0, amount)
    /\ UNCHANGED <<licVars, region, changing, call, order, paidEvent, reward, refund>>

CreateWithdrawal(w, u, amount) ==
    /\ u \in withdrawing
    /\ withdrawal[w].status = "none"
    /\ amount >= MinWithdrawal
    /\ balance[<<u, "CN">>].available >= amount
    /\ withdrawing' = withdrawing \ {u}
    /\ withdrawal' = [withdrawal EXCEPT ![w] =
          [user |-> u, amount |-> amount, status |-> "pending"]]
    /\ balance' = Move(balance, <<u, "CN">>, -amount, amount)
    /\ UNCHANGED <<licVars, region, changing, call, order, paidEvent, reward, refund>>

\* The request is refused for lack of balance, or the server stops.
DropWithdrawal(u) ==
    /\ u \in withdrawing
    /\ withdrawing' = withdrawing \ {u}
    /\ UNCHANGED <<licVars, region, changing, call, order, paidEvent, balance, reward, withdrawal, refund>>

\* ReviewD2SWithdrawal.
ReviewWithdrawal(w, status) ==
    LET row == withdrawal[w]
        a == <<row.user, "CN">>
    IN  /\ row.status = "pending"
        /\ row.amount <= balance[a].reserved
        /\ withdrawal' = [withdrawal EXCEPT ![w] = [row EXCEPT !.status = status]]
        /\ balance' = Move(balance, a, IF status = "rejected" THEN row.amount ELSE 0, -row.amount)
        /\ UNCHANGED <<licVars, region, changing, call, order, paidEvent, reward, withdrawing, refund>>

\* Mutant: the balances are not looked at.
FreeButForMoney(u) ==
    /\ \A k \in Keys : order[<<u, k>>].status # "pending"
    /\ \A w \in Withdrawals : withdrawal[w].status = "pending" => withdrawal[w].user # u

\* What SetD2SUserRegion demands of an account: no money, no pending orders and
\* no pending withdrawals.
RegionFree(u) ==
    /\ \A c \in Regions : balance[<<u, c>>] = [available |-> 0, reserved |-> 0]
    /\ \A k \in Keys : order[<<u, k>>].status # "pending"
    /\ \A w \in Withdrawals : withdrawal[w].status = "pending" => withdrawal[w].user # u

\* SetD2SUserRegion, by an administrator, locks the profile and counts.
CheckRegion(u, r) ==
    /\ ~SingleWriter
    /\ u \in profile /\ changing[u] = None
    /\ RegionFree(u)
    /\ changing' = [changing EXCEPT ![u] = r]
    /\ UNCHANGED <<licVars, region, call, order, paidEvent, balance, reward, withdrawing,
                   withdrawal, refund>>

\* Then it writes.  The counts took no locks: transactions that do not need the
\* profile row (a reward, a new order, a withdrawal) may have committed since.
\* A transaction that read the old region and commits after the write shares no
\* row with it, so it is taken to come before it.  On SQLite the counts and the
\* write are one step.
SetRegion(u, r) ==
    /\ u \in profile
    /\ IF SingleWriter THEN RegionFree(u) ELSE changing[u] = r
    /\ region' = [region EXCEPT ![u] = r]
    /\ changing' = [changing EXCEPT ![u] = None]
    /\ UNCHANGED <<licVars, call, order, paidEvent, balance, reward, withdrawing, withdrawal, refund>>

\* The transaction is rolled back, or the server stops.
DropRegion(u) ==
    /\ changing[u] # None
    /\ changing' = [changing EXCEPT ![u] = None]
    /\ UNCHANGED <<licVars, region, call, order, paidEvent, balance, reward, withdrawing,
                   withdrawal, refund>>

-----------------------------------------------------------------------------
MaxAmount == CHOOSE m \in {Price[p] : p \in Products} : \A p \in Products : Price[p] <= m

BillingStep ==
    \/ \E u \in Users, k \in Keys, product \in OnSale, l \in Licenses \cup {None},
          provider \in Gateways \cup {"balance"}, n \in 0 .. MaxPaidRevokes, b \in 0 .. MaxAmount :
          QuoteOrder(u, k, product, l, provider, n, b)
    \/ \E c \in call, l \in Licenses \cup {None} : InsertOrder(c, l)
    \/ \E c \in call : DropCall(c)
    \/ \E o \in Orders, l \in Licenses : Paid(o, l)
    \/ \E o \in Orders : Canceled(o)
    \/ \E o \in Orders : ExpireOrder(o)
    \/ \E o \in Orders : Chargeback(o)
    \/ \E f \in Refunds, o \in Orders, amount \in 1 .. MaxAmount : CreateRefund(f, o, amount)
    \/ \E f \in Refunds : CompleteRefund(f)
    \/ \E u \in Users : CheckWithdrawal(u)
    \/ \E w \in Withdrawals, u \in Users, amount \in 1 .. MaxAmount : CreateWithdrawal(w, u, amount)
    \/ \E u \in Users : DropWithdrawal(u)
    \/ \E w \in Withdrawals, status \in {"paid", "rejected"} : ReviewWithdrawal(w, status)
    \/ \E u \in Users, r \in Regions : CheckRegion(u, r) \/ SetRegion(u, r)
    \/ \E u \in Users : DropRegion(u)

BillingNext == BillingStep \/ (LicensingStep /\ UNCHANGED billVars)

BillingSpec == BillingInit /\ [][BillingNext]_vars

\* Time passes and the hourly clean-up of the server keeps running.
BillingFairness ==
    /\ WF_vars(Tick /\ UNCHANGED billVars)
    /\ \A o \in Orders : WF_vars(ExpireOrder(o))

FairBillingSpec == BillingSpec /\ BillingFairness
-----------------------------------------------------------------------------
(* Properties.                                                             *)

\* Every table holds rows of its type.
BillingTypeOK ==
    /\ TypeOK
    /\ region \in [Users -> Regions \cup {None}]
    /\ changing \in [Users -> Regions \cup {None}]
    /\ call \subseteq CallRow
    /\ order \in [Orders -> OrderRow]
    /\ paidEvent \subseteq Orders
    /\ balance \in [Accounts -> [available : Int, reserved : Nat]]
    /\ reward \in [Orders -> {"none", "credited", "reversed"}]
    /\ withdrawing \subseteq Users
    /\ withdrawal \in [Withdrawals -> WithdrawalRow]
    /\ refund \in [Refunds -> RefundRow]

Settled(o) == order[o].status \in {"paid", "chargeback"}

\* What the orders of account a in one of the states hold of its balance.
OrderShares(a, states) ==
    SumFunctionOnSet([o \in Orders |-> order[o].balance],
                     {o \in Orders : o[1] = a[1] /\ order[o].region = a[2] /\ order[o].status \in states})

WithdrawalShares(a, states) ==
    SumFunctionOnSet([w \in Withdrawals |-> withdrawal[w].amount],
                     {w \in Withdrawals : a = <<withdrawal[w].user, "CN">> /\ withdrawal[w].status \in states})

Credited(a) ==
    RewardAmount * Cardinality({o \in Orders : /\ reward[o] = "credited"
                                               /\ a = <<Inviter[o[1]], order[o].region>>})

\* The reserved column is exactly what pending orders and pending withdrawals
\* hold, so settling or releasing one of them never fails for lack of it and
\* never touches what another one holds.
ReservedMatches ==
    \A a \in Accounts : balance[a].reserved = OrderShares(a, {"pending"})
                                              + WithdrawalShares(a, {"pending"})

\* No money appears or disappears: what is available is the rewards that stand
\* less what orders and withdrawals took and did not give back.
LedgerBalanced ==
    \A a \in Accounts :
        balance[a].available = Credited(a)
                               - OrderShares(a, {"pending", "paid", "chargeback"})
                               - WithdrawalShares(a, {"pending", "paid"})

\* An invited account earns its inviter at most one reward, however many
\* licenses it buys and whichever of its payments are reversed.
OneRewardPerInvitee ==
    \A u \in Users, j, k \in Keys : reward[<<u, j>>] # "none" /\ reward[<<u, k>>] # "none" => j = k

\* A reward stands exactly as long as the payment it was given for.
RewardFollowsOrder ==
    \A o \in Orders : /\ reward[o] = "credited" => order[o].status = "paid"
                      /\ reward[o] = "reversed" => order[o].status = "chargeback"

\* Every license that was sold belongs to exactly one settled order of its
\* owner, and every settled purchase delivered one, however often and under
\* however many event ids its payment was notified.
LicenseSoldOnce ==
    \A l \in Licenses :
        LET sales == {o \in Orders : /\ Settled(o) /\ order[o].product = "license"
                                     /\ order[o].license = l}
        IN  IF license[l].status # "none" /\ license[l].kind = "paid"
            THEN \E o \in Orders : sales = {o} /\ o[1] = license[l].user
            ELSE sales = {}

\* A license has at most one paid revoke order waiting for its payment.
OnePendingRevoke ==
    \A o, p \in Orders :
        /\ order[o].status = "pending" /\ order[o].product = "paid_revoke"
        /\ order[p].status = "pending" /\ order[p].product = "paid_revoke"
        /\ order[o].license = order[p].license
        => o = p

\* The monthly counters add up to the revokes that were paid for: no revoke is
\* free and none is counted twice, also when the month changes between the
\* quote and the payment.
RevokesCounted ==
    \A l \in Licenses :
        SumFunctionOnSet(quota[l], Months)
        = Cardinality({o \in Orders : /\ Settled(o) /\ order[o].product = "paid_revoke"
                                      /\ order[o].license = l})

\* On SQLite, money in a currency is only held by accounts of its region,
\* although orders and withdrawals check the region before their transaction and
\* an administrator may change it in between.  (The row locks of the other
\* databases do not give that: see RegionSetWithoutMoney.)
MoneyInRegion ==
    SingleWriter =>
        \A u \in profile, r \in Regions :
            balance[<<u, r>>].available > 0 \/ balance[<<u, r>>].reserved > 0 => region[u] = r

\* As the API document says, the region of an account is adjusted only while its
\* balance is zero.
RegionSetWithoutMoney ==
    [][\A u \in Users : region'[u] # region[u] /\ changing[u] # None
          => \A c \in Regions : balance[<<u, c>>] = [available |-> 0, reserved |-> 0]]_vars

\* An order is settled in the region its account has then: of two orders of
\* different regions that were created before the account had one, the second
\* to be paid is not fulfilled.
SettlesInRegion ==
    [][\A o \in Orders : order[o].status # "paid" /\ order'[o].status = "paid"
                         => region'[o[1]] = order'[o].region]_vars

\* An order that is not paid for does not stay pending, and keep its share of
\* the balance reserved, beyond its half hour and the next clean-up.
ExpiredOrdersEnd ==
    \A o \in Orders :
        (order[o].status = "pending" /\ order[o].provider # "alipay_pc" /\ order[o].expires <= MaxNow)
        ~> order[o].status # "pending"

\* A license whose payment was charged back or refunded in full stays suspended.
ReversedIsSuspended ==
    \A o \in Orders : order[o].status = "chargeback" => license[order[o].license].status = "suspended"

\* Refunds, those still waiting for Alipay included, never exceed what Alipay
\* collected, and the order's total is the sum of the completed ones.
RefundsCovered ==
    \A o \in Orders :
        /\ order[o].refunded = RefundSum(o, "completed")
        /\ order[o].refunded + RefundSum(o, "pending") <= Gateway(order[o])

\* Orders act on licenses only in the ways the license state machine allows:
\* the composed system implements its specification.
ImplementsLicensing == Spec
=============================================================================
