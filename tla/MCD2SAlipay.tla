----------------------------- MODULE MCD2SAlipay -----------------------------
(* Instances of D2SAlipay: user ua has a trial (ta) and pending orders for a *)
(* license or for an extension of the trial; the one with key ka is oldest.  *)
EXTENDS D2SAlipay, TLC

CONSTANTS ua, ta, ka, Ordered

MCInviter == [u \in Users |-> None]
MCPrice == [license |-> 2, paid_revoke |-> 1, offline_extension |-> 1]

Row(product, created) ==
    [NoOrder EXCEPT !.status = "pending", !.provider = "alipay_pc", !.product = product,
                    !.license = IF product = "license" THEN None ELSE ta,
                    !.amount = Price[product], !.expires = created + OrderTTL]

OrderedInit ==
  \E product \in Ordered :
    /\ now = 1
    /\ profile = {ua}
    /\ deleted = {}
    /\ license = [l \in Licenses |-> IF l = ta THEN NewLicense(ua, "trial") ELSE NoLicense]
    /\ binding = [l \in Licenses |-> None]
    /\ lease = [l \in Licenses |-> NoLease]
    /\ cooldown = [l \in Licenses |-> 0]
    /\ quota = [l \in Licenses |-> [m \in Months |-> 0]]
    /\ request = [r \in Requests |-> NoRequest]
    /\ entitlement = {}
    /\ region = [u \in Users |-> None]
    /\ changing = [u \in Users |-> None]
    /\ call = {}
    /\ order = [o \in Orders |-> Row(product, IF o[2] = ka THEN 0 ELSE 1)]
    /\ paidEvent = {}
    /\ balance = [a \in Accounts |-> [available |-> 0, reserved |-> 0]]
    /\ reward = [o \in Orders |-> "none"]
    /\ withdrawing = {}
    /\ withdrawal = [w \in Withdrawals |-> NoWithdrawal]
    /\ refund = [f \in Refunds |-> NoRefund]
    /\ AlipayInit

OrderedSpec == OrderedInit /\ [][AlipayNext]_allVars

FairOrderedSpec == OrderedSpec /\ AlipayFairness

Symmetric == Permutations(Refunds)
=============================================================================
