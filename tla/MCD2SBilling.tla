---------------------------- MODULE MCD2SBilling ----------------------------
(* Small instances of D2SBilling: user ua invited user ub.                 *)
EXTENDS D2SBilling, TLC

CONSTANTS ua, ub, la, lb, ta, tb, ka

MCInviter == [u \in Users |-> IF u = ub THEN ua ELSE None]
MCPrice == [license |-> 2, paid_revoke |-> 1, offline_extension |-> 1]

Row(status, provider, l) ==
    [NoOrder EXCEPT !.status = status, !.license = l, !.provider = provider,
                    !.amount = Price["license"], !.expires = 1 + OrderTTL]

\* Both accounts have a trial (ta, tb), and ua has bought a license (la) with
\* Alipay under the key ka.  Either ub has bought one (lb) too, and ua has a
\* reward to spend, or the only order of ub, under another key, was canceled.
SoldInit ==
  \E bought \in BOOLEAN :
    /\ now = 1
    /\ profile = {ua, ub}
    /\ deleted = {}
    /\ license = [l \in Licenses |->
          CASE l = la -> NewLicense(ua, "paid")
            [] l = ta -> NewLicense(ua, "trial") [] l = tb -> NewLicense(ub, "trial")
            [] l = lb /\ bought -> NewLicense(ub, "paid")
            [] OTHER -> NoLicense]
    /\ binding = [l \in Licenses |-> None]
    /\ lease = [l \in Licenses |-> NoLease]
    /\ cooldown = [l \in Licenses |-> 0]
    /\ quota = [l \in Licenses |-> [m \in Months |-> 0]]
    /\ request = [r \in Requests |-> NoRequest]
    /\ entitlement = {}
    /\ region = [u \in Users |-> IF u = ua \/ bought THEN "CN" ELSE None]
    /\ changing = [u \in Users |-> None]
    /\ call = {}
    /\ order = [o \in Orders |->
          CASE o = <<ua, ka>> -> Row("paid", "alipay_pc", la)
            [] o = <<ub, ka>> /\ bought -> Row("paid", "alipay_pc", lb)
            [] o[1] = ub /\ o[2] # ka /\ ~bought -> Row("canceled", "epay", None)
            [] OTHER -> NoOrder]
    /\ paidEvent = {<<ua, ka>>} \cup IF bought THEN {<<ub, ka>>} ELSE {}
    /\ balance = [a \in Accounts |->
          [available |-> IF a = <<ua, "CN">> /\ bought THEN RewardAmount ELSE 0, reserved |-> 0]]
    /\ reward = [o \in Orders |-> IF o = <<ub, ka>> /\ bought THEN "credited" ELSE "none"]
    /\ withdrawing = {}
    /\ withdrawal = [w \in Withdrawals |-> NoWithdrawal]
    /\ refund = [f \in Refunds |-> NoRefund]

SoldSpec == SoldInit /\ [][BillingNext]_vars
=============================================================================
