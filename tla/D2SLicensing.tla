---------------------------- MODULE D2SLicensing ----------------------------
(***************************************************************************)
(* The license state machine of Desktop2Stereo: licenses and their device  *)
(* bindings, online leases, offline entitlements, the three ways a device  *)
(* is unbound (free revoke with a cooldown, paid revoke with a monthly     *)
(* quota, manual unbind once per account) and the trial.                   *)
(*                                                                         *)
(* Every operation of the code is one database transaction that locks the  *)
(* license row first, so it is one action here; a call the code refuses    *)
(* leaves the tables alone and is a disabled action.  A table row that     *)
(* does not exist is a row with status "none" or one of the No... values.  *)
(* Times are abstract: the unit and the periods are constants.             *)
(*                                                                         *)
(* The effects of orders on licenses (FulfillLicense, FulfillPaidRevoke,   *)
(* FulfillOfflineExtension, SuspendLicense) are open here, for a payment   *)
(* may arrive long after its order was quoted; D2SBilling says when they   *)
(* happen.                                                                 *)
(***************************************************************************)
EXTENDS Integers, FiniteSets

CONSTANTS
    Users,            \* accounts with a verified e-mail address
    Licenses,         \* pool of license ids
    Devices,          \* device fingerprints (SHA-256 hashes)
    Tokens,           \* lease tokens
    Requests,         \* pool of manual unbind request ids
    None,             \* the empty column value
    OfflinePeriods,   \* the offline tiers: 7, 14 and 30 days
    DefaultPeriod,    \* 7 days
    TrialPeriod,      \* 30 days
    ExtensionPeriod,  \* 30 days
    LeaseTTL,         \* two hours
    MonthLength,      \* a calendar month
    Forever,          \* expiry of a permanent entitlement, 9999-12-31
    MaxNow,           \* bound: last instant of the model's clock
    MaxPaidRevokes,   \* three paid revokes per license and month
    MaxEntitlements,  \* bound: entitlements ever issued
    MaxDeadline       \* bound: last offline deadline an extension can reach

ASSUME LicensingAssumption ==
    /\ None \notin Users \cup Licenses \cup Devices \cup Tokens
    /\ OfflinePeriods \subseteq Nat \ {0}
    /\ DefaultPeriod \in OfflinePeriods
    /\ TrialPeriod \in Nat \ {0}
    /\ ExtensionPeriod \in Nat \ {0}
    /\ LeaseTTL \in Nat \ {0}
    /\ MonthLength \in Nat \ {0}
    /\ Forever \in Nat \ {0}
    /\ MaxNow \in Nat \ {0}
    /\ MaxPaidRevokes \in Nat
    /\ MaxEntitlements \in Nat
    /\ MaxDeadline \in Nat

VARIABLES
    now,          \* UTC time, shared by all servers
    profile,      \* users that have a D2SUserProfile row
    deleted,      \* users whose account was anonymized and deleted
    license,      \* D2SLicense
    binding,      \* D2SDeviceBinding: license id -> device hash
    lease,        \* D2SOnlineLease: license id -> running instance
    cooldown,     \* D2SFreeRevokeCooldown: license id -> NextAvailableAt
    quota,        \* D2SPaidRevokeQuota: license id -> month -> UsedCount
    request,      \* D2SManualUnbindRequest
    entitlement   \* D2SOfflineEntitlement, with the claims that were signed

licVars == <<now, profile, deleted, license, binding, lease, cooldown, quota,
             request, entitlement>>

Modes == {"unbound", "online", "offline", "permanent"}

Months == 0 .. (MaxNow \div MonthLength)
Month(t) == t \div MonthLength

LicenseRow ==
    [user      : Users \cup {None},
     kind      : {"trial", "paid"},
     status    : {"none", "active", "suspended"},
     mode      : Modes,
     device    : Devices \cup {None},
     period    : OfflinePeriods \cup {0},   \* OfflinePeriodDays
     activated : BOOLEAN,                   \* ActivatedAt # 0
     permanent : BOOLEAN,                   \* PermanentBoundAt # 0
     expires   : Nat,                       \* ExpiresAt, 0 for none
     validUntil: Nat]                       \* OfflineValidUntil

NoLicense ==
    [user |-> None, kind |-> "trial", status |-> "none", mode |-> "unbound",
     device |-> None, period |-> DefaultPeriod, activated |-> FALSE,
     permanent |-> FALSE, expires |-> 0, validUntil |-> 0]

LeaseRow == [device : Devices \cup {None}, token : Tokens \cup {None},
             expires : Nat]

NoLease == [device |-> None, token |-> None, expires |-> 0]

RequestRow == [license : Licenses \cup {None}, user : Users \cup {None},
               status : {"none", "pending", "approved", "rejected"}]

NoRequest == [license |-> None, user |-> None, status |-> "none"]

EntitlementRow ==
    [license : Licenses, device : Devices, mode : {"offline", "permanent"},
     days : OfflinePeriods \cup {0}, issued : Nat, expires : Nat]

Max2(a, b) == IF a < b THEN b ELSE a

-----------------------------------------------------------------------------
(* Reading the tables.                                                     *)

\* ExpiresAt > 0 && ExpiresAt <= now, the check of every operation.
Expired(l) == license[l].expires > 0 /\ license[l].expires <= now

\* Requests of a deleted account are not authenticated any more.
OwnerCalls(l) == license[l].status # "none" /\ license[l].user \notin deleted

Usable(l) == OwnerCalls(l) /\ license[l].status = "active" /\ ~Expired(l)

HasTrial(u) == \E l \in Licenses : license[l].status # "none"
                                   /\ license[l].user = u /\ license[l].kind = "trial"

HasLease(l) == lease[l].token # None
LiveLease(l) == HasLease(l) /\ lease[l].expires > now

ApprovedBefore(u) ==
    \E r \in Requests : request[r].status = "approved" /\ request[r].user = u

-----------------------------------------------------------------------------
NewLicense(u, kind) ==
    [NoLicense EXCEPT !.user = u, !.kind = kind, !.status = "active"]

\* What every kind of unbinding does to the license row.
Unbound(row) == [row EXCEPT !.device = None, !.mode = "unbound"]

Init ==
    /\ now = 1
    /\ profile = {}
    /\ deleted = {}
    /\ license = [l \in Licenses |-> NoLicense]
    /\ binding = [l \in Licenses |-> None]
    /\ lease = [l \in Licenses |-> NoLease]
    /\ cooldown = [l \in Licenses |-> 0]
    /\ quota = [l \in Licenses |-> [m \in Months |-> 0]]
    /\ request = [r \in Requests |-> NoRequest]
    /\ entitlement = {}

\* EnsureD2SProfileAndTrial: the first visit creates the profile and the one
\* trial of the account, whose 30 days have not started yet.
EnsureProfileAndTrial(u, l) ==
    /\ u \notin deleted
    /\ ~HasTrial(u)
    /\ license[l].status = "none"
    /\ profile' = profile \cup {u}
    /\ license' = [license EXCEPT ![l] = NewLicense(u, "trial")]
    /\ UNCHANGED <<now, deleted, binding, lease, cooldown, quota, request, entitlement>>

\* Mutants: binding to a device without looking at other licenses, restarting
\* the clock of a trial at each bind.
BindWith(l, d, free, startsClock) ==
    /\ Usable(l) /\ license[l].device \in {None, d} /\ free
    /\ binding' = [binding EXCEPT ![l] = d]
    /\ license' = [license EXCEPT
          ![l].device = d, ![l].activated = TRUE,
          ![l].mode = IF @ = "unbound" THEN "online" ELSE @,
          ![l].expires = IF startsClock THEN now + TrialPeriod ELSE @]
    /\ UNCHANGED <<now, profile, deleted, lease, cooldown, quota, request, entitlement>>
BindSharedDevice(l, d) ==
    BindWith(l, d, TRUE, license[l].kind = "trial" /\ license[l].expires = 0)
BindRestartsClock(l, d) ==
    BindWith(l, d, \A k \in Licenses : binding[k] = d => k = l, license[l].kind = "trial")

\* BindD2SLicense.  Rebinding the same device keeps the mode; the first bind
\* of a trial starts its clock.
Bind(l, d) ==
    LET row == license[l]
        trialStarted == row.kind = "trial" /\ ~row.activated /\ row.expires = 0
    IN  /\ Usable(l)
        /\ row.device \in {None, d}
        /\ \A k \in Licenses : binding[k] = d => k = l
        /\ binding' = [binding EXCEPT ![l] = d]
        /\ license' = [license EXCEPT ![l] =
              [row EXCEPT !.device = d,
                          !.mode = IF row.mode = "unbound" THEN "online" ELSE row.mode,
                          !.activated = TRUE,
                          !.expires = IF trialStarted THEN now + TrialPeriod ELSE row.expires]]
        /\ UNCHANGED <<now, profile, deleted, lease, cooldown, quota, request, entitlement>>

\* ChangeD2SLicenseMode, called with the confirmation that permanent needs.
NextPeriod(row, nextMode, days) ==
    CASE nextMode = "offline"   -> days
      [] nextMode = "online"    -> IF row.period \in OfflinePeriods THEN row.period ELSE DefaultPeriod
      [] nextMode = "permanent" -> 0

\* Mutants: permanent can be left, a mode change clears the cooldown.
ChangeModeWith(l, d, nextMode, days, allowed, nextCooldown) ==
    /\ Usable(l) /\ license[l].device = d /\ allowed
    /\ license' = [license EXCEPT
          ![l].mode = nextMode, ![l].period = NextPeriod(license[l], nextMode, days),
          ![l].permanent = nextMode = "permanent"]
    /\ lease' = [lease EXCEPT ![l] = NoLease] /\ cooldown' = nextCooldown
    /\ UNCHANGED <<now, profile, deleted, binding, quota, request, entitlement>>
ChangeModeFromPermanent(l, d, nextMode, days) ==
    ChangeModeWith(l, d, nextMode, days, TRUE, cooldown)
ChangeModeClearsCooldown(l, d, nextMode, days) ==
    ChangeModeWith(l, d, nextMode, days, license[l].mode # "permanent",
                   [cooldown EXCEPT ![l] = 0])

ChangeMode(l, d, nextMode, days) ==
    LET row == license[l] IN
    /\ Usable(l)
    /\ row.mode = "permanent" => nextMode = "permanent"
    /\ row.device = d
    /\ license' = [license EXCEPT ![l] =
          [row EXCEPT !.mode = nextMode,
                      !.period = NextPeriod(row, nextMode, days),
                      !.permanent = row.permanent \/ nextMode = "permanent"]]
    /\ lease' = IF nextMode = "online" THEN lease ELSE [lease EXCEPT ![l] = NoLease]
    /\ UNCHANGED <<now, profile, deleted, binding, cooldown, quota, request, entitlement>>

\* Mutant: the cooldown is not looked at.
FreeRevokeAnytime(l, d) ==
    /\ OwnerCalls(l) /\ license[l].mode # "permanent" /\ license[l].status = "active"
    /\ license[l].device = d
    /\ cooldown' = [cooldown EXCEPT ![l] = now + DefaultPeriod]
    /\ binding' = [binding EXCEPT ![l] = None]
    /\ lease' = [lease EXCEPT ![l] = NoLease]
    /\ license' = [license EXCEPT ![l] = Unbound(license[l])]
    /\ UNCHANGED <<now, profile, deleted, quota, request, entitlement>>

\* FreeRevokeD2SLicense.  The cooldown is as long as the license's offline tier.
FreeRevoke(l, d) ==
    LET row == license[l]
        period == IF row.period \in OfflinePeriods THEN row.period ELSE DefaultPeriod
    IN  /\ OwnerCalls(l)
        /\ row.mode # "permanent"
        /\ row.status = "active"
        /\ row.device = d
        /\ cooldown[l] <= now
        /\ cooldown' = [cooldown EXCEPT ![l] = now + period]
        /\ binding' = [binding EXCEPT ![l] = None]
        /\ lease' = [lease EXCEPT ![l] = NoLease]
        /\ license' = [license EXCEPT ![l] = Unbound(row)]
        /\ UNCHANGED <<now, profile, deleted, quota, request, entitlement>>

-----------------------------------------------------------------------------
(* Online leases.                                                          *)

\* Mutant: a second instance replaces a live lease.
LeaseAnyone(l, d, raw, issued) ==
    /\ Usable(l) /\ license[l].mode = "online" /\ license[l].device = d
    /\ \A k \in Licenses \ {l} : lease[k].token # issued
    /\ lease' = [lease EXCEPT ![l] = [device |-> d, token |-> issued, expires |-> now + LeaseTTL]]
    /\ UNCHANGED <<now, profile, deleted, license, binding, cooldown, quota, request, entitlement>>

\* StartOrRenewD2SOnlineLease with the token the client sent, or with none;
\* then the server draws a random one.
StartOrRenewLease(l, d, raw, issued) ==
    /\ Usable(l)
    /\ license[l].mode = "online"
    /\ license[l].device = d
    /\ LiveLease(l) => raw = lease[l].token /\ lease[l].device = license[l].device
    /\ IF raw = None
       THEN issued \in Tokens /\ \A k \in Licenses : lease[k].token # issued
       ELSE issued = raw
    /\ lease' = [lease EXCEPT ![l] = [device |-> license[l].device, token |-> issued,
                                      expires |-> now + LeaseTTL]]
    /\ UNCHANGED <<now, profile, deleted, license, binding, cooldown, quota, request, entitlement>>

\* ReleaseD2SOnlineLease.
ReleaseLease(l, t) ==
    /\ OwnerCalls(l)
    /\ HasLease(l) /\ lease[l].token = t
    /\ lease' = [lease EXCEPT ![l] = NoLease]
    /\ UNCHANGED <<now, profile, deleted, license, binding, cooldown, quota, request, entitlement>>

\* ReleaseAllD2SOnlineLeases, at logout and when an administrator forces one.
ReleaseAllLeases(u) ==
    /\ \E l \in Licenses : HasLease(l) /\ license[l].user = u
    /\ lease' = [l \in Licenses |-> IF license[l].user = u THEN NoLease ELSE lease[l]]
    /\ UNCHANGED <<now, profile, deleted, license, binding, cooldown, quota, request, entitlement>>

\* DeleteExpiredD2SRuntimeArtifacts, the part of the hourly sweep about leases.
DeleteExpiredLeases ==
    /\ \E l \in Licenses : HasLease(l) /\ ~LiveLease(l)
    /\ lease' = [l \in Licenses |-> IF LiveLease(l) THEN lease[l] ELSE NoLease]
    /\ UNCHANGED <<now, profile, deleted, license, binding, cooldown, quota, request, entitlement>>

-----------------------------------------------------------------------------
(* Manual unbind of a permanent license.                                   *)

\* CreateD2SManualUnbind.
CreateManualUnbind(r, l) ==
    /\ request[r].status = "none"
    /\ OwnerCalls(l)
    /\ license[l].user \in profile
    /\ license[l].mode = "permanent"
    /\ ~ApprovedBefore(license[l].user)
    /\ \A q \in Requests : request[q].status = "pending" => request[q].license # l
    /\ request' = [request EXCEPT ![r] =
          [license |-> l, user |-> license[l].user, status |-> "pending"]]
    /\ UNCHANGED <<now, profile, deleted, license, binding, lease, cooldown, quota, entitlement>>

\* Mutant: the lifetime limit is only checked when the request is made.
ApproveAgain(r) ==
    LET l == request[r].license IN
    /\ request[r].status = "pending" /\ request[r].user \in profile
    /\ license[l].mode = "permanent"
    /\ binding' = [binding EXCEPT ![l] = None]
    /\ license' = [license EXCEPT ![l] = [Unbound(license[l]) EXCEPT !.permanent = FALSE]]
    /\ request' = [request EXCEPT ![r].status = "approved"]
    /\ UNCHANGED <<now, profile, deleted, lease, cooldown, quota, entitlement>>

\* ReviewD2SManualUnbind with status "approved".  The transaction deletes the
\* binding but no lease.
ApproveManualUnbind(r) ==
    LET l == request[r].license IN
    /\ request[r].status = "pending"
    /\ request[r].user \in profile
    /\ ~ApprovedBefore(request[r].user)
    /\ license[l].mode = "permanent"
    /\ binding' = [binding EXCEPT ![l] = None]
    /\ license' = [license EXCEPT ![l] = [Unbound(license[l]) EXCEPT !.permanent = FALSE]]
    /\ request' = [request EXCEPT ![r] = [request[r] EXCEPT !.status = "approved"]]
    /\ UNCHANGED <<now, profile, deleted, lease, cooldown, quota, entitlement>>

\* ReviewD2SManualUnbind with status "rejected".
RejectManualUnbind(r) ==
    /\ request[r].status = "pending"
    /\ request' = [request EXCEPT ![r] = [request[r] EXCEPT !.status = "rejected"]]
    /\ UNCHANGED <<now, profile, deleted, license, binding, lease, cooldown, quota, entitlement>>

-----------------------------------------------------------------------------
(* Offline entitlements.                                                   *)

\* The expiry IssueD2SOfflineEntitlement signs: the tier or forever, cut at the
\* license's expiry, then raised to the deadline the license already has.
EntitlementExpiry(row, days) ==
    LET tier == IF row.mode = "permanent" THEN Forever ELSE now + days
        cut  == IF row.expires > 0 /\ row.expires < tier THEN row.expires ELSE tier
    IN  Max2(cut, row.validUntil)

\* Mutant: the signed expiry is not saved as the license's deadline.
IssueWithoutDeadline(l, d, days) ==
    LET row == license[l] IN
    /\ Usable(l) /\ row.device = d /\ row.mode \in {"offline", "permanent"}
    /\ row.mode = "offline" => days = row.period
    /\ Cardinality(entitlement) < MaxEntitlements
    /\ entitlement' = entitlement \cup
          {[license |-> l, device |-> d, mode |-> row.mode, days |-> 0,
            issued |-> now, expires |-> EntitlementExpiry(row, days)]}
    /\ UNCHANGED <<now, profile, deleted, license, binding, lease, cooldown, quota, request>>

IssueOfflineEntitlement(l, d, days) ==
    LET row == license[l]
        expiresAt == EntitlementExpiry(row, days)
    IN  /\ Usable(l)
        /\ row.device = d
        /\ row.mode \in {"offline", "permanent"}
        /\ row.mode = "offline" => days \in OfflinePeriods /\ days = row.period
        /\ Cardinality(entitlement) < MaxEntitlements
        /\ entitlement' = entitlement \cup
              {[license |-> l, device |-> d, mode |-> row.mode,
                days |-> IF row.mode = "permanent" THEN 0 ELSE days,
                issued |-> now, expires |-> expiresAt]}
        /\ license' = [license EXCEPT ![l] = [row EXCEPT !.validUntil = expiresAt]]
        /\ UNCHANGED <<now, profile, deleted, binding, lease, cooldown, quota, request>>

-----------------------------------------------------------------------------
(* What a settled or reversed order does to licenses (fulfillD2SOrderTx).  *)
(* Settling reads the profile of the order's user and fails without it.    *)

FulfillLicense(u, l) ==
    /\ u \in profile
    /\ license[l].status = "none"
    /\ license' = [license EXCEPT ![l] = NewLicense(u, "paid")]
    /\ UNCHANGED <<now, profile, deleted, binding, lease, cooldown, quota, request, entitlement>>

\* Mutant: the lease survives.
PaidRevokeKeepsLease(l, n) ==
    /\ license[l].user \in profile /\ license[l].mode # "permanent"
    /\ quota[l][Month(now)] + 1 = n
    /\ quota' = [quota EXCEPT ![l][Month(now)] = @ + 1]
    /\ binding' = [binding EXCEPT ![l] = None]
    /\ license' = [license EXCEPT ![l] = Unbound(license[l])]
    /\ UNCHANGED <<now, profile, deleted, lease, cooldown, request, entitlement>>

\* The order was quoted as the n-th revoke of its month.
FulfillPaidRevoke(l, n) ==
    LET m == Month(now) IN
    /\ license[l].user \in profile
    /\ license[l].mode # "permanent"
    /\ quota[l][m] + 1 = n
    /\ n <= MaxPaidRevokes
    /\ quota' = [quota EXCEPT ![l] = [quota[l] EXCEPT ![m] = n]]
    /\ binding' = [binding EXCEPT ![l] = None]
    /\ lease' = [lease EXCEPT ![l] = NoLease]
    /\ license' = [license EXCEPT ![l] = Unbound(license[l])]
    /\ UNCHANGED <<now, profile, deleted, cooldown, request, entitlement>>

ExtendedDeadline(row) ==
    LET next == Max2(row.validUntil, now) + ExtensionPeriod
    IN  IF row.expires > 0 /\ next > row.expires THEN row.expires ELSE next

FulfillOfflineExtension(l) ==
    /\ license[l].user \in profile
    /\ ExtendedDeadline(license[l]) <= MaxDeadline
    /\ license' = [license EXCEPT ![l] =
          [license[l] EXCEPT !.validUntil = ExtendedDeadline(license[l])]]
    /\ UNCHANGED <<now, profile, deleted, binding, lease, cooldown, quota, request, entitlement>>

\* A chargeback, reversal or full refund suspends the license and nothing else.
SuspendLicense(l) ==
    /\ license[l].status # "none"
    /\ license' = [license EXCEPT ![l] = [license[l] EXCEPT !.status = "suspended"]]
    /\ UNCHANGED <<now, profile, deleted, binding, lease, cooldown, quota, request, entitlement>>

-----------------------------------------------------------------------------
\* AnonymizeAndDeleteUserAccount: the profile goes; licenses, bindings and
\* leases stay.
DeleteAccount(u) ==
    /\ u \notin deleted
    /\ deleted' = deleted \cup {u}
    /\ profile' = profile \ {u}
    /\ UNCHANGED <<now, license, binding, lease, cooldown, quota, request, entitlement>>

Tick ==
    /\ now < MaxNow
    /\ now' = now + 1
    /\ UNCHANGED <<profile, deleted, license, binding, lease, cooldown, quota, request, entitlement>>

\* What the owner of a license, its device and the administrators do.
LicensingStep ==
    \/ \E u \in Users, l \in Licenses : EnsureProfileAndTrial(u, l)
    \/ \E l \in Licenses, d \in Devices : Bind(l, d)
    \/ \E l \in Licenses, d \in Devices, days \in OfflinePeriods : ChangeMode(l, d, "offline", days)
    \/ \E l \in Licenses, d \in Devices, m \in {"online", "permanent"} : ChangeMode(l, d, m, 0)
    \/ \E l \in Licenses, d \in Devices : FreeRevoke(l, d)
    \/ \E l \in Licenses, d \in Devices, raw \in Tokens \cup {None}, t \in Tokens :
          StartOrRenewLease(l, d, raw, t)
    \/ \E l \in Licenses, t \in Tokens : ReleaseLease(l, t)
    \/ \E u \in Users : ReleaseAllLeases(u)
    \/ DeleteExpiredLeases
    \/ \E r \in Requests, l \in Licenses : CreateManualUnbind(r, l)
    \/ \E r \in Requests : ApproveManualUnbind(r)
    \/ \E r \in Requests : RejectManualUnbind(r)
    \/ \E l \in Licenses, d \in Devices, days \in OfflinePeriods : IssueOfflineEntitlement(l, d, days)
    \/ \E u \in Users : DeleteAccount(u)
    \/ Tick

OrderEffect ==
    \/ \E u \in Users, l \in Licenses : FulfillLicense(u, l)
    \/ \E l \in Licenses, n \in 1 .. MaxPaidRevokes : FulfillPaidRevoke(l, n)
    \/ \E l \in Licenses : FulfillOfflineExtension(l)
    \/ \E l \in Licenses : SuspendLicense(l)

Next == LicensingStep \/ OrderEffect

Spec == Init /\ [][Next]_licVars
-----------------------------------------------------------------------------
(* Properties.                                                             *)

\* Every table holds rows of its type.
TypeOK ==
    /\ now \in 1 .. MaxNow
    /\ profile \subseteq Users
    /\ deleted \subseteq Users
    /\ license \in [Licenses -> LicenseRow]
    /\ binding \in [Licenses -> Devices \cup {None}]
    /\ lease \in [Licenses -> LeaseRow]
    /\ cooldown \in [Licenses -> Nat]
    /\ quota \in [Licenses -> [Months -> 0 .. MaxPaidRevokes]]
    /\ request \in [Requests -> RequestRow]
    /\ entitlement \subseteq EntitlementRow

\* The device column of the license and the binding table, written by different
\* statements of four transactions, never disagree, and a license has a mode
\* other than "unbound" exactly while it is bound to a device.
BindingConsistent ==
    \A l \in Licenses : /\ binding[l] = license[l].device
                        /\ license[l].mode = "unbound" <=> binding[l] = None

\* One device is bound to at most one license, whichever accounts race for it.
DeviceExclusive ==
    \A k, l \in Licenses : binding[k] = binding[l] /\ binding[k] # None => k = l

\* A lease belongs to an online license and to the device bound to it: unbinding
\* and mode changes leave no lease of a former device behind.  The manual unbind
\* deletes no lease and relies on this.
LeaseFollowsBinding ==
    \A l \in Licenses : HasLease(l) => /\ license[l].mode = "online"
                                       /\ license[l].status # "none"
                                       /\ lease[l].device = license[l].device

\* At most one manual unbind of an account is ever approved, even when several
\* requests for different licenses of the account were pending at once.
OneManualUnbindPerAccount ==
    \A q, r \in Requests :
        request[q].status = "approved" /\ request[r].status = "approved"
        /\ request[q].user = request[r].user => q = r

\* An account has at most one trial.
OneTrialPerAccount ==
    \A k, l \in Licenses :
        /\ license[k].status # "none" /\ license[l].status # "none"
        /\ license[k].kind = "trial" /\ license[l].kind = "trial"
        /\ license[k].user = license[l].user
        => k = l

\* A license is marked permanently bound exactly while its mode is permanent.
PermanentMark ==
    \A l \in Licenses : license[l].permanent <=> license[l].mode = "permanent"

\* A trial has an expiry exactly when it was activated; a paid license has none.
TrialClock ==
    \A l \in Licenses : license[l].expires > 0
                         <=> license[l].kind = "trial" /\ license[l].activated

\* No sequence of revokes and rebinds restarts or moves a trial's 30 days.
TrialClockNeverRestarts ==
    [][\A l \in Licenses : license[l].expires > 0
                           => license'[l].expires = license[l].expires]_licVars

\* A device is only ever taken off a license by something that is limited: a
\* free revoke outside the cooldown, which starts a new one, one more paid revoke
\* of the month, or the approval of a manual unbind.
UnbindStep ==
    \A l \in Licenses :
        binding[l] # None /\ binding'[l] # binding[l] =>
            /\ binding'[l] = None
            /\ \/ cooldown[l] <= now /\ cooldown'[l] > now
               \/ quota'[l][Month(now)] = quota[l][Month(now)] + 1
               \/ \E r \in Requests : /\ request[r].license = l
                                      /\ request[r].status = "pending"
                                      /\ request'[r].status = "approved"

\* Every unbinding is one of the limited ones described above.
UnbindIsLimited == [][UnbindStep]_licVars

\* Permanent binding is left only by an approved manual unbind.
PermanentIsSticky ==
    [][\A l \in Licenses :
          license[l].mode = "permanent" /\ license'[l].mode # "permanent" =>
             \E r \in Requests : /\ request[r].license = l
                                 /\ request[r].status = "pending"
                                 /\ request'[r].status = "approved"]_licVars

\* While a lease is live, a second running instance cannot take it over: only
\* the holder of its token extends it.
LeaseNotStolen ==
    [][\A l \in Licenses : LiveLease(l) /\ lease'[l].token # None
                           => lease'[l].token = lease[l].token]_licVars

\* A running free-revoke cooldown is never cut short, by a mode change or by
\* anything else.
CooldownNeverShortened ==
    [][\A l \in Licenses : cooldown'[l] >= cooldown[l]]_licVars

\* The deadline of a license that does not expire covers every entitlement that
\* was signed for it, so an extension is added to what the devices really have.
DeadlineCoversEntitlements ==
    \A e \in entitlement : license[e.license].expires = 0
                           => e.expires <= license[e.license].validUntil

\* An entitlement without end is signed only for a license that is, or before
\* its one manual unbind was, permanently bound.
EndlessNeedsPermanent ==
    \A e \in entitlement : e.expires >= Forever =>
        \/ license[e.license].mode = "permanent"
        \/ \E r \in Requests : request[r].license = e.license /\ request[r].status = "approved"

\* An id that is not in use has an empty row, and entitlements and requests
\* name licenses that exist.
NoDanglingRows ==
    /\ \A l \in Licenses : license[l].status = "none" => license[l] = NoLicense
    /\ \A e \in entitlement : license[e.license].status # "none"
    /\ \A r \in Requests : request[r].status # "none" =>
          /\ request[r].license \in Licenses
          /\ license[request[r].license].status # "none"

\* The inductive invariant of the proofs: the facts about single rows need each
\* other (an unbind that deletes no lease is safe because a permanent license
\* has none, a device is exclusive because the binding table and the license
\* column agree, a fresh row is consistent because it was empty).
LicensingInv ==
    /\ TypeOK
    /\ NoDanglingRows
    /\ BindingConsistent
    /\ DeviceExclusive
    /\ LeaseFollowsBinding
    /\ PermanentMark
    /\ TrialClock
    /\ OneTrialPerAccount
    /\ OneManualUnbindPerAccount
    /\ DeadlineCoversEntitlements

-----------------------------------------------------------------------------
(* What a document says and the code does not keep.                        *)

\* The offline mode is the 7, 14 or 30 day mode: what is signed for it ends.
OfflineEntitlementEnds ==
    \A e \in entitlement : e.mode = "offline" => e.expires < Forever
=============================================================================
