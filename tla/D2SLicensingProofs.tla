------------------------- MODULE D2SLicensingProofs -------------------------
(***************************************************************************)
(* Proofs, for any number of users, licenses, devices, tokens and requests *)
(* and any periods, that the license tables stay consistent.               *)
(***************************************************************************)
EXTENDS D2SLicensing, TLAPS

\* The expiry that is signed and the extended deadline are times.
LEMMA DeadlineTypes ==
    ASSUME NEW row \in LicenseRow, NEW days \in OfflinePeriods, now \in Nat
    PROVE  EntitlementExpiry(row, days) \in Nat /\ ExtendedDeadline(row) \in Nat
  BY LicensingAssumption DEF EntitlementExpiry, ExtendedDeadline, Max2, LicenseRow

\* The rows the operations write are rows.
LEMMA RowTypes ==
    /\ NoLicense \in LicenseRow
    /\ NoLease \in LeaseRow
    /\ NoRequest \in RequestRow
    /\ \A u \in Users : NewLicense(u, "trial") \in LicenseRow /\ NewLicense(u, "paid") \in LicenseRow
    /\ \A row \in LicenseRow : Unbound(row) \in LicenseRow
  BY LicensingAssumption
     DEF NoLicense, LicenseRow, NoLease, LeaseRow, NoRequest, RequestRow, NewLicense, Unbound, Modes

\* Empty tables are well typed.
LEMMA InitTypeOK == Init => TypeOK
  BY RowTypes, LicensingAssumption DEF Init, TypeOK

\* Every operation writes rows of the right type.
LEMMA NextTypeOK == TypeOK /\ [Next]_licVars => TypeOK'
  <1> SUFFICES ASSUME TypeOK, [Next]_licVars PROVE TypeOK'
    OBVIOUS
  <1> USE LicensingAssumption
  <1>1. ASSUME NEW u \in Users, NEW l \in Licenses, EnsureProfileAndTrial(u, l) PROVE TypeOK'
    BY <1>1, RowTypes DEF TypeOK, EnsureProfileAndTrial
  <1>2. ASSUME NEW l \in Licenses, NEW d \in Devices, Bind(l, d) PROVE TypeOK'
    <2> DEFINE row == license[l]
               mode == IF row.mode = "unbound" THEN "online" ELSE row.mode
               exp == IF row.kind = "trial" /\ ~row.activated /\ row.expires = 0
                      THEN now + TrialPeriod ELSE row.expires
               new == [row EXCEPT !.device = d, !.mode = mode, !.activated = TRUE, !.expires = exp]
    <2>1. row \in LicenseRow /\ now \in Nat
      BY DEF TypeOK
    <2>2. mode \in Modes /\ exp \in Nat
      BY <2>1 DEF LicenseRow, Modes
    <2>3. license' = [license EXCEPT ![l] = new]
      BY <1>2 DEF Bind
    <2> HIDE DEF mode, exp
    <2>4. license' \in [Licenses -> LicenseRow]
      <3>1. new \in LicenseRow
        BY <2>1, <2>2 DEF LicenseRow
      <3>2. QED
        BY <3>1, <2>3 DEF TypeOK
    <2>5. QED
      BY <1>2, <2>4 DEF TypeOK, Bind
  <1>3. ASSUME NEW l \in Licenses, NEW d \in Devices, NEW m \in {"online", "offline", "permanent"},
               NEW days \in OfflinePeriods \cup {0}, ChangeMode(l, d, m, days),
               m = "offline" => days \in OfflinePeriods
        PROVE  TypeOK'
    <2> DEFINE row == license[l]
               period == NextPeriod(row, m, days)
               perm == row.permanent \/ m = "permanent"
               new == [row EXCEPT !.mode = m, !.period = period, !.permanent = perm]
    <2>1. row \in LicenseRow
      BY DEF TypeOK
    <2>2. period \in OfflinePeriods \cup {0} /\ perm \in BOOLEAN
      BY <1>3 DEF NextPeriod
    <2>3. license' = [license EXCEPT ![l] = new]
      BY <1>3 DEF ChangeMode
    <2> HIDE DEF period, perm
    <2>4. license' \in [Licenses -> LicenseRow]
      <3>1. new \in LicenseRow
        BY <2>1, <2>2 DEF LicenseRow, Modes
      <3>2. QED
        BY <3>1, <2>3 DEF TypeOK
    <2>5. lease' \in [Licenses -> LeaseRow]
      BY <1>3, RowTypes DEF TypeOK, ChangeMode
    <2>6. QED
      BY <1>3, <2>4, <2>5 DEF TypeOK, ChangeMode
  <1>4. ASSUME NEW l \in Licenses, NEW d \in Devices, FreeRevoke(l, d) PROVE TypeOK'
    <2>1. license[l] \in LicenseRow /\ Unbound(license[l]) \in LicenseRow
      BY RowTypes DEF TypeOK
    <2>2. cooldown' \in [Licenses -> Nat]
      <3> DEFINE period == IF license[l].period \in OfflinePeriods THEN license[l].period
                           ELSE DefaultPeriod
      <3>1. now + period \in Nat
        <4>1. period \in OfflinePeriods
          OBVIOUS
        <4> HIDE DEF period
        <4>2. period \in Nat
          BY <4>1
        <4>3. now \in Nat
          BY DEF TypeOK
        <4>4. QED
          BY <4>2, <4>3
      <3>2. cooldown' = [cooldown EXCEPT ![l] = now + period]
        BY <1>4 DEF FreeRevoke
      <3> HIDE DEF period
      <3>3. QED
        BY <3>1, <3>2 DEF TypeOK
    <2>3. QED
      BY <1>4, <2>1, <2>2, RowTypes DEF TypeOK, FreeRevoke
  <1>5. ASSUME NEW l \in Licenses, NEW d \in Devices, NEW raw \in Tokens \cup {None},
               NEW t \in Tokens, StartOrRenewLease(l, d, raw, t)
        PROVE  TypeOK'
    <2>1. [device |-> license[l].device, token |-> t, expires |-> now + LeaseTTL] \in LeaseRow
      BY DEF TypeOK, LeaseRow, LicenseRow
    <2>2. QED
      BY <1>5, <2>1 DEF TypeOK, StartOrRenewLease
  <1>6. ASSUME NEW l \in Licenses, NEW t \in Tokens, ReleaseLease(l, t) PROVE TypeOK'
    BY <1>6, RowTypes DEF TypeOK, ReleaseLease
  <1>7. ASSUME NEW u \in Users, ReleaseAllLeases(u) PROVE TypeOK'
    BY <1>7, RowTypes DEF TypeOK, ReleaseAllLeases
  <1>8. CASE DeleteExpiredLeases
    BY <1>8, RowTypes DEF TypeOK, DeleteExpiredLeases
  <1>9. ASSUME NEW r \in Requests, NEW l \in Licenses, CreateManualUnbind(r, l) PROVE TypeOK'
    <2>1. [license |-> l, user |-> license[l].user, status |-> "pending"] \in RequestRow
      BY DEF TypeOK, RequestRow, LicenseRow
    <2>2. QED
      BY <1>9, <2>1 DEF TypeOK, CreateManualUnbind
  <1>10. ASSUME NEW r \in Requests, ApproveManualUnbind(r) PROVE TypeOK'
    <2> DEFINE l == request[r].license
               new == [Unbound(license[l]) EXCEPT !.permanent = FALSE]
    <2>1. [request[r] EXCEPT !.status = "approved"] \in RequestRow
      BY DEF TypeOK, RequestRow
    <2>2. request' \in [Requests -> RequestRow]
      BY <1>10, <2>1 DEF TypeOK, ApproveManualUnbind
    <2>3. ASSUME l \in Licenses PROVE new \in LicenseRow
      <3>1. Unbound(license[l]) \in LicenseRow
        BY <2>3, RowTypes DEF TypeOK
      <3>2. QED
        BY <3>1 DEF LicenseRow
    <2>4. license' \in [Licenses -> LicenseRow]
      BY <1>10, <2>3 DEF TypeOK, ApproveManualUnbind
    <2>5. QED
      BY <1>10, <2>2, <2>4 DEF TypeOK, ApproveManualUnbind
  <1>11. ASSUME NEW r \in Requests, RejectManualUnbind(r) PROVE TypeOK'
    <2>1. [request[r] EXCEPT !.status = "rejected"] \in RequestRow
      BY DEF TypeOK, RequestRow
    <2>2. QED
      BY <1>11, <2>1 DEF TypeOK, RejectManualUnbind
  <1>12. ASSUME NEW l \in Licenses, NEW d \in Devices, NEW days \in OfflinePeriods,
                IssueOfflineEntitlement(l, d, days)
         PROVE  TypeOK'
    <2> DEFINE exp == EntitlementExpiry(license[l], days)
               e == [license |-> l, device |-> d, mode |-> license[l].mode,
                     days |-> IF license[l].mode = "permanent" THEN 0 ELSE days,
                     issued |-> now, expires |-> exp]
    <2>1. license[l] \in LicenseRow /\ now \in Nat
      BY DEF TypeOK
    <2>2. exp \in Nat
      BY <2>1, DeadlineTypes
    <2> HIDE DEF exp
    <2>3. e \in EntitlementRow
      BY <1>12, <2>1, <2>2 DEF EntitlementRow, IssueOfflineEntitlement
    <2>4. [license[l] EXCEPT !.validUntil = exp] \in LicenseRow
      BY <2>1, <2>2 DEF LicenseRow
    <2>5. entitlement' = entitlement \cup {e}
      BY <1>12 DEF IssueOfflineEntitlement, exp
    <2>6. license' = [license EXCEPT ![l] = [license[l] EXCEPT !.validUntil = exp]]
      BY <1>12 DEF IssueOfflineEntitlement, exp
    <2>7. entitlement' \subseteq EntitlementRow
      BY <2>3, <2>5 DEF TypeOK
    <2>8. license' \in [Licenses -> LicenseRow]
      BY <2>4, <2>6 DEF TypeOK
    <2>9. QED
      BY <1>12, <2>7, <2>8 DEF TypeOK, IssueOfflineEntitlement
  <1>13. ASSUME NEW u \in Users, DeleteAccount(u) PROVE TypeOK'
    BY <1>13 DEF TypeOK, DeleteAccount
  <1>14. CASE Tick
    BY <1>14 DEF TypeOK, Tick
  <1>15. ASSUME NEW u \in Users, NEW l \in Licenses, FulfillLicense(u, l) PROVE TypeOK'
    BY <1>15, RowTypes DEF TypeOK, FulfillLicense
  <1>16. ASSUME NEW l \in Licenses, NEW n \in 1 .. MaxPaidRevokes, FulfillPaidRevoke(l, n)
         PROVE  TypeOK'
    <2>1. [quota[l] EXCEPT ![Month(now)] = n] \in [Months -> 0 .. MaxPaidRevokes]
      <3>1. quota[l] \in [Months -> 0 .. MaxPaidRevokes]
        BY DEF TypeOK
      <3>2. n \in 0 .. MaxPaidRevokes
        OBVIOUS
      <3>3. QED
        BY <3>1, <3>2, Zenon
    <2>2. quota' \in [Licenses -> [Months -> 0 .. MaxPaidRevokes]]
      BY <1>16, <2>1 DEF TypeOK, FulfillPaidRevoke
    <2>3. QED
      BY <1>16, <2>2, RowTypes DEF TypeOK, FulfillPaidRevoke
  <1>17. ASSUME NEW l \in Licenses, FulfillOfflineExtension(l) PROVE TypeOK'
    <2> DEFINE next == ExtendedDeadline(license[l])
    <2>1. license[l] \in LicenseRow /\ now \in Nat
      BY DEF TypeOK
    <2>2. next \in Nat
      BY <2>1, DeadlineTypes
    <2> HIDE DEF next
    <2>3. [license[l] EXCEPT !.validUntil = next] \in LicenseRow
      BY <2>1, <2>2 DEF LicenseRow
    <2>4. license' = [license EXCEPT ![l] = [license[l] EXCEPT !.validUntil = next]]
      BY <1>17 DEF FulfillOfflineExtension, next
    <2>5. QED
      BY <1>17, <2>3, <2>4 DEF TypeOK, FulfillOfflineExtension
  <1>18. ASSUME NEW l \in Licenses, SuspendLicense(l) PROVE TypeOK'
    <2>1. license[l] \in LicenseRow
      BY DEF TypeOK
    <2>2. [license[l] EXCEPT !.status = "suspended"] \in LicenseRow
      BY <2>1 DEF LicenseRow
    <2>3. QED
      BY <1>18, <2>2 DEF TypeOK, SuspendLicense
  <1>19. CASE UNCHANGED licVars
    BY <1>19 DEF TypeOK, licVars
  <1>20. QED
    BY <1>1, <1>2, <1>3, <1>4, <1>5, <1>6, <1>7, <1>8, <1>9, <1>10, <1>11, <1>12, <1>13,
       <1>14, <1>15, <1>16, <1>17, <1>18, <1>19
       DEF Next, LicensingStep, OrderEffect

\* Every reachable state of the license tables is well typed.
THEOREM TypeCorrect == Spec => []TypeOK
  <1>1. QED
    BY InitTypeOK, NextTypeOK, PTL DEF Spec
-----------------------------------------------------------------------------
\* Empty tables satisfy the inductive invariant.
LEMMA InitInv == Init => LicensingInv
  BY InitTypeOK, LicensingAssumption
     DEF Init, LicensingInv, NoDanglingRows, BindingConsistent, DeviceExclusive,
         LeaseFollowsBinding, PermanentMark, TrialClock, OneTrialPerAccount,
         OneManualUnbindPerAccount, DeadlineCoversEntitlements, HasLease,
         NoLicense, NoLease, NoRequest

\* Every operation preserves the inductive invariant.
LEMMA NextInv == LicensingInv /\ [Next]_licVars => LicensingInv'
  <1> SUFFICES ASSUME LicensingInv, [Next]_licVars PROVE LicensingInv'
    OBVIOUS
  <1> USE LicensingAssumption
  <1> USE DEF NoDanglingRows, BindingConsistent, DeviceExclusive,
         LeaseFollowsBinding, PermanentMark, TrialClock, OneTrialPerAccount,
         OneManualUnbindPerAccount, DeadlineCoversEntitlements, HasLease
  <1>0. TypeOK /\ TypeOK'
    BY NextTypeOK DEF LicensingInv
  <1>21. BindingConsistent /\ DeviceExclusive
    BY DEF LicensingInv
  <1>22. PermanentMark /\ TrialClock /\ OneTrialPerAccount
    BY DEF LicensingInv
  <1>23. LeaseFollowsBinding
    BY DEF LicensingInv
  <1>1. ASSUME NEW u \in Users, NEW l \in Licenses, NEW kind \in {"trial", "paid"},
               license[l].status = "none",
               kind = "trial" => ~HasTrial(u),
               license' = [license EXCEPT ![l] = NewLicense(u, kind)],
               UNCHANGED <<now, deleted, binding, lease, cooldown, quota, request, entitlement>>
        PROVE  LicensingInv'
    <2>1. license[l] = NoLicense
      BY <1>1 DEF LicensingInv
    <2> DEFINE new == NewLicense(u, kind)
    <2>2. /\ new.user = u /\ new.kind = kind /\ new.status = "active" /\ new.mode = "unbound"
          /\ new.device = None /\ ~new.activated /\ ~new.permanent /\ new.expires = 0
      BY DEF NewLicense, NoLicense
    <2>3. license'[l] = new /\ \A k \in Licenses : k # l => license'[k] = license[k]
      BY <1>0, <1>1 DEF TypeOK
    <2> HIDE DEF new
    <2>4. NoDanglingRows'
      BY <1>0, <1>1, <2>2, <2>3 DEF LicensingInv, TypeOK, EntitlementRow
    <2>5. BindingConsistent' /\ DeviceExclusive' /\ PermanentMark' /\ TrialClock'
      BY <1>0, <1>1, <2>1, <2>2, <2>3 DEF LicensingInv, TypeOK, NoLicense
    <2>6. LeaseFollowsBinding'
      BY <1>0, <1>1, <2>2, <2>3 DEF LicensingInv, TypeOK
    <2>7. OneTrialPerAccount'
      BY <1>0, <1>1, <2>2, <2>3 DEF LicensingInv, TypeOK, HasTrial
    <2>8. OneManualUnbindPerAccount'
      BY <1>1 DEF LicensingInv
    <2>9. DeadlineCoversEntitlements'
      BY <1>0, <1>1, <2>2, <2>3 DEF LicensingInv, TypeOK, EntitlementRow
    <2>10. QED
      BY <1>0, <2>4, <2>5, <2>6, <2>7, <2>8, <2>9 DEF LicensingInv
  <1>2. ASSUME NEW l \in Licenses, NEW d \in Devices, Bind(l, d) PROVE LicensingInv'
    BY <1>0, <1>2 DEF LicensingInv, Bind, TypeOK, LicenseRow, LeaseRow, Usable, OwnerCalls
  <1>3. ASSUME NEW l \in Licenses, NEW d \in Devices, NEW m \in {"online", "offline", "permanent"},
               NEW days \in OfflinePeriods \cup {0}, ChangeMode(l, d, m, days)
        PROVE  LicensingInv'
    <2> DEFINE row == license[l]
               period == NextPeriod(row, m, days)
               perm == row.permanent \/ m = "permanent"
               new == [row EXCEPT !.mode = m, !.period = period, !.permanent = perm]
    <2>1. /\ row \in LicenseRow /\ row.status = "active" /\ row.device = d
          /\ row.mode = "permanent" => m = "permanent"
      BY <1>0, <1>3 DEF TypeOK, ChangeMode, Usable
    <2>2. /\ license' = [license EXCEPT ![l] = new]
          /\ lease' = IF m = "online" THEN lease ELSE [lease EXCEPT ![l] = NoLease]
          /\ UNCHANGED <<now, profile, deleted, binding, cooldown, quota, request, entitlement>>
      BY <1>3 DEF ChangeMode
    <2>3. perm <=> m = "permanent"
      BY <2>1 DEF LicensingInv
    <2> HIDE DEF period, perm
    <2>4. /\ new.mode = m /\ new.permanent = perm /\ new.device = d
          /\ new.status = "active" /\ new.user = row.user /\ new.kind = row.kind
          /\ new.activated = row.activated /\ new.expires = row.expires
          /\ new.validUntil = row.validUntil
      BY <2>1 DEF LicenseRow
    <2>5. license'[l] = new /\ \A k \in Licenses : k # l => license'[k] = license[k]
      BY <1>0, <2>2 DEF TypeOK
    <2> HIDE DEF new
    <2>6. NoDanglingRows'
      BY <1>0, <2>1, <2>2, <2>4, <2>5 DEF LicensingInv, TypeOK, EntitlementRow
    <2>7. BindingConsistent' /\ DeviceExclusive' /\ PermanentMark' /\ TrialClock'
      BY <1>0, <2>1, <2>2, <2>3, <2>4, <2>5 DEF LicensingInv, TypeOK
    <2>8. LeaseFollowsBinding'
      BY <1>0, <2>1, <2>2, <2>4, <2>5 DEF LicensingInv, TypeOK, NoLease
    <2>9. OneTrialPerAccount' /\ OneManualUnbindPerAccount'
      BY <1>0, <2>1, <2>2, <2>4, <2>5 DEF LicensingInv, TypeOK
    <2>10. DeadlineCoversEntitlements'
      BY <1>0, <2>1, <2>2, <2>4, <2>5 DEF LicensingInv, TypeOK, EntitlementRow
    <2>11. QED
      BY <1>0, <2>6, <2>7, <2>8, <2>9, <2>10 DEF LicensingInv
  <1>4. ASSUME NEW l \in Licenses, NEW d \in Devices, FreeRevoke(l, d) PROVE LicensingInv'
    <2> DEFINE row == license[l]
               new == Unbound(row)
    <2>1. row \in LicenseRow /\ row.status # "none" /\ row.mode # "permanent"
      BY <1>0, <1>4 DEF LicensingInv, FreeRevoke, TypeOK
    <2>2. /\ license' = [license EXCEPT ![l] = new]
          /\ binding' = [binding EXCEPT ![l] = None]
          /\ lease' = [lease EXCEPT ![l] = NoLease]
          /\ UNCHANGED <<request, entitlement>>
      BY <1>4 DEF FreeRevoke
    <2>3. /\ new.device = None /\ new.mode = "unbound" /\ new.permanent = row.permanent
          /\ new.status = row.status /\ new.user = row.user /\ new.kind = row.kind
          /\ new.activated = row.activated /\ new.expires = row.expires
          /\ new.validUntil = row.validUntil
      BY <2>1 DEF LicenseRow, Unbound
    <2>4. license'[l] = new /\ \A k \in Licenses : k # l => license'[k] = license[k]
      BY <1>0, <2>2 DEF TypeOK
    <2>5. binding'[l] = None /\ \A k \in Licenses : k # l => binding'[k] = binding[k]
      BY <1>0, <2>2 DEF TypeOK
    <2>6. lease'[l] = NoLease /\ \A k \in Licenses : k # l => lease'[k] = lease[k]
      BY <1>0, <2>2 DEF TypeOK
    <2> HIDE DEF new
    <2>7. NoDanglingRows' /\ DeadlineCoversEntitlements' /\ OneManualUnbindPerAccount'
      BY <1>0, <2>1, <2>2, <2>3, <2>4 DEF LicensingInv, TypeOK, EntitlementRow
    <2>8. BindingConsistent' /\ DeviceExclusive'
      BY <1>21, <2>3, <2>4, <2>5
    <2>9. PermanentMark' /\ TrialClock' /\ OneTrialPerAccount'
      BY <1>22, <2>1, <2>3, <2>4
    <2>10. LeaseFollowsBinding'
      BY <1>23, <2>4, <2>6 DEF NoLease
    <2>11. QED
      BY <1>0, <2>7, <2>8, <2>9, <2>10 DEF LicensingInv
  <1>5. ASSUME NEW l \in Licenses, NEW d \in Devices, NEW raw \in Tokens \cup {None},
               NEW t \in Tokens, StartOrRenewLease(l, d, raw, t)
        PROVE  LicensingInv'
    BY <1>0, <1>5 DEF LicensingInv, StartOrRenewLease, TypeOK, Usable, OwnerCalls
  <1>6. ASSUME NEW l \in Licenses, NEW t \in Tokens, ReleaseLease(l, t) PROVE LicensingInv'
    BY <1>0, <1>6 DEF LicensingInv, ReleaseLease, TypeOK, NoLease
  <1>7. ASSUME NEW u \in Users, ReleaseAllLeases(u) PROVE LicensingInv'
    BY <1>0, <1>7 DEF LicensingInv, ReleaseAllLeases, TypeOK, NoLease
  <1>8. CASE DeleteExpiredLeases
    BY <1>0, <1>8 DEF LicensingInv, DeleteExpiredLeases, TypeOK, NoLease
  <1>9. ASSUME NEW r \in Requests, NEW l \in Licenses, CreateManualUnbind(r, l) PROVE LicensingInv'
    BY <1>0, <1>9 DEF LicensingInv, CreateManualUnbind, TypeOK, OwnerCalls
  <1>10. ASSUME NEW r \in Requests, ApproveManualUnbind(r) PROVE LicensingInv'
    <2> DEFINE l == request[r].license
               row == license[l]
               new == [Unbound(row) EXCEPT !.permanent = FALSE]
               answered == [request[r] EXCEPT !.status = "approved"]
    <2>1. l \in Licenses /\ row \in LicenseRow /\ row.status # "none" /\ row.mode = "permanent"
      BY <1>0, <1>10 DEF LicensingInv, ApproveManualUnbind, TypeOK
    <2>2. /\ license' = [license EXCEPT ![l] = new]
          /\ binding' = [binding EXCEPT ![l] = None]
          /\ request' = [request EXCEPT ![r] = answered]
          /\ UNCHANGED <<lease, entitlement>>
          /\ ~ApprovedBefore(request[r].user)
      BY <1>10 DEF ApproveManualUnbind
    <2>3. /\ new.device = None /\ new.mode = "unbound" /\ ~new.permanent
          /\ new.status = row.status /\ new.user = row.user /\ new.kind = row.kind
          /\ new.activated = row.activated /\ new.expires = row.expires
          /\ new.validUntil = row.validUntil
      BY <2>1 DEF LicenseRow, Unbound
    <2>4. /\ answered.status = "approved" /\ answered.user = request[r].user
          /\ answered.license = l
      BY <1>0 DEF TypeOK, RequestRow
    <2>5. license'[l] = new /\ \A k \in Licenses : k # l => license'[k] = license[k]
      BY <1>0, <2>1, <2>2 DEF TypeOK
    <2>6. binding'[l] = None /\ \A k \in Licenses : k # l => binding'[k] = binding[k]
      BY <1>0, <2>1, <2>2 DEF TypeOK
    <2>7. request'[r] = answered /\ \A q \in Requests : q # r => request'[q] = request[q]
      BY <1>0, <2>2 DEF TypeOK
    <2>8. UNCHANGED <<lease, entitlement>>
      BY <2>2
    <2> HIDE DEF new, answered, l
    <2>9. NoDanglingRows'
      <3>1. NoDanglingRows /\ \A e \in entitlement : e.license \in Licenses
        BY <1>0 DEF LicensingInv, TypeOK, EntitlementRow
      <3>2. request[r].status # "none" /\ request[r].license = l
        BY <1>10 DEF ApproveManualUnbind, l
      <3>3. QED
        BY <2>1, <2>3, <2>4, <2>5, <2>7, <2>8, <3>1, <3>2
    <2>10. BindingConsistent' /\ DeviceExclusive'
      BY <1>21, <2>1, <2>3, <2>5, <2>6
    <2>11. PermanentMark' /\ TrialClock' /\ OneTrialPerAccount'
      BY <1>22, <2>1, <2>3, <2>5
    <2>12. LeaseFollowsBinding'
      BY <1>23, <2>1, <2>5, <2>8
    <2>13. OneManualUnbindPerAccount'
      BY <1>0, <2>2, <2>4, <2>7 DEF LicensingInv, TypeOK, ApprovedBefore
    <2>14. DeadlineCoversEntitlements'
      BY <1>0, <2>1, <2>3, <2>5, <2>8 DEF LicensingInv, TypeOK, EntitlementRow
    <2>15. QED
      BY <1>0, <2>9, <2>10, <2>11, <2>12, <2>13, <2>14 DEF LicensingInv
  <1>11. ASSUME NEW r \in Requests, RejectManualUnbind(r) PROVE LicensingInv'
    BY <1>0, <1>11 DEF LicensingInv, RejectManualUnbind, TypeOK, RequestRow
  <1>12. ASSUME NEW l \in Licenses, NEW d \in Devices, NEW days \in OfflinePeriods,
                IssueOfflineEntitlement(l, d, days)
         PROVE  LicensingInv'
    <2> DEFINE row == license[l]
               exp == EntitlementExpiry(row, days)
               new == [row EXCEPT !.validUntil = exp]
               e == [license |-> l, device |-> d, mode |-> row.mode,
                     days |-> IF row.mode = "permanent" THEN 0 ELSE days,
                     issued |-> now, expires |-> exp]
    <2>1. row \in LicenseRow /\ row.status = "active" /\ row.device = d
      BY <1>0, <1>12 DEF TypeOK, IssueOfflineEntitlement, Usable
    <2>2. exp \in Nat /\ row.validUntil <= exp
      BY <1>0, <2>1, DeadlineTypes DEF EntitlementExpiry, Max2, TypeOK, LicenseRow
    <2>3. /\ license' = [license EXCEPT ![l] = new]
          /\ entitlement' = entitlement \cup {e}
          /\ UNCHANGED <<now, profile, deleted, binding, lease, cooldown, quota, request>>
      BY <1>12 DEF IssueOfflineEntitlement
    <2> HIDE DEF exp
    <2>4. /\ new.mode = row.mode /\ new.permanent = row.permanent /\ new.device = row.device
          /\ new.status = "active" /\ new.user = row.user /\ new.kind = row.kind
          /\ new.activated = row.activated /\ new.expires = row.expires
          /\ new.validUntil = exp
      BY <2>1 DEF LicenseRow
    <2>5. license'[l] = new /\ \A k \in Licenses : k # l => license'[k] = license[k]
      BY <1>0, <2>3 DEF TypeOK
    <2>6. e.license = l /\ e.expires = exp
      OBVIOUS
    <2> HIDE DEF new, e
    <2>7. NoDanglingRows'
      BY <1>0, <2>1, <2>3, <2>4, <2>5, <2>6 DEF LicensingInv, TypeOK, EntitlementRow
    <2>8. BindingConsistent' /\ DeviceExclusive' /\ PermanentMark' /\ TrialClock'
      BY <1>0, <2>1, <2>3, <2>4, <2>5 DEF LicensingInv, TypeOK
    <2>9. LeaseFollowsBinding' /\ OneTrialPerAccount' /\ OneManualUnbindPerAccount'
      BY <1>0, <2>1, <2>3, <2>4, <2>5 DEF LicensingInv, TypeOK
    <2>10. DeadlineCoversEntitlements'
      BY <1>0, <2>1, <2>2, <2>3, <2>4, <2>5, <2>6
         DEF LicensingInv, TypeOK, EntitlementRow, LicenseRow
    <2>11. QED
      BY <1>0, <2>7, <2>8, <2>9, <2>10 DEF LicensingInv
  <1>13. ASSUME NEW u \in Users, DeleteAccount(u) PROVE LicensingInv'
    BY <1>0, <1>13 DEF LicensingInv, DeleteAccount
  <1>14. CASE Tick
    BY <1>0, <1>14 DEF LicensingInv, Tick
  <1>16. ASSUME NEW l \in Licenses, NEW n \in 1 .. MaxPaidRevokes, FulfillPaidRevoke(l, n)
         PROVE  LicensingInv'
    <2> DEFINE row == license[l]
               new == Unbound(row)
    <2>1. row \in LicenseRow /\ row.status # "none" /\ row.mode # "permanent"
      BY <1>0, <1>16 DEF LicensingInv, FulfillPaidRevoke, TypeOK, NoLicense
    <2>2. /\ license' = [license EXCEPT ![l] = new]
          /\ binding' = [binding EXCEPT ![l] = None]
          /\ lease' = [lease EXCEPT ![l] = NoLease]
          /\ UNCHANGED <<request, entitlement>>
      BY <1>16 DEF FulfillPaidRevoke
    <2>3. /\ new.device = None /\ new.mode = "unbound" /\ new.permanent = row.permanent
          /\ new.status = row.status /\ new.user = row.user /\ new.kind = row.kind
          /\ new.activated = row.activated /\ new.expires = row.expires
          /\ new.validUntil = row.validUntil
      BY <2>1 DEF LicenseRow, Unbound
    <2>4. license'[l] = new /\ \A k \in Licenses : k # l => license'[k] = license[k]
      BY <1>0, <2>2 DEF TypeOK
    <2>5. binding'[l] = None /\ \A k \in Licenses : k # l => binding'[k] = binding[k]
      BY <1>0, <2>2 DEF TypeOK
    <2>6. lease'[l] = NoLease /\ \A k \in Licenses : k # l => lease'[k] = lease[k]
      BY <1>0, <2>2 DEF TypeOK
    <2> HIDE DEF new
    <2>7. NoDanglingRows' /\ DeadlineCoversEntitlements' /\ OneManualUnbindPerAccount'
      BY <1>0, <2>1, <2>2, <2>3, <2>4 DEF LicensingInv, TypeOK, EntitlementRow
    <2>8. BindingConsistent' /\ DeviceExclusive'
      BY <1>21, <2>3, <2>4, <2>5
    <2>9. PermanentMark' /\ TrialClock' /\ OneTrialPerAccount'
      BY <1>22, <2>1, <2>3, <2>4
    <2>10. LeaseFollowsBinding'
      BY <1>23, <2>4, <2>6 DEF NoLease
    <2>11. QED
      BY <1>0, <2>7, <2>8, <2>9, <2>10 DEF LicensingInv
  <1>17. ASSUME NEW l \in Licenses, FulfillOfflineExtension(l) PROVE LicensingInv'
    <2>1. license[l].status # "none"
      BY <1>0, <1>17 DEF LicensingInv, FulfillOfflineExtension, TypeOK, NoLicense
    <2>2. license[l].expires = 0 => license[l].validUntil <= ExtendedDeadline(license[l])
      BY <1>0 DEF ExtendedDeadline, Max2, TypeOK, LicenseRow
    <2>3. QED
      BY <1>0, <1>17, <2>1, <2>2
         DEF LicensingInv, FulfillOfflineExtension, TypeOK, LicenseRow, EntitlementRow
  <1>18. ASSUME NEW l \in Licenses, SuspendLicense(l) PROVE LicensingInv'
    BY <1>0, <1>18 DEF LicensingInv, SuspendLicense, TypeOK, LicenseRow, EntitlementRow
  <1>19. CASE UNCHANGED licVars
    BY <1>0, <1>19 DEF LicensingInv, licVars
  <1>20. QED
    <2>1. ASSUME NEW u \in Users, NEW l \in Licenses, EnsureProfileAndTrial(u, l)
          PROVE  LicensingInv'
      BY <1>1, <2>1 DEF EnsureProfileAndTrial
    <2>2. ASSUME NEW u \in Users, NEW l \in Licenses, FulfillLicense(u, l)
          PROVE  LicensingInv'
      BY <1>1, <2>2 DEF FulfillLicense
    <2>3. QED
      BY <2>1, <2>2, <1>2, <1>3, <1>4, <1>5, <1>6, <1>7, <1>8, <1>9, <1>10, <1>11, <1>12, <1>13,
         <1>14, <1>16, <1>17, <1>18, <1>19
         DEF Next, LicensingStep, OrderEffect

\* The license tables satisfy the inductive invariant in every reachable state.
THEOREM LicensingInvariant == Spec => []LicensingInv
  <1>1. QED
    BY InitInv, NextInv, PTL DEF Spec

\* However users, devices and administrators interleave their calls, the binding
\* table agrees with the licenses and a device is bound to one license at most.
THEOREM DeviceBinding == Spec => [](BindingConsistent /\ DeviceExclusive)
  <1>1. LicensingInv => BindingConsistent /\ DeviceExclusive
    BY DEF LicensingInv
  <1>2. QED
    BY <1>1, LicensingInvariant, PTL

\* No unbinding, mode change or review leaves a lease of a former device behind.
THEOREM LeaseBinding == Spec => []LeaseFollowsBinding
  <1>1. LicensingInv => LeaseFollowsBinding
    BY DEF LicensingInv
  <1>2. QED
    BY <1>1, LicensingInvariant, PTL

\* An account never gets a second manual unbind, nor a second trial.
THEOREM OncePerAccount == Spec => [](OneManualUnbindPerAccount /\ OneTrialPerAccount)
  <1>1. LicensingInv => OneManualUnbindPerAccount /\ OneTrialPerAccount
    BY DEF LicensingInv
  <1>2. QED
    BY <1>1, LicensingInvariant, PTL

\* The offline deadline of a license without expiry covers all it was issued.
THEOREM DeadlineCovers == Spec => []DeadlineCoversEntitlements
  <1>1. LicensingInv => DeadlineCoversEntitlements
    BY DEF LicensingInv
  <1>2. QED
    BY <1>1, LicensingInvariant, PTL

-----------------------------------------------------------------------------
(* Action properties.                                                      *)

\* The four transactions that write the binding table.
LEMMA BindingSteps ==
    ASSUME [Next]_licVars
    PROVE  \/ UNCHANGED binding
           \/ \E l \in Licenses, d \in Devices : Bind(l, d)
           \/ \E l \in Licenses, d \in Devices : FreeRevoke(l, d)
           \/ \E r \in Requests : ApproveManualUnbind(r)
           \/ \E l \in Licenses, n \in 1 .. MaxPaidRevokes : FulfillPaidRevoke(l, n)
  BY DEF Next, LicensingStep, OrderEffect, licVars, EnsureProfileAndTrial, ChangeMode,
         StartOrRenewLease, ReleaseLease, ReleaseAllLeases, DeleteExpiredLeases,
         CreateManualUnbind, RejectManualUnbind, IssueOfflineEntitlement, DeleteAccount, Tick,
         FulfillLicense, FulfillOfflineExtension, SuspendLicense

\* The month of the clock is one of the months of the quota table.
LEMMA MonthOfNow == ASSUME TypeOK PROVE Month(now) \in Months
  <1> DEFINE q == now \div MonthLength
             m == MaxNow \div MonthLength
  <1>1. now \in Nat /\ MaxNow \in Nat /\ now <= MaxNow /\ MonthLength \in Nat \ {0}
    BY LicensingAssumption DEF TypeOK
  <1>2. q \in Nat /\ m \in Nat /\ q <= m
    BY <1>1, Z3
  <1>3. QED
    BY <1>2 DEF Month, Months

\* A device leaves its license only through one of the limited unbindings.
THEOREM UnbindLimited == Spec => UnbindIsLimited
  <1>1. ASSUME LicensingInv, [Next]_licVars, NEW l \in Licenses,
               binding[l] # None, binding'[l] # binding[l]
        PROVE  /\ binding'[l] = None
               /\ \/ cooldown[l] <= now /\ cooldown'[l] > now
                  \/ quota'[l][Month(now)] = quota[l][Month(now)] + 1
                  \/ \E r \in Requests : /\ request[r].license = l
                                         /\ request[r].status = "pending"
                                         /\ request'[r].status = "approved"
    <2> USE LicensingAssumption
    <2>0. TypeOK /\ BindingConsistent
      BY <1>1 DEF LicensingInv
    <2>1. ASSUME NEW k \in Licenses, NEW d \in Devices, Bind(k, d) PROVE FALSE
      BY <1>1, <2>0, <2>1 DEF Bind, TypeOK, BindingConsistent
    <2>2. ASSUME NEW k \in Licenses, NEW d \in Devices, FreeRevoke(k, d)
          PROVE  binding'[l] = None /\ cooldown[l] <= now /\ cooldown'[l] > now
      <3> DEFINE period == IF license[k].period \in OfflinePeriods THEN license[k].period
                           ELSE DefaultPeriod
      <3>1. period \in OfflinePeriods
        OBVIOUS
      <3>2. cooldown' = [cooldown EXCEPT ![k] = now + period] /\ cooldown[k] <= now
        BY <2>2 DEF FreeRevoke
      <3> HIDE DEF period
      <3>3. k = l /\ binding'[l] = None
        BY <1>1, <2>0, <2>2 DEF FreeRevoke, TypeOK
      <3>4. period \in Nat \ {0} /\ now \in Nat
        BY <2>0, <3>1 DEF TypeOK
      <3>5. QED
        BY <2>0, <3>2, <3>3, <3>4 DEF TypeOK
    <2>3. ASSUME NEW r \in Requests, ApproveManualUnbind(r)
          PROVE  /\ binding'[l] = None
                 /\ request[r].license = l
                 /\ request[r].status = "pending" /\ request'[r].status = "approved"
      BY <1>1, <2>0, <2>3 DEF ApproveManualUnbind, TypeOK, RequestRow
    <2>4. ASSUME NEW k \in Licenses, NEW n \in 1 .. MaxPaidRevokes, FulfillPaidRevoke(k, n)
          PROVE  binding'[l] = None /\ quota'[l][Month(now)] = quota[l][Month(now)] + 1
      <3>1. k = l /\ binding'[l] = None
        BY <1>1, <2>0, <2>4 DEF FulfillPaidRevoke, TypeOK
      <3>2. Month(now) \in Months
        BY <2>0, MonthOfNow
      <3>3. QED
        BY <2>0, <2>4, <3>1, <3>2 DEF FulfillPaidRevoke, TypeOK
    <2>5. QED
      BY <1>1, <2>1, <2>2, <2>3, <2>4, BindingSteps
  <1>2. LicensingInv /\ [Next]_licVars => [UnbindStep]_licVars
    BY <1>1 DEF UnbindStep
  <1>3. QED
    BY <1>2, LicensingInvariant, PTL DEF Spec, UnbindIsLimited

\* What a step may do to the row of a license that exists: it keeps its owner and
\* kind, a suspension and an expiry that is set, and leaves permanent binding
\* only by an approved manual unbind.
KeepsRow(l) ==
    /\ license'[l].user = license[l].user /\ license'[l].kind = license[l].kind
    /\ license'[l].status # "none"
    /\ license[l].status = "suspended" => license'[l].status = "suspended"
    /\ license[l].expires > 0 => license'[l].expires = license[l].expires
    /\ license[l].mode = "permanent" /\ license'[l].mode # "permanent" =>
          \E r \in Requests : /\ request[r].license = l
                              /\ request[r].status = "pending"
                              /\ request'[r].status = "approved"

\* Rows that exist are kept so; of the others none becomes a sold license.
KeepsRows ==
    \A l \in Licenses : /\ license[l].status # "none" => KeepsRow(l)
                        /\ license[l].status = "none" =>
                              license'[l] = license[l] \/ license'[l].kind = "trial"

\* A transaction that writes one existing row and does not leave permanent binding.
LEMMA RowWritten ==
    ASSUME TypeOK, NEW k \in Licenses, NEW new, license' = [license EXCEPT ![k] = new],
           license[k].status # "none",
           new.user = license[k].user, new.kind = license[k].kind,
           new.status \in {license[k].status, "suspended"},
           license[k].expires > 0 => new.expires = license[k].expires,
           license[k].mode = "permanent" => new.mode = "permanent"
    PROVE  KeepsRows
  BY DEF KeepsRows, KeepsRow, TypeOK

\* The operations of owners, devices and administrators keep rows so.
LEMMA OwnStepKeepsRows == LicensingInv /\ LicensingStep => KeepsRows
  <1> SUFFICES ASSUME LicensingInv, LicensingStep PROVE KeepsRows
    OBVIOUS
  <1> USE LicensingAssumption
  <1>0. /\ TypeOK /\ license \in [Licenses -> LicenseRow]
        /\ \A l \in Licenses : license[l] \in LicenseRow
        /\ NoDanglingRows
    BY DEF LicensingInv, TypeOK
  <1>1. ASSUME UNCHANGED license PROVE KeepsRows
    BY <1>1 DEF KeepsRows, KeepsRow
  <1>2. ASSUME NEW u \in Users, NEW k \in Licenses, EnsureProfileAndTrial(u, k) PROVE KeepsRows
    <2>1. NewLicense(u, "trial").kind = "trial"
      BY DEF NewLicense, NoLicense
    <2>2. QED
      BY <1>0, <1>2, <2>1 DEF EnsureProfileAndTrial, KeepsRows, KeepsRow
  <1>3. ASSUME NEW k \in Licenses, NEW d \in Devices, Bind(k, d) PROVE KeepsRows
    <2> DEFINE row == license[k]
               mode == IF row.mode = "unbound" THEN "online" ELSE row.mode
               exp == IF row.kind = "trial" /\ ~row.activated /\ row.expires = 0
                      THEN now + TrialPeriod ELSE row.expires
               new == [row EXCEPT !.device = d, !.mode = mode, !.activated = TRUE, !.expires = exp]
    <2>1. license' = [license EXCEPT ![k] = new] /\ row.status = "active" /\ row \in LicenseRow
      BY <1>0, <1>3 DEF Bind, Usable
    <2>2. row.mode = "permanent" => mode = "permanent"
      OBVIOUS
    <2>3. row.expires > 0 => exp = row.expires
      BY <2>1 DEF LicenseRow
    <2> HIDE DEF mode, exp
    <2>4. /\ new.user = row.user /\ new.kind = row.kind /\ new.status = row.status
          /\ new.mode = mode /\ new.expires = exp
      BY <2>1 DEF LicenseRow
    <2> HIDE DEF new
    <2>5. QED
      BY <1>0, <2>1, <2>2, <2>3, <2>4, RowWritten
  <1>4. ASSUME NEW k \in Licenses, NEW d \in Devices, NEW m \in {"online", "offline", "permanent"},
               NEW days \in OfflinePeriods \cup {0}, ChangeMode(k, d, m, days)
        PROVE  KeepsRows
    <2> DEFINE row == license[k]
               period == NextPeriod(row, m, days)
               perm == row.permanent \/ m = "permanent"
               new == [row EXCEPT !.mode = m, !.period = period, !.permanent = perm]
    <2>1. /\ license' = [license EXCEPT ![k] = new] /\ row.status = "active" /\ row \in LicenseRow
          /\ row.mode = "permanent" => m = "permanent"
      BY <1>0, <1>4 DEF ChangeMode, Usable
    <2> HIDE DEF period, perm
    <2>2. /\ new.user = row.user /\ new.kind = row.kind /\ new.status = row.status
          /\ new.mode = m /\ new.expires = row.expires
      BY <2>1 DEF LicenseRow
    <2> HIDE DEF new
    <2>3. QED
      BY <1>0, <2>1, <2>2, RowWritten
  <1>5. ASSUME NEW k \in Licenses, NEW d \in Devices, FreeRevoke(k, d) PROVE KeepsRows
    <2>1. LET new == Unbound(license[k])
          IN  /\ new.user = license[k].user /\ new.kind = license[k].kind
              /\ new.status = license[k].status /\ new.expires = license[k].expires
      BY <1>0 DEF LicenseRow, Unbound
    <2>2. /\ license' = [license EXCEPT ![k] = Unbound(license[k])]
          /\ license[k].status # "none" /\ license[k].mode # "permanent"
      BY <1>5 DEF FreeRevoke, OwnerCalls
    <2>3. QED
      BY <1>0, <2>1, <2>2, RowWritten
  <1>6. ASSUME NEW r \in Requests, ApproveManualUnbind(r) PROVE KeepsRows
    <2> DEFINE k == request[r].license
               new == [Unbound(license[k]) EXCEPT !.permanent = FALSE]
    <2>1. k \in Licenses /\ license[k] \in LicenseRow /\ license[k].status # "none"
      BY <1>0, <1>6 DEF ApproveManualUnbind, NoDanglingRows
    <2>2. license' = [license EXCEPT ![k] = new]
      BY <1>6 DEF ApproveManualUnbind
    <2>3. /\ new.user = license[k].user /\ new.kind = license[k].kind
          /\ new.status = license[k].status /\ new.expires = license[k].expires
      BY <2>1 DEF LicenseRow, Unbound
    <2>4. request[r].status = "pending" /\ request'[r].status = "approved"
      BY <1>0, <1>6 DEF ApproveManualUnbind, TypeOK, RequestRow
    <2> HIDE DEF new
    <2>5. QED
      BY <1>0, <2>1, <2>2, <2>3, <2>4 DEF KeepsRows, KeepsRow
  <1>7. ASSUME NEW k \in Licenses, NEW d \in Devices, NEW days \in OfflinePeriods,
                IssueOfflineEntitlement(k, d, days)
         PROVE  KeepsRows
    <2> DEFINE t == EntitlementExpiry(license[k], days)
               new == [license[k] EXCEPT !.validUntil = t]
    <2>1. license' = [license EXCEPT ![k] = new] /\ license[k].status = "active"
      BY <1>7 DEF IssueOfflineEntitlement, Usable
    <2> HIDE DEF t
    <2>2. /\ new.user = license[k].user /\ new.kind = license[k].kind /\ new.mode = license[k].mode
          /\ new.status = license[k].status /\ new.expires = license[k].expires
      BY <1>0 DEF LicenseRow
    <2> HIDE DEF new
    <2>3. QED
      BY <1>0, <2>1, <2>2, RowWritten
  <1>8. QED
    BY <1>1, <1>2, <1>3, <1>4, <1>5, <1>6, <1>7
       DEF LicensingStep, StartOrRenewLease, ReleaseLease, ReleaseAllLeases,
           DeleteExpiredLeases, CreateManualUnbind, RejectManualUnbind, DeleteAccount, Tick

\* So do the effects of orders, except for the purchase of a license.
LEMMA EffectKeepsRows ==
    ASSUME LicensingInv, NEW k \in Licenses,
           \/ \E n \in 1 .. MaxPaidRevokes : FulfillPaidRevoke(k, n)
           \/ FulfillOfflineExtension(k)
           \/ SuspendLicense(k)
    PROVE  KeepsRows /\ license[k].status # "none"
  <1> USE LicensingAssumption
  <1>0. TypeOK /\ license[k] \in LicenseRow /\ NoDanglingRows
    BY DEF LicensingInv, TypeOK
  <1>1. license[k].user \in profile => license[k].status # "none"
    BY <1>0 DEF TypeOK, NoDanglingRows, NoLicense
  <1>2. ASSUME NEW n \in 1 .. MaxPaidRevokes, FulfillPaidRevoke(k, n)
        PROVE  KeepsRows /\ license[k].status # "none"
    <2>1. LET new == Unbound(license[k])
          IN  /\ new.user = license[k].user /\ new.kind = license[k].kind
              /\ new.status = license[k].status /\ new.expires = license[k].expires
      BY <1>0 DEF LicenseRow, Unbound
    <2>2. /\ license' = [license EXCEPT ![k] = Unbound(license[k])]
          /\ license[k].status # "none" /\ license[k].mode # "permanent"
      BY <1>1, <1>2 DEF FulfillPaidRevoke
    <2>3. QED
      BY <1>0, <2>1, <2>2, RowWritten
  <1>3. CASE FulfillOfflineExtension(k)
    <2> DEFINE t == ExtendedDeadline(license[k])
               new == [license[k] EXCEPT !.validUntil = t]
    <2>1. license' = [license EXCEPT ![k] = new] /\ license[k].status # "none"
      BY <1>1, <1>3 DEF FulfillOfflineExtension
    <2> HIDE DEF t
    <2>2. /\ new.user = license[k].user /\ new.kind = license[k].kind /\ new.mode = license[k].mode
          /\ new.status = license[k].status /\ new.expires = license[k].expires
      BY <1>0 DEF LicenseRow
    <2> HIDE DEF new
    <2>3. QED
      BY <1>0, <2>1, <2>2, RowWritten
  <1>4. CASE SuspendLicense(k)
    <2> DEFINE new == [license[k] EXCEPT !.status = "suspended"]
    <2>1. license' = [license EXCEPT ![k] = new] /\ license[k].status # "none"
      BY <1>4 DEF SuspendLicense
    <2>2. /\ new.user = license[k].user /\ new.kind = license[k].kind /\ new.mode = license[k].mode
          /\ new.status = "suspended" /\ new.expires = license[k].expires
      BY <1>0 DEF LicenseRow
    <2> HIDE DEF new
    <2>3. QED
      BY <1>0, <2>1, <2>2, RowWritten
  <1>5. QED
    BY <1>2, <1>3, <1>4

\* A row that exists is kept by every step.
LEMMA LicenseRowSteps ==
    ASSUME LicensingInv, [Next]_licVars, NEW l \in Licenses, license[l].status # "none"
    PROVE  KeepsRow(l)
  <1>1. CASE KeepsRows
    BY <1>1 DEF KeepsRows
  <1>2. CASE UNCHANGED licVars
    BY <1>2 DEF KeepsRow, licVars
  <1>3. ASSUME NEW u \in Users, NEW k \in Licenses, FulfillLicense(u, k) PROVE KeepsRow(l)
    BY <1>3 DEF FulfillLicense, KeepsRow, LicensingInv, TypeOK
  <1>4. QED
    BY <1>1, <1>2, <1>3, OwnStepKeepsRows, EffectKeepsRows DEF Next, OrderEffect

\* No sequence of revokes, rebinds and mode changes moves the end of a trial
\* (BindD2SLicense starts its clock once).
THEOREM TrialClockKept == Spec => TrialClockNeverRestarts
  <1>1. ASSUME LicensingInv, [Next]_licVars, NEW l \in Licenses, license[l].expires > 0
        PROVE  license'[l].expires = license[l].expires
    <2>1. license[l].status # "none"
      BY <1>1, 0 > 0 <=> FALSE DEF LicensingInv, NoDanglingRows, NoLicense
    <2>2. QED
      BY <1>1, <2>1, LicenseRowSteps DEF KeepsRow
  <1>2. LicensingInv /\ [Next]_licVars =>
          [\A l \in Licenses : license[l].expires > 0
                               => license'[l].expires = license[l].expires]_licVars
    BY <1>1
  <1>3. QED
    BY <1>2, LicensingInvariant, PTL DEF Spec, TrialClockNeverRestarts

\* Permanent binding is left only by an approved manual unbind, whatever modes
\* are asked for and whatever orders are fulfilled (ChangeD2SLicenseMode,
\* FreeRevokeD2SLicense, fulfillD2SOrderTx).
THEOREM PermanentSticks == Spec => PermanentIsSticky
  <1> DEFINE Sticky == \A l \in Licenses :
                 license[l].mode = "permanent" /\ license'[l].mode # "permanent" =>
                    \E r \in Requests : /\ request[r].license = l
                                        /\ request[r].status = "pending"
                                        /\ request'[r].status = "approved"
  <1>1. ASSUME LicensingInv, [Next]_licVars, NEW l \in Licenses,
               license[l].mode = "permanent", license'[l].mode # "permanent"
        PROVE  \E r \in Requests : /\ request[r].license = l
                                   /\ request[r].status = "pending"
                                   /\ request'[r].status = "approved"
    <2>1. license[l].status # "none"
      BY <1>1 DEF LicensingInv, NoDanglingRows, NoLicense
    <2>2. QED
      BY <1>1, <2>1, LicenseRowSteps DEF KeepsRow
  <1>2. LicensingInv /\ [Next]_licVars => [Sticky]_licVars
    BY <1>1
  <1>3. QED
    BY <1>2, LicensingInvariant, PTL DEF Spec, PermanentIsSticky

\* A free-revoke cooldown only grows: the one transaction that writes it
\* (FreeRevokeD2SLicense) waits for its end.
THEOREM CooldownKept == Spec => CooldownNeverShortened
  <1>1. ASSUME TypeOK, [Next]_licVars, NEW l \in Licenses PROVE cooldown'[l] >= cooldown[l]
    <2>0. cooldown \in [Licenses -> Nat] /\ cooldown[l] \in Nat
      BY <1>1 DEF TypeOK
    <2>1. ASSUME NEW k \in Licenses, NEW d \in Devices, FreeRevoke(k, d)
          PROVE  cooldown'[l] >= cooldown[l]
      <3> DEFINE period == IF license[k].period \in OfflinePeriods THEN license[k].period
                           ELSE DefaultPeriod
      <3>1. period \in OfflinePeriods
        BY LicensingAssumption
      <3>2. cooldown' = [cooldown EXCEPT ![k] = now + period] /\ cooldown[k] <= now
        BY <2>1 DEF FreeRevoke
      <3> HIDE DEF period
      <3>3. period \in Nat /\ now \in Nat
        BY <1>1, <3>1, LicensingAssumption DEF TypeOK
      <3>4. QED
        BY <2>0, <3>2, <3>3
    <2>2. CASE UNCHANGED cooldown
      BY <2>0, <2>2
    <2>3. QED
      BY <1>1, <2>1, <2>2
         DEF Next, LicensingStep, OrderEffect, licVars, EnsureProfileAndTrial, Bind, ChangeMode,
             StartOrRenewLease, ReleaseLease, ReleaseAllLeases, DeleteExpiredLeases,
             CreateManualUnbind, ApproveManualUnbind, RejectManualUnbind,
             IssueOfflineEntitlement, DeleteAccount, Tick, FulfillLicense, FulfillPaidRevoke,
             FulfillOfflineExtension, SuspendLicense
  <1>2. TypeOK /\ [Next]_licVars => [\A l \in Licenses : cooldown'[l] >= cooldown[l]]_licVars
    BY <1>1
  <1>3. QED
    BY <1>2, TypeCorrect, PTL DEF Spec, CooldownNeverShortened

\* A live lease passes to another token in no single step: a second instance of
\* the program waits until it is released or expires (StartOrRenewD2SOnlineLease).
THEOREM LeaseKept == Spec => LeaseNotStolen
  <1>1. ASSUME TypeOK, [Next]_licVars, NEW l \in Licenses, LiveLease(l), lease'[l].token # None
        PROVE  lease'[l].token = lease[l].token
    <2>0. lease \in [Licenses -> LeaseRow] /\ NoLease.token = None
      BY <1>1 DEF TypeOK, NoLease
    <2>1. ASSUME NEW k \in Licenses, NEW d \in Devices, NEW raw \in Tokens \cup {None},
                 NEW t \in Tokens, StartOrRenewLease(k, d, raw, t)
          PROVE  lease'[l].token = lease[l].token
      <3>1. lease' = [lease EXCEPT ![k] = [device |-> license[k].device, token |-> t,
                                           expires |-> now + LeaseTTL]]
        BY <2>1 DEF StartOrRenewLease
      <3>2. k = l => lease[l].token # None /\ raw = lease[l].token /\ t = raw
        BY <1>1, <2>1 DEF StartOrRenewLease, LiveLease, HasLease
      <3>3. QED
        BY <2>0, <3>1, <3>2
    <2>2. ASSUME NEW k \in Licenses, lease' = [lease EXCEPT ![k] = NoLease]
          PROVE  lease'[l].token = lease[l].token
      BY <1>1, <2>0, <2>2
    <2>3. ASSUME NEW u \in Users, ReleaseAllLeases(u) PROVE lease'[l].token = lease[l].token
      BY <1>1, <2>0, <2>3 DEF ReleaseAllLeases
    <2>4. CASE DeleteExpiredLeases
      BY <1>1, <2>0, <2>4 DEF DeleteExpiredLeases
    <2>5. CASE UNCHANGED lease
      BY <2>5
    <2>6. QED
      BY <1>1, <2>1, <2>2, <2>3, <2>4, <2>5
         DEF Next, LicensingStep, OrderEffect, licVars, EnsureProfileAndTrial, Bind, ChangeMode,
             FreeRevoke, ReleaseLease, CreateManualUnbind, ApproveManualUnbind,
             RejectManualUnbind, IssueOfflineEntitlement, DeleteAccount, Tick, FulfillLicense,
             FulfillPaidRevoke, FulfillOfflineExtension, SuspendLicense
  <1>2. TypeOK /\ [Next]_licVars =>
          [\A l \in Licenses : LiveLease(l) /\ lease'[l].token # None
                               => lease'[l].token = lease[l].token]_licVars
    BY <1>1
  <1>3. QED
    BY <1>2, TypeCorrect, PTL DEF Spec, LeaseNotStolen
=============================================================================
