# Desktop2Stereo site: TLA+ models, checks and proofs

The repository is an LLM gateway (the upstream *new-api*) with an extension of
its own: the **Desktop2Stereo** (d2s) site, which sells licenses for a desktop
program, binds them to devices, signs offline entitlements, keeps an invite
balance and lets launchers log in with device codes. The extension is the
repository's own core logic and the part with state machines and money. This
project models it, and with it the two concurrent protocols it stands on: the
login sessions of the server (database, Redis, several nodes) and of the
browser (tabs, refreshes, a shared cookie). Paths below are relative to `src/`.

## 1. The system

| part | state | operations | what is hard |
|---|---|---|---|
| Licenses (`model/d2s_licensing.go`, `service/d2s_signing.go`) | license rows, device bindings, online leases, free-revoke cooldowns, monthly paid-revoke counters, manual unbind requests, signed entitlements, profiles | ensure profile and trial, bind, change mode, free revoke, start/renew/release lease, issue entitlement, request/approve/reject manual unbind, order effects, account deletion | accounts racing for a device; two tables that must agree; leases of former devices; long sequences that restart a trial or unbind too often; one deadline written by two features |
| Orders and money (`model/d2s_billing.go`) | orders, payment events, balance accounts, invite rewards, withdrawals, Alipay refunds, account region | quote, create, paid/canceled/chargeback events, expiry, refunds, withdrawal and its review, region change | quote outside the transaction; payments late, duplicated, after cancellation; month or region changing in between; reserved money of several holders; chargeback of money already spent |
| Device login (`ExchangeD2SDeviceCode`, `service/auth_session.go`) | device codes, login sessions | create, approve, cancel, exchange (claim, block check, session, finish), sweep | several polls, crash or failure at each step, the sweep deleting a code in use |
| Emergency control (`controller/d2s_admin_security.go`, `model/d2s_admin_accounts.go`) | control row, auth version | block/unblock login, forced logout | read-modify-write without a lock; logins under way during a logout |
| Clean-up (`service/d2s_cleanup.go`) | none | hourly: expire orders, delete expired leases and codes | everything that must eventually end |
| Alipay (`controller/d2s_alipay_*.go`) | the gateway's trades, requests in hand | check out, notify, query, close, refund, reconcile orders and refunds; events of the payment bridge | a remote system with its own opinion: late, lost and repeated answers, a buyer who pays while the order is being closed, restarts between two steps |
| User sessions (`model/user_session.go`, `service/auth_session.go`) | session row, its snapshot in each Redis, auth version of the user | create, validate, refresh (rotate), advance, revoke (five ways), delete | a snapshot stored after the revocation it does not know of; fences and tombstones that are lost; compare-and-swap races |
| Login session in the browser (`web/src/lib/auth-session*.ts`, `http-client.ts`) | auth store of each tab, refresh cookie, refresh, sign-in, sign-out and requests under way, events between tabs | resolve, refresh, sign in, sign out, API request, event, page load | tabs share a cookie but not their memory; late answers; pages unloaded with a request under way; waiters on waiters |
| Administrators, exports, support, logs, signing keys | accounts, approvals, tickets | see section 7 | lockout, single use of approvals; not modelled yet |

Interaction is through the database: an HTTP handler calls one or more
functions of `model/`, each one transaction (`d2STransaction`, retried after
transient errors) that, but for one pair (section 2), locks the rows it decides
on. A settled order changes a
license in the order's own transaction (`fulfillD2SOrderTx`); deleting an
account removes its profile and leaves the licenses; a forced logout also
releases the account's leases.

What makes the parts correct: a device has one license and a license one
device, and they part only in limited ways; leases and entitlements follow the
binding; a payment has its effect exactly once, however it is notified; every
cent of a balance is accounted for; a device code logs one launcher in, once;
a blocked or logged-out account is out; Alipay and the site agree about what was
paid and returned; a revoked session is refused everywhere within a known time;
a sign-out is final and ends only the sessions it was asked for.

## 2. Modules

| module | models |
|---|---|
| `D2SLicensing` | the license state machine |
| `D2SBilling` | orders, balances, rewards, withdrawals, refunds and regions, composed with `D2SLicensing` (EXTENDS: the order effects are actions of that module taken in the same step) |
| `D2SDeviceLogin` | device codes and their exchange, with the emergency control |
| `D2SAlipay` | Alipay orders and refunds between the site and Alipay, composed with `D2SBilling` (EXTENDS); its abstract specification is `D2SBilling` |
| `UserSessions` | one login session with its row, its snapshots and the request handlers, call by call |
| `SessionGate` | what `UserSessions` promises: who is admitted when |
| `WebAuthSession` | the tabs of one browser and the refresh and logout endpoints |
| `MC...` | instances for TLC |
| `...Proofs` | theorems and their proofs |

`D2SLicensing` is also the abstract specification of `D2SBilling`: there the
order effects (`FulfillLicense`, `FulfillPaidRevoke`,
`FulfillOfflineExtension`, `SuspendLicense`) happen at any time, because a
payment may arrive at any time after its order was quoted; `D2SBilling` says
exactly when, and is shown to implement it (`ImplementsLicensing`).

`ImplementsBilling` says the same one level up: in `D2SBilling` an Alipay order
is paid, canceled or refunded at any time; `D2SAlipay` says on whose word.
`SessionGate` has no caches, handlers or versions, only the clock, the
revocation and the requests: one that begins `Window` or more after the
revocation was committed is refused. `UserSessions` is shown to implement it
with `Window` = the cache's TTL.

### From code to model

* A **transaction is one action.** Its checks are the guards; a call that is
  refused changes nothing and is a disabled action. What the code does in
  several transactions, or in a read before its transaction, is several
  actions: an order is `QuoteOrder` and then `InsertOrder` (or `DropCall`), a
  withdrawal `CheckWithdrawal` and then `CreateWithdrawal`; an exchange and an
  emergency request have one action per read or write, and may crash or fail
  between them.
* A **table is a function** from ids to rows; an absent row has status
  `"none"` or one of the `No...` values. A lease token stands for its hash, a
  device for its fingerprint hash, a region for its currency.
* **Payment events** carry no state: every event that the order's state permits
  may happen at any time and again under a fresh event id. A replay under a
  known id returns before it writes and is a stuttering step. `paidEvent` is
  what a chargeback looks up.
* **Time** is a bounded clock (`now`); periods are constants. Months are
  intervals of the clock.
* **Prices** are one per product. The code's prices also depend on the currency
  and on the number of the revoke; no property tells these apart, as an order
  keeps the amount it was quoted.
* **Left out:** audit rows, license events, balance transactions (append-only,
  not read by these operations), client metadata, the fingerprint version.
* **Alipay** is external and modelled from how the code uses it: a trade exists
  once the buyer has opened the cashier page, is paid or closed once, and is
  closed by a full refund. Each request of the site is two steps, the answer
  and what the site does with it, and either may fail. `EnvMatches` is the
  question of section 3 whether the environment and the managed configuration
  name the same application.
* **The payment bridge** (`D2SPaymentWebhook`, `POST /api/v1/webhooks/:provider`)
  takes signed events of internal adapters, for which
  `docs/desktop2stereo-api.md:108` demands that they have verified the payment
  with its provider. It accepts `alipay_pc` like any provider and asks Alipay
  nothing, so `D2SAlipay` has it as an action of its own (`Bridge`), with the
  events in `BridgeEvents` (none where no bridge secret is configured). What it
  cancels or reverses is remembered in the history variable `bridged`.
* **Sessions, server side.** A handler of `UserSessions` has a program counter
  and the values it carries from one database or Redis call to the next; each
  call is an action, its loss another. A call of Redis is answered, is lost
  before it is carried out, or is carried out and its answer cut off. Version
  and auth version of a session change together and are one number; refresh
  secrets are derived from each other and are numbered.
* **Sessions, browser side.** JavaScript runs to completion between answers, so
  a callback is one action; the server's handling of a request, the delivery
  of its answer and the events of other tabs are actions of their own. Requests
  fail before or after the server has carried them out; a session lookup that
  fails is answered like an unknown session and leaves the row alone. A
  settled promise resumes those who await it before anything else happens in
  the tab (`Quiet`). The endpoints are single actions here; `UserSessions` has
  their inside.
* **History variables**, which no action reads: `loggedOut` in `D2SDeviceLogin`
  (the auth version that the account's last completed forced logout found),
  `bridged` in `D2SAlipay`, and in `WebAuthSession` `out` (sessions a tab has
  signed out of), `strayed` (sessions with a refresh cut off from its answer)
  and `ending` (sessions that a page asked to end while it showed them, or that
  were revoked elsewhere).

* In `D2SDeviceLogin` the user and session caches are taken to agree with
  the database (`UserSessions` is about the ones that do not): `ReadUser` and
  `ValidateLoginSession` read the auth version itself. A failure to publish a
  raised version is one of the failures of `BumpAuthVersion`.

A transaction is one action because it behaves as if it ran alone. On MySQL and
PostgreSQL this rests on `lockForUpdate` of the rows a decision is about and on
unique indexes, on SQLite (where `lockForUpdate` does nothing) on the single
writer: of two transactions that overlap, one fails. One pair of transactions
does not lock what it decides on. `SetD2SUserRegion` locks the profile and counts
balances, orders and withdrawals without a lock; `awardD2SInviteTx` reads the
inviter's profile without one and credits a balance; orders and withdrawals
read the region before their transaction. So a region change is two
actions, `CheckRegion` and `SetRegion` (or `DropRegion`), between which rewards,
orders and withdrawals of the account happen, and only what needs the profile's
lock (`Locked`) waits. `SingleWriter` says that the database is SQLite, where
the change is one step.

## 3. Runs

Passing runs, and what they show:

| run | instance | checks |
|---|---|---|
| `binding` | 2 accounts, 2 licenses, 2 devices, 2 tokens, clock to 3, months of 3 | devices are exclusive, leases follow bindings and are not stolen, unbinding is limited, a trial's clock starts once |
| `unbind_entitlement` | 1 account, 2 licenses, 2 devices, 2 requests, 1 entitlement, extensions | one approval for life, permanent binding is sticky, the deadline covers what was signed, cooldowns only grow |
| `ledger` | inviter and invited account that already traded, 2 keys, 1 withdrawal, SQLite | balances: reserved and available are exactly explained; a reward is tied to its payment; a sale delivers one license; money stays in its region |
| `revoke_orders` | 2 revoke orders in flight, 2 months, 2 revokes a month, region changes of MySQL or PostgreSQL | one pending revoke, every revoke paid and counted once, orders settle in the account's region, expired orders end (liveness), refinement of `D2SLicensing` |
| `device_login` | 2 polls of a code, 2 emergency requests | one delivery, claims are exclusive, no session survives a completed logout, a refusal is final (block, refusal, unblock, retry), a claim ends even when its exchange died (liveness) |
| `alipay` | 1 order (a license, in two parts, or an extension), 2 refunds, 1 administrator closing orders, the reconciliation, the payment bridge | but for what the bridge says, an order is canceled only unpaid and a license taken back only for returned money; refunds are covered; refinement of `D2SBilling` |
| `reconciliation` | 2 orders, one older, rounds of 1 | paid orders settle and opened ones end, unless older orders that never end fill every round (liveness) |
| `session_cache` | 2 handlers, all operations, one shared Redis, the clock up to a full TTL after a revocation | refinement of `SessionGate`; a stored tombstone is final |
| `web_session` | 2 tabs with no session, the same one or different ones, and 2 more user actions; Web Locks | a sign-out ends only what its page showed, no return after a sign-out, no reuse detection among tabs; everyone who waits for a refresh, a lock or an answer gets it, sign-outs answered with a mismatch included (liveness) |

Bounds. Every exclusivity or once-only property is about a pair, so each
instance has two of what may collide. The clock runs far enough to pass each
period once and, in `binding` and `revoke_orders`, to enter a second month.
`SoldSpec` and `OrderedSpec` start `ledger` and `alipay` from states that the
operations reach (accounts with their trials and first purchases) so that the
depth goes into what happens to the money afterwards. The batch of 100 orders is
1 in the runs, so that with two orders it is full and one order can keep the
other out. `reconciliation` leaves out administrators and refunds, which only
end orders, and the bridge, which may cancel an order that was paid.
`revoke_orders` and `alipay` run the two steps of a region change of MySQL and
PostgreSQL; gateways of both regions side by side are left to the theorem
`OrdersSettleInRegion`. `BusySpec` starts `web_session` where up to two user
actions lie behind: a mismatch needs two sessions, which take two sign-ins, and
what matters comes after them. Runs with `CHECK_DEADLOCK FALSE` stop at the
bound of the clock or when the pools of ids are used up; the system itself has
no such end.

In `WebAuthSession` the bounds count what users begin, rotations, undelivered
events and requests of unloaded pages. A refresh that would rotate beyond the
bound is refused or fails instead, so what is under way always has a way on and
liveness is not an artefact of a bound.

Fairness. `FairBillingSpec` and `FairDeviceSpec` assume that time passes and
that the hourly clean-up (`StartD2SArtifactCleanup`, a goroutine with a ticker
on the master node) keeps running: weak fairness of `Tick`, of `ExpireOrder`
for each order and of `DeleteExpiredCodes`. Per-order fairness is justified
although the sweep stops at the first order it cannot release, because
`ReservedMatches` says that none fails for lack of reserved balance. Nothing is
assumed of users, launchers, payment providers, administrators or servers in
the middle of a request. `ExpiredOrdersEnd` speaks of orders that expire
within the bound of the clock; Alipay orders are excepted because the sweep
leaves them to the reconciliation.

`AlipayFairness` assumes the minute ticker of the master node
(`StartD2SAlipayReconciliation`) and that Alipay, the database and the server
do not fail for ever at the same step of the same order: strong fairness of the
reconciliation's own steps, none of the buyer's, the administrators' or the
notification's. Strong fairness of `PassOver` says that the loop over the orders
of a round moves on when a query fails, however often the server restarts in
between. `PaidSettles` and `OpenedOrdersEnd` except two cases. An order that
`ProcessD2SPaymentEvent` refuses (`Refused`: its account was deleted, its region
changed, its license cannot be extended) stays pending until an administrator
acts. And an order is `Starved` while as many older orders as a round takes can
never end: their cashier page was never opened, so that Alipay does not know
them, or their payment is refused. Without this exception both properties fail
in the run's instance (below); with it they say that nothing else keeps an order
from its end.

`WebAuthSession`'s fairness is that of a browser:
requests are answered or fail, callbacks run, a lock is granted in the order it
was asked for (hence strong fairness of `GrantLock`). Nothing is assumed of
users, other tabs' events or page loads.

### What the code does not keep

These runs check what a document of the repository says and end with a
counterexample; `PROJECT.json` quotes the documents.

| run | counterexample |
|---|---|
| `offline_entitlement_ends` | permanent license gets its endless entitlement, is unbound manually, rebound, set to offline mode: `offline_valid_until` is still 9999 and the next 7-day entitlement is endless |
| `lifted_by_unlock` | a forced logout or purchase request, read before and written after a login block, lifts it |
| `region_skew` | on MySQL or PostgreSQL, a region change has found no money; an invited account's payment credits a reward in the old region, for which it read the profile without a lock; the change is written, and the account has money outside its region |

More that is visible in the models and follows from the code, without a run of
its own:

* An extension bought for a trial that is not activated yet is not capped, and
  an entitlement of the trial then outlives it; a second extension moves the
  deadline back to the trial's expiry (`ExtendedDeadline`).
* The invite reward looks for an earlier reward, not for an earlier license:
  when the inviter qualifies only after the invited account's first purchase,
  the second purchase is rewarded (`Rewarded`).
* A login block written between an exchange's check (`ReadLoginBlock`) and its
  session (`OpenSession`) does not stop that session.
* An Alipay order whose cashier page was never opened is unknown to Alipay; its
  query fails and nothing ever ends it. As many of them as a round of the
  reconciliation takes (100) keep every later order out, also a paid one whose
  notification was lost, although `docs/alipay-pc-payment-integration-plan.md:21`
  lets the reconciliation fulfil every order it can confirm: `PaidSettles`
  without `Starved` fails in `reconciliation`, where the round takes one.
* `queryAlipayPCTrade` compares the answer with the environment variables, while
  the configuration may be managed in the database
  (`docs/alipay-pc-payment-integration-plan.md:74`). Where the two do not name the
  same application every query is refused, and a payment whose notification
  is lost never settles: `PaidSettles` fails in `reconciliation` with
  `EnvMatches` = FALSE.
* An event of the payment bridge can cancel an Alipay order that was paid, or
  reverse one of which nothing was returned; the code trusts the adapter that
  signs it (`Bridge`).
* A full refund whose answer was lost cannot be confirmed any more: Alipay
  reports the trade as closed, `CheckRefund` wants it paid.
* A sign-out whose access token has expired and whose cookie holds a secret the
  server no longer knows is answered with success and revokes nothing
  (`LoggedOutRow`); the session lives on until it expires. Two tabs whose
  answers overtake each other, or a page unloaded during its refresh, leave
  such a cookie.
* After a mismatch a refresh drops the session the tab shows and takes over the
  cookie's, which may be another account's, without a sign-in; a sign-out that
  was answered so then ends that session. `docs/authentication.md:66,72` demands
  both, so neither is a finding; `EndedAsAsked` counts the second request as
  asked for what the tab shows by then.

## 4. Proofs

TLAPS proves for all values of the constants (under the named assumptions of
the modules, which say no more than that periods, prices and bounds are
numbers, that tiers and gateways are among the code's, that there are finitely
many accounts, order keys, withdrawals and refunds, and that the empty value is
not an id):

* `D2SLicensingProofs`: `TypeCorrect`, and `LicensingInvariant`
  (`Spec => []LicensingInv`) with its corollaries `DeviceBinding`,
  `LeaseBinding`, `OncePerAccount`, `DeadlineCovers`; and all action properties
  of the licenses: `UnbindLimited`, `TrialClockKept`, `PermanentSticks`,
  `CooldownKept`, `LeaseKept`.
  The parts of `LicensingInv` are not inductive one by one. The approval of a
  manual unbind deletes no lease: that no lease is left needs "a leased license
  is online", which needs that mode changes delete leases. That a device is
  exclusive needs that the binding table and the license column agree, that
  new rows are consistent needs `NoDanglingRows` (an unused id has an empty
  row), that a deadline covers what was signed needs `TrialClock` (a license
  without expiry never gets one after it was activated).
* `D2SBillingProofs`: `Refinement` (`BillingSpec => ImplementsLicensing`: each
  billing step is a licensing step or leaves the licenses alone; the order
  effects inside `Settle`, `Chargeback` and `CompleteRefund` are found in
  `FulfillIsEffect` and `SuspendIsEffect`) and from it `LicensesStayConsistent`;
  `BillingTypeCorrect`; `RewardsFollowOrders`, `RewardedOnce`,
  `PendingRevokeOnce`, from one description of what a step may do to the
  orders (`NextOrderMove`).
* `SumTheorems`: what the ledger proofs need of `SumFunctionOnSet` (the sum over
  a finite set exists, does not depend on the order of summing, and changes by
  the changed summand). The library's induction rules cannot be instantiated by
  the installed provers; the lemmas argue instead with a smallest
  counterexample, strict inclusion being well founded on the subsets of a
  finite set.
* `D2SLedgerProofs`: `LedgerHolds` and `ReservedIsHeld` (`LedgerBalanced`,
  `ReservedMatches`), `RefundsAreCovered`, `RevokesAreCounted`,
  `LicensesSoldOnce`, `ReversedStaysSuspended`, `MoneyStaysInRegion`,
  `OrdersSettleInRegion`. All rest on `BillingBase`: the types, `LicensingInv`,
  rewards that follow orders, and `BillingRows` (an unused row is empty, a
  settled order names its license, a refund its order). The balances are proved
  through `Booked` and `Booking`: every step changes at most one order or one
  withdrawal, and books in each account exactly the change of that order's or
  withdrawal's share, so the sums move with the columns. Sales, revokes and
  refunds go through the cases of an order's life (`OrderCases`). Money in
  its region, proved where the database is SQLite (`SingleWriter`), is inductive
  only with "an account without a profile has no money" (`RegionInv`): its
  profile may come later, without a region.
* `D2SAlipayProofs`: `AlipayRefinement` (`AlipaySpec => ImplementsBilling`),
  `CanceledUnpaid` and `AlipayTypeCorrect`, all from
  `AlipayInvariant`. An agent cancels an order on an answer that is old by then,
  so `CanceledIsUnpaid` is inductive only together with: a closed trade never
  opens again (`WorkInv`: the answer "closed" stays true while it is in hand);
  collected money belongs to a trade that succeeded or was closed, and only a
  refund of a settled order closes a paid trade (`TradeInv`); a refund request in
  hand is about a settled order, and settled orders stay settled (`AskInv`). All
  of it holds with any events of the payment bridge: the orders in `bridged` are
  excepted from what they themselves would have to say, not from the rest.
  The refinement needs `BillingTypeOK` and that an order keeps its provider.
  Through it `AlipayInherits` carries the results of the billing modules over.
  `ReturnedBeforeReversed` adds `RefundInv`: a refund is confirmed or completed
  only after Alipay carried it out, and an Alipay order is reversed, other than by
  the bridge, only when its completed refunds reach the payment.
* `UserSessionsProofs`: `TypeCorrect`, `GateInvariant` and
  `SessionsImplementGate` (`Spec => ImplementsGate`), for any number of
  handlers and Redis instances. The invariant says what every value that could
  still admit somebody knows: a snapshot in Redis, a deadline captured by a
  handler, a row read before the revocation all end at most TTL after it, and
  an answer "admit" belongs to a request that began before that end. It rests
  on one idea of the code, the deadline captured *before* the row is read.
  `SealFinal` (`Spec => SealedIsFinal`) is about one shared Redis. Its invariant
  (`SealInvariant`) says that from the tombstone on Redis shows no active
  snapshot, and keeps a deny state until the last snapshot from before the
  revocation is overdue (`Sealed`): the deny state is given at least as long as
  the deadline of such a snapshot still lasts (`DenySeals`), a fill in time is
  refused by it and a fill after it is overdue (`SealRefusesFill`). A request
  that begins afterwards then finds neither a snapshot nor a row and stays
  among the calls in `Fruitless`.
* `D2SDeviceLoginProofs`: `DeviceTypeCorrect`, `ClaimsAreExclusive` (inductive
  with the type invariant; it says who may hold a code in each state of an
  exchange), its consequences `CodesDeliverOnce` and `RefusalIsFinal`, and
  `LogoutCompletes`, which needs that a request or an exchange in hand never
  has a version above the account's and that a completed logout lies
  below it (`VersionsGrow`).
* `WebAuthSessionProofs`: `WebTypeCorrect`, `SignedOutIsFinal`,
  `NoReuseAmongTabs` and `SignOutsSpareOthers`, from `WebInvariant`, for any
  number of tabs and sessions. `EndInv`: every sign-out under way, also of an
  unloaded page, names a session that was asked to end, and the server revokes
  only the one named. `RunInv`: a refresh that is still current was asked
  under the session its tab shows, and the server grants only what was
  expected. `OutInv`: a session a tab signed out of is revoked and in no answer
  the tab will still act on (this is what `authEpoch` is for). `LockInv`: with
  Web Locks only the holder has a refresh under way. `CookieInv`: the secret of
  a session none of whose refreshes was cut off is in one place only, the
  cookie or the answer about to replace it, and is current there; hence none is
  taken for reuse. `NextMoves` sorts the many actions into the few moves these
  parts care about.

Every invariant, action property and refinement that a passing run checks is
the statement of a theorem. Only model-checked are the liveness properties
(`ExpiredOrdersEnd`, `ClaimsEnd`, `PaidSettles`, `OpenedOrdersEnd`,
`WaitsEnd`): they rest on fairness, hence on `ENABLED`, which these provers do
not reason about. The three runs of "What the code does not keep" end in
counterexamples.

## 5. Not modelled

See `components` in `PROJECT.json`: the other payment adapters (signatures,
request building), signing keys, administrator accounts, export approvals,
batch operations, support tickets, reports, logs and the upstream gateway. In
`D2SDeviceLogin`, sessions of password logins and the purchase block; in
`UserSessions`, the snapshot of the user and the limits on the number of
sessions. Interleavings inside a transaction, but for the region change.

Why these wait: an export approval is decided and used up by one conditional
`UPDATE` each (`WHERE status = ...`, checked by its number of rows), so a model of
it alone would restate that condition; what is worth a model there is the export
itself, which pages through the logs while rows are added and pruned, together
with the administrators' accounts and lockout (plan, 2 and 3). The batch
operations repeat the emergency operation of `D2SDeviceLogin` per account.

**The pages of the web frontend.** By lines, most of the repository is the
frontend (`web/src`, about 217 000 lines of TypeScript): forms, tables, dialogs,
charts, translations and generated routes, nearly all of them upstream's. Such
a component renders the answer of one request and sends another; its state is
the text in its fields, nothing in it runs concurrently with anything but its
own request, and what its requests do is decided by the server. A model of it
would repeat its layout. The frontend's concurrent parts are few: the login
session (`WebAuthSession`) is the one everything else rests on. The share of
lines the models cover is therefore small, and meant to be: it is high in the
files that hold the protocols (`model/d2s_licensing.go`, `model/d2s_billing.go`,
`model/user_session.go`, `web/src/lib/auth-session*.ts`: 70 to 87 %).

## 6. Running

    tlc -workers 2 -config MCBinding.cfg MCD2SLicensing
    tlapm D2SLicensingProofs.tla

`runs` in `PROJECT.json` names the module of each configuration. `mutants`
names, for every property, an operator beside the definition it stands in for
that breaks it the way a plausible bug would.

## 7. Plan

Done: `D2SLicensing`, `D2SBilling`, `D2SDeviceLogin`, `D2SAlipay`,
`UserSessions`, `WebAuthSession`, their runs and proofs.

1. Proofs: the safety properties are done. Left are the steps under the
   liveness properties that need no fairness: a step that leaves a pending order
   or a claim where it is keeps what its sweep waits for (the safety half of a
   leads-to argument), for `ExpiredOrdersEnd`, `ClaimsEnd` and `PaidSettles`.
2. `D2SExportApproval` (`model/d2s_admin_export_approval.go`): two
   administrators, single use, expiry.
3. `D2SAdminAccounts` (`model/d2s_admin_accounts.go`): lockout counters,
   administrator sessions, and the batch emergency operations.
