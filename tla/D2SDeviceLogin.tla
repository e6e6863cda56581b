--------------------------- MODULE D2SDeviceLogin ---------------------------
(***************************************************************************)
(* Signing a desktop launcher in with a device code, while administrators  *)
(* use the emergency control of the account.                               *)
(*                                                                         *)
(* The launcher creates a code, the owner approves it in the browser, the  *)
(* launcher polls until it can exchange the code for a login session.  An  *)
(* exchange (ExchangeD2SDeviceCode) is not one transaction: it claims the  *)
(* code, reads the account's login block, opens a session and finishes the *)
(* claim, and other requests, administrators, the hourly sweep, failures   *)
(* and crashes come between those steps.                                   *)
(*                                                                         *)
(* An emergency request (D2SAdminSetEmergencyControl) reads the control    *)
(* row, writes it back changed, and for a forced logout revokes the        *)
(* account's sessions and then raises its auth version.                    *)
(*                                                                         *)
(* Users are accounts with a verified address.  The trial that             *)
(* ApproveD2SDeviceCode creates first, in a transaction of its own, is     *)
(* EnsureProfileAndTrial of D2SLicensing.  Sessions are numbered by the    *)
(* exchange that opens them; sessions of password logins, and refreshing,  *)
(* are not modelled.                                                       *)
(***************************************************************************)
EXTENDS Naturals, FiniteSets

CONSTANTS
  Users,        \* accounts
  Codes,        \* device codes that may be created (their ids are never reused)
  Exchanges,    \* token requests of launchers, repeated polls included
  Requests,     \* emergency requests of administrators
  None,         \* no account, no code: the user_id of a code nobody approved
  CodeTTL,      \* life of a device code (600 seconds)
  MaxTime,      \* bound of the clock
  MaxAuth       \* bound on auth versions

ASSUME DeviceAssumption ==
  /\ CodeTTL \in Nat \ {0}
  /\ MaxTime \in Nat
  /\ MaxAuth \in Nat \ {0}
  /\ None \notin Users \cup Codes

VARIABLES
  now,       \* the clock
  code,      \* d2s_device_codes
  exchange,  \* where each token request is, and the row it has in hand
  session,   \* the user_sessions row each exchange opened
  blocked,   \* login_blocked of d2s_user_security_controls
  auth,      \* auth_version of the users
  request,   \* where each emergency request is, and the row it has in hand
  loggedOut  \* per account, the auth version its last completed forced logout found

vars == <<now, code, exchange, session, blocked, auth, request, loggedOut>>

CodeStatus == {"absent", "pending", "approved", "claiming", "consumed",
               "canceled", "deleted"}

InFlight == {"claimed", "allowed", "blocked", "opening", "opened", "retry", "undo"}

Ended == {"delivered", "refused", "failed"}

LoginChange == {"block", "unblock", "keep"}

CodeRow == [status : CodeStatus, user : Users \cup {None}, expires : Nat]

ExchangeRow == [at : {"idle"} \cup InFlight \cup Ended, code : Codes \cup {None},
                user : Users \cup {None}, ver : Nat]

SessionRow == [status : {"none", "active", "revoked"}, user : Users \cup {None}, ver : Nat]

ControlRequest == [at : {"idle", "write", "revoke", "bump", "done"},
                   user : Users \cup {None}, login : LoginChange,
                   row : BOOLEAN, force : BOOLEAN, ver : Nat]

DeviceInit ==
  /\ now = 0
  /\ code = [c \in Codes |-> [status |-> "absent", user |-> None, expires |-> 0]]
  /\ exchange = [e \in Exchanges |->
       [at |-> "idle", code |-> None, user |-> None, ver |-> 0]]
  /\ session = [e \in Exchanges |-> [status |-> "none", user |-> None, ver |-> 0]]
  /\ blocked = [u \in Users |-> FALSE]
  /\ auth = [u \in Users |-> 1]
  /\ request = [r \in Requests |->
       [at |-> "idle", user |-> None, login |-> "keep", row |-> FALSE,
        force |-> FALSE, ver |-> 0]]
  /\ loggedOut = [u \in Users |-> 0]

-----------------------------------------------------------------------------
(* The code's life outside an exchange.                                    *)

CreateCode(c) ==
  /\ code[c].status = "absent"
  /\ now + CodeTTL <= MaxTime
  /\ code' = [code EXCEPT ![c] =
       [status |-> "pending", user |-> None, expires |-> now + CodeTTL]]
  /\ UNCHANGED <<now, exchange, session, blocked, auth, request, loggedOut>>

Unexpired(c) ==
  /\ code[c].status \notin {"absent", "deleted"}
  /\ now < code[c].expires

(* MUTANT of ApproveCode: the status of the code is not tested.            *)
ApproveAnyCode(u, c) ==
  /\ Unexpired(c)
  /\ code' = [code EXCEPT ![c].status = "approved", ![c].user = u]
  /\ UNCHANGED <<now, exchange, session, blocked, auth, request, loggedOut>>

ApproveCode(u, c) ==
  /\ Unexpired(c)
  /\ code[c].status = "pending"
  /\ code' = [code EXCEPT ![c].status = "approved", ![c].user = u]
  /\ UNCHANGED <<now, exchange, session, blocked, auth, request, loggedOut>>

CancelCode(c) ==
  /\ Unexpired(c)
  /\ code[c].status = "pending"
  /\ code' = [code EXCEPT ![c].status = "canceled"]
  /\ UNCHANGED <<now, exchange, session, blocked, auth, request, loggedOut>>

(* MUTANT of DeleteExpiredCodes: a code being claimed is left to its exchange. *)
DeleteUnclaimedCodes ==
  LET gone == {c \in Codes : /\ code[c].status \notin {"absent", "deleted", "claiming"}
                             /\ code[c].expires <= now}
  IN  /\ gone # {}
      /\ code' = [c \in Codes |->
           IF c \in gone THEN [code[c] EXCEPT !.status = "deleted"] ELSE code[c]]
      /\ UNCHANGED <<now, exchange, session, blocked, auth, request, loggedOut>>

(* The hourly sweep deletes every expired row, whatever its status.        *)
DeleteExpiredCodes ==
  LET gone == {c \in Codes : /\ code[c].status \notin {"absent", "deleted"}
                             /\ code[c].expires <= now}
  IN  /\ gone # {}
      /\ code' = [c \in Codes |->
           IF c \in gone THEN [code[c] EXCEPT !.status = "deleted"] ELSE code[c]]
      /\ UNCHANGED <<now, exchange, session, blocked, auth, request, loggedOut>>

-----------------------------------------------------------------------------
(* The steps of one exchange.                                              *)

GoTo(e, at) == exchange' = [exchange EXCEPT ![e].at = at]

(* MUTANT of ClaimCode: a claim in progress does not keep others out.      *)
ClaimAgain(e, c) ==
  /\ exchange[e].at = "idle"
  /\ Unexpired(c)
  /\ code[c].status \in {"approved", "claiming"}
  /\ code' = [code EXCEPT ![c].status = "claiming"]
  /\ exchange' = [exchange EXCEPT ![e] =
       [at |-> "claimed", code |-> c, user |-> code[c].user, ver |-> 0]]
  /\ UNCHANGED <<now, session, blocked, auth, request, loggedOut>>

(* A request whose code is pending, consumed, canceled, being claimed or   *)
(* gone is answered with an error and changes nothing.                     *)
ClaimCode(e, c) ==
  /\ exchange[e].at = "idle"
  /\ Unexpired(c)
  /\ code[c].status = "approved"
  /\ code' = [code EXCEPT ![c].status = "claiming"]
  /\ exchange' = [exchange EXCEPT ![e] =
       [at |-> "claimed", code |-> c, user |-> code[c].user, ver |-> 0]]
  /\ UNCHANGED <<now, session, blocked, auth, request, loggedOut>>

(* The read may also fail, and then the claim is given back.               *)
ReadLoginBlock(e) ==
  /\ exchange[e].at = "claimed"
  /\ \/ GoTo(e, IF blocked[exchange[e].user] THEN "blocked" ELSE "allowed")
     \/ GoTo(e, "retry")
  /\ UNCHANGED <<now, code, session, blocked, auth, request, loggedOut>>

(* CreateLoginSession first reads the user with the auth version; a user   *)
(* at a session limit, or a failing read, gives the claim back.            *)
ReadUser(e) ==
  /\ exchange[e].at = "allowed"
  /\ \/ exchange' = [exchange EXCEPT ![e].at = "opening",
                                     ![e].ver = auth[exchange[e].user]]
     \/ GoTo(e, "retry")
  /\ UNCHANGED <<now, code, session, blocked, auth, request, loggedOut>>

(* The session is inserted and its tokens are issued.  The insert may      *)
(* fail; when issuing fails the session is revoked again, unless that      *)
(* fails too.                                                              *)
OpenSession(e) ==
  LET row(status) == [session EXCEPT ![e] =
        [status |-> status, user |-> exchange[e].user, ver |-> exchange[e].ver]]
  IN  /\ exchange[e].at = "opening"
      /\ \/ session' = row("active") /\ GoTo(e, "opened")
         \/ session' \in {session, row("revoked"), row("active")} /\ GoTo(e, "retry")
      /\ UNCHANGED <<now, code, blocked, auth, request, loggedOut>>

(* FinishD2SDeviceCodeClaim updates the row only while it is claiming; no  *)
(* row at all, because the sweep came first, is not an error.              *)
FinishClaim(c, status) ==
  code' = IF code[c].status = "claiming"
          THEN [code EXCEPT ![c].status = status] ELSE code

Deliver(e) ==
  /\ exchange[e].at = "opened"
  /\ \/ FinishClaim(exchange[e].code, "consumed") /\ GoTo(e, "delivered")
     \/ UNCHANGED code /\ GoTo(e, "undo")
  /\ UNCHANGED <<now, session, blocked, auth, request, loggedOut>>

(* The claim could not be finished: the session is revoked, best effort.   *)
RevokeOpened(e) ==
  /\ exchange[e].at = "undo"
  /\ \/ session' = [session EXCEPT ![e].status = "revoked"]
     \/ UNCHANGED session
  /\ GoTo(e, "failed")
  /\ UNCHANGED <<now, code, blocked, auth, request, loggedOut>>

(* MUTANT of RefuseBlocked: the code of a blocked account is given back.   *)
RefuseKeepsCode(e) ==
  /\ exchange[e].at = "blocked"
  /\ FinishClaim(exchange[e].code, "approved") \/ UNCHANGED code
  /\ GoTo(e, "refused")
  /\ UNCHANGED <<now, session, blocked, auth, request, loggedOut>>

(* A blocked account's code is consumed without a session.                 *)
RefuseBlocked(e) ==
  /\ exchange[e].at = "blocked"
  /\ FinishClaim(exchange[e].code, "consumed") \/ UNCHANGED code
  /\ GoTo(e, "refused")
  /\ UNCHANGED <<now, session, blocked, auth, request, loggedOut>>

GiveBack(e) ==
  /\ exchange[e].at = "retry"
  /\ FinishClaim(exchange[e].code, "approved") \/ UNCHANGED code
  /\ GoTo(e, "failed")
  /\ UNCHANGED <<now, session, blocked, auth, request, loggedOut>>

(* The server stops in the middle of an exchange.                          *)
Crash(e) ==
  /\ exchange[e].at \in InFlight
  /\ GoTo(e, "failed")
  /\ UNCHANGED <<now, code, session, blocked, auth, request, loggedOut>>

-----------------------------------------------------------------------------
(* The steps of one emergency request.  "keep" with no forced logout is a  *)
(* request about purchases only; the row written back holds the login      *)
(* block as it was read.                                                   *)

ReadControl(r, u, login, force) ==
  /\ request[r].at = "idle"
  /\ request' = [request EXCEPT ![r] =
       [at |-> "write", user |-> u, login |-> login,
        row |-> IF login = "keep" THEN blocked[u] ELSE login = "block",
        force |-> force, ver |-> auth[u]]]
  /\ UNCHANGED <<now, code, exchange, session, blocked, auth, loggedOut>>

(* The row and its audit are one transaction, which may fail.              *)
WriteControl(r) ==
  /\ request[r].at = "write"
  /\ \/ /\ blocked' = [blocked EXCEPT ![request[r].user] = request[r].row]
        /\ request' = [request EXCEPT ![r].at =
             IF request[r].force THEN "revoke" ELSE "done"]
     \/ /\ request' = [request EXCEPT ![r].at = "done"]
        /\ UNCHANGED blocked
  /\ UNCHANGED <<now, code, exchange, session, auth, loggedOut>>

(* Sessions are revoked in batches until none is left; a failing batch     *)
(* ends the request with the earlier batches revoked.                      *)
RevokeSessions(r) ==
  LET live == {e \in Exchanges : /\ session[e].status = "active"
                                 /\ session[e].user = request[r].user}
      Revoke(S) == session' = [e \in Exchanges |->
        IF e \in S THEN [session[e] EXCEPT !.status = "revoked"] ELSE session[e]]
  IN  /\ request[r].at = "revoke"
      /\ \/ Revoke(live) /\ request' = [request EXCEPT ![r].at = "bump"]
         \/ /\ \E some \in SUBSET live : Revoke(some)
            /\ request' = [request EXCEPT ![r].at = "done"]
      /\ UNCHANGED <<now, code, exchange, blocked, auth, loggedOut>>

(* The logout is reported as a SUCCESS.                                    *)
Complete(r) ==
  LET u == request[r].user IN
  /\ request' = [request EXCEPT ![r].at = "done"]
  /\ loggedOut' = [loggedOut EXCEPT ![u] =
       IF request[r].ver > @ THEN request[r].ver ELSE @]

(* MUTANT of BumpAuthVersion: revoking the sessions is taken to be enough. *)
SkipBump(r) ==
  /\ request[r].at = "bump"
  /\ Complete(r)
  /\ UNCHANGED <<now, code, exchange, session, blocked, auth>>

(* The auth version is raised and, with the leases released, the logout    *)
(* has succeeded; the raise itself, or a step after it, may fail.          *)
BumpAuthVersion(r) ==
  LET u == request[r].user
      raised == [auth EXCEPT ![u] = @ + 1] IN
  /\ request[r].at = "bump"
  /\ auth[u] < MaxAuth
  /\ \/ auth' = raised /\ Complete(r)
     \/ /\ auth' \in {auth, raised}
        /\ request' = [request EXCEPT ![r].at = "done"]
        /\ UNCHANGED loggedOut
  /\ UNCHANGED <<now, code, exchange, session, blocked>>

Tick ==
  /\ now < MaxTime
  /\ now' = now + 1
  /\ UNCHANGED <<code, exchange, session, blocked, auth, request, loggedOut>>

ExchangeStep(e) ==
  \/ ReadLoginBlock(e) \/ ReadUser(e) \/ OpenSession(e) \/ Deliver(e)
  \/ RevokeOpened(e) \/ RefuseBlocked(e) \/ GiveBack(e) \/ Crash(e)

RequestStep(r) == WriteControl(r) \/ RevokeSessions(r) \/ BumpAuthVersion(r)

DeviceNext ==
  \/ \E c \in Codes : CreateCode(c) \/ CancelCode(c)
  \/ \E u \in Users, c \in Codes : ApproveCode(u, c)
  \/ \E e \in Exchanges, c \in Codes : ClaimCode(e, c)
  \/ \E e \in Exchanges : ExchangeStep(e)
  \/ \E r \in Requests, u \in Users, login \in LoginChange, force \in BOOLEAN :
       ReadControl(r, u, login, force)
  \/ \E r \in Requests : RequestStep(r)
  \/ DeleteExpiredCodes
  \/ Tick

DeviceSpec == DeviceInit /\ [][DeviceNext]_vars

(* Time passes and the sweep runs every hour; nothing is assumed of        *)
(* launchers, administrators or servers.                                   *)
FairDeviceSpec == DeviceSpec /\ WF_vars(Tick) /\ WF_vars(DeleteExpiredCodes)

-----------------------------------------------------------------------------
(* Properties.                                                             *)

ApprovedHaveUsers ==
  \A c \in Codes :
    code[c].status \in {"approved", "claiming", "consumed"} => code[c].user \in Users

ClaimsHaveUsers ==
  \A e \in Exchanges :
    exchange[e].at # "idle" => exchange[e].user \in Users /\ exchange[e].code \in Codes

RequestsHaveUsers ==
  \A r \in Requests : request[r].at # "idle" => request[r].user \in Users

(* Type invariant: every table, and every request's copy of a row, keeps   *)
(* its shape (the columns of D2SDeviceCode, UserSession and                *)
(* D2SUserSecurityControl the code reads), and what was approved, claimed  *)
(* or requested is about an account.                                       *)
DeviceTypeOK ==
  /\ now \in Nat
  /\ code \in [Codes -> CodeRow] /\ ApprovedHaveUsers
  /\ exchange \in [Exchanges -> ExchangeRow] /\ ClaimsHaveUsers
  /\ session \in [Exchanges -> SessionRow]
  /\ blocked \in [Users -> BOOLEAN]
  /\ auth \in [Users -> Nat]
  /\ request \in [Requests -> ControlRequest] /\ RequestsHaveUsers
  /\ loggedOut \in [Users -> Nat]

(* A code is exchanged for credentials at most once, however many polls    *)
(* race for it and whichever of them fail or crash half way                *)
(* (ClaimD2SDeviceCode, FinishD2SDeviceCodeClaim).                         *)
DeliveredOnce ==
  \A e1, e2 \in Exchanges :
    exchange[e1].at = "delivered" /\ exchange[e2].at = "delivered" /\ e1 # e2
      => exchange[e1].code # exchange[e2].code

(* A code that was refused because its account was blocked brings nobody   *)
(* in later, not even after the block is lifted (ExchangeD2SDeviceCode     *)
(* consumes it).                                                           *)
RefusedForGood ==
  \A e1, e2 \in Exchanges :
    exchange[e1].at = "refused" /\ exchange[e1].code = exchange[e2].code /\ e1 # e2
      => exchange[e2].at \notin {"opened", "delivered"}

(* While an exchange is under way the code stays claimed by it alone, or   *)
(* was swept from under it; a settled code is never approved again         *)
(* (ClaimD2SDeviceCode).                                                   *)
ClaimExclusive ==
  \A e \in Exchanges :
    LET c == exchange[e].code IN
    /\ exchange[e].at \in InFlight =>
         /\ code[c].status \in {"claiming", "deleted"}
         /\ \A f \in Exchanges \ {e} :
              exchange[f].at \in InFlight => exchange[f].code # c
    /\ exchange[e].at \in {"delivered", "refused"} =>
         /\ code[c].status \in {"claiming", "consumed", "deleted"}
         /\ \A f \in Exchanges \ {e} :
              exchange[f].at \in InFlight \cup {"delivered", "refused"}
                => exchange[f].code # c

Usable(e) ==
  session[e].status = "active" /\ session[e].ver = auth[session[e].user]

(* Once a forced logout is reported as done, no session opened under the   *)
(* auth version the administrator found is usable any more, not even one   *)
(* whose insert was under way while the others were being revoked          *)
(* (D2SAdminSetEmergencyControl, ValidateLoginSession).                    *)
LogoutIsComplete ==
  \A e \in Exchanges :
    Usable(e) => session[e].ver > loggedOut[session[e].user]

(* A claim does not stay on a code for ever, even when the exchange that   *)
(* made it died: the sweep removes the row (DeleteExpiredD2SRuntimeArtifacts). *)
ClaimsEnd ==
  \A c \in Codes : (code[c].status = "claiming") ~> (code[c].status # "claiming")

(* What the security policy says: a restriction is lifted by an unlock     *)
(* request.  The control row is read, changed and written back by the      *)
(* handler without a lock.                                                 *)
LiftedByUnlock ==
  [][\A u \in Users : blocked[u] /\ ~blocked'[u] =>
       \E r \in Requests : /\ request[r].at = "write" /\ request'[r].at # "write"
                           /\ request[r].user = u /\ request[r].login = "unblock"]_vars
=============================================================================
