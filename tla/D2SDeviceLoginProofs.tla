------------------------ MODULE D2SDeviceLoginProofs ------------------------
(***************************************************************************)
(* What holds of device logins for any number of accounts, codes, token    *)
(* requests and emergency requests.  ClaimExclusive is inductive together  *)
(* with the type invariant; DeliveredOnce and RefusedForGood follow from   *)
(* it, LogoutIsComplete from VersionsGrow.                                 *)
(***************************************************************************)
EXTENDS D2SDeviceLogin, TLAPS

(* The tables are empty and no request is under way at the start.          *)
LEMMA InitDeviceTypeOK == DeviceInit => DeviceTypeOK
BY DeviceAssumption
   DEF DeviceInit, DeviceTypeOK, CodeStatus, LoginChange, CodeRow, ExchangeRow, SessionRow,
       ControlRequest, ApprovedHaveUsers, ClaimsHaveUsers, RequestsHaveUsers

(* An exchange moves on with the row it has in hand.                       *)
LEMMA GoToType ==
  ASSUME DeviceTypeOK, NEW e \in Exchanges, NEW at \in InFlight \cup Ended,
         exchange[e].at # "idle", GoTo(e, at)
  PROVE  exchange' \in [Exchanges -> ExchangeRow] /\ ClaimsHaveUsers'
<1>1. [exchange[e] EXCEPT !.at = at] \in ExchangeRow
  BY DEF DeviceTypeOK, ExchangeRow
<1>2. exchange' = [exchange EXCEPT ![e] = [exchange[e] EXCEPT !.at = at]]
  BY DEF GoTo
<1>3. exchange' \in [Exchanges -> ExchangeRow]
  BY <1>1, <1>2 DEF DeviceTypeOK
<1>4. ClaimsHaveUsers'
  BY <1>2 DEF DeviceTypeOK, ClaimsHaveUsers, ExchangeRow
<1> QED
  BY <1>3, <1>4

(* Setting the status of a code keeps the table's shape.                   *)
LEMMA CodeType ==
  ASSUME DeviceTypeOK, NEW c \in Codes, NEW status \in CodeStatus,
         status \in {"approved", "claiming", "consumed"} => code[c].user \in Users,
         code' = [code EXCEPT ![c].status = status]
  PROVE  code' \in [Codes -> CodeRow] /\ ApprovedHaveUsers'
<1>1. [code[c] EXCEPT !.status = status] \in CodeRow
  BY DEF DeviceTypeOK, CodeRow
<1>2. code' = [code EXCEPT ![c] = [code[c] EXCEPT !.status = status]]
  OBVIOUS
<1>3. code' \in [Codes -> CodeRow]
  BY <1>1, <1>2 DEF DeviceTypeOK
<1>4. ApprovedHaveUsers'
  BY <1>2 DEF DeviceTypeOK, ApprovedHaveUsers, CodeRow
<1> QED
  BY <1>3, <1>4

(* Finishing a claim keeps the table's shape.                              *)
LEMMA FinishType ==
  ASSUME DeviceTypeOK, NEW c \in Codes, NEW status \in {"approved", "consumed"},
         FinishClaim(c, status) \/ UNCHANGED code
  PROVE  code' \in [Codes -> CodeRow] /\ ApprovedHaveUsers'
<1>1. CASE code' = code
  BY <1>1 DEF DeviceTypeOK, ApprovedHaveUsers
<1>2. CASE code[c].status = "claiming" /\ code' = [code EXCEPT ![c].status = status]
  <2>1. code[c].user \in Users /\ status \in CodeStatus
    BY <1>2 DEF DeviceTypeOK, ApprovedHaveUsers, CodeStatus
  <2> QED
    BY <1>2, <2>1, CodeType
<1> QED
  BY <1>1, <1>2 DEF FinishClaim

(* An emergency request moves on with the row it has in hand.              *)
LEMMA RequestType ==
  ASSUME DeviceTypeOK, NEW r \in Requests, NEW at \in {"revoke", "bump", "done"},
         request[r].at # "idle", request' = [request EXCEPT ![r].at = at]
  PROVE  request' \in [Requests -> ControlRequest] /\ RequestsHaveUsers'
<1>1. [request[r] EXCEPT !.at = at] \in ControlRequest
  BY DEF DeviceTypeOK, ControlRequest
<1>2. request' = [request EXCEPT ![r] = [request[r] EXCEPT !.at = at]]
  OBVIOUS
<1>3. request' \in [Requests -> ControlRequest]
  BY <1>1, <1>2 DEF DeviceTypeOK
<1>4. RequestsHaveUsers'
  BY <1>2 DEF DeviceTypeOK, RequestsHaveUsers, ControlRequest
<1> QED
  BY <1>3, <1>4

(* Every step of the handlers keeps the shape of the tables.               *)
LEMMA NextDeviceTypeOK == DeviceTypeOK /\ [DeviceNext]_vars => DeviceTypeOK'
<1> SUFFICES ASSUME DeviceTypeOK, [DeviceNext]_vars PROVE DeviceTypeOK'
  OBVIOUS
<1> USE DeviceAssumption
<1>1. ASSUME NEW c \in Codes, CreateCode(c) PROVE DeviceTypeOK'
  <2>1. [status |-> "pending", user |-> None, expires |-> now + CodeTTL] \in CodeRow
    BY DEF DeviceTypeOK, CodeRow, CodeStatus
  <2>2. code' \in [Codes -> CodeRow]
    BY <1>1, <2>1 DEF DeviceTypeOK, CreateCode
  <2>3. ApprovedHaveUsers'
    BY <1>1 DEF DeviceTypeOK, CreateCode, ApprovedHaveUsers, CodeRow
  <2> QED
    BY <1>1, <2>2, <2>3 DEF DeviceTypeOK, CreateCode, ClaimsHaveUsers, RequestsHaveUsers
<1>2. ASSUME NEW c \in Codes, CancelCode(c) PROVE DeviceTypeOK'
  <2>1. code' \in [Codes -> CodeRow] /\ ApprovedHaveUsers'
    BY <1>2, CodeType DEF CancelCode, CodeStatus
  <2> QED
    BY <1>2, <2>1 DEF DeviceTypeOK, CancelCode, ClaimsHaveUsers, RequestsHaveUsers
<1>3. ASSUME NEW u \in Users, NEW c \in Codes, ApproveCode(u, c) PROVE DeviceTypeOK'
  <2>1. [code[c] EXCEPT !.status = "approved", !.user = u] \in CodeRow
    BY DEF DeviceTypeOK, CodeRow, CodeStatus
  <2>2. code' = [code EXCEPT ![c] = [code[c] EXCEPT !.status = "approved", !.user = u]]
    BY <1>3 DEF ApproveCode
  <2>3. code' \in [Codes -> CodeRow]
    BY <2>1, <2>2 DEF DeviceTypeOK
  <2>4. ApprovedHaveUsers'
    BY <2>2 DEF DeviceTypeOK, ApprovedHaveUsers, CodeRow
  <2> QED
    BY <1>3, <2>3, <2>4 DEF DeviceTypeOK, ApproveCode, ClaimsHaveUsers, RequestsHaveUsers
<1>4. ASSUME NEW e \in Exchanges, NEW c \in Codes, ClaimCode(e, c) PROVE DeviceTypeOK'
  <2>1. code[c].user \in Users
    BY <1>4 DEF DeviceTypeOK, ApprovedHaveUsers, ClaimCode
  <2>2. [at |-> "claimed", code |-> c, user |-> code[c].user, ver |-> 0] \in ExchangeRow
    BY <2>1 DEF ExchangeRow, InFlight
  <2>3. exchange' \in [Exchanges -> ExchangeRow]
    BY <1>4, <2>2 DEF DeviceTypeOK, ClaimCode
  <2>4. ClaimsHaveUsers'
    BY <1>4, <2>1 DEF DeviceTypeOK, ClaimCode, ClaimsHaveUsers
  <2>5. code' \in [Codes -> CodeRow] /\ ApprovedHaveUsers'
    BY <1>4, <2>1, CodeType DEF ClaimCode, CodeStatus
  <2> QED
    BY <1>4, <2>3, <2>4, <2>5 DEF DeviceTypeOK, ClaimCode, RequestsHaveUsers
<1>5. ASSUME NEW e \in Exchanges, ReadLoginBlock(e) PROVE DeviceTypeOK'
  <2>1. \E at \in InFlight : GoTo(e, at)
    BY <1>5 DEF ReadLoginBlock, InFlight
  <2>2. exchange' \in [Exchanges -> ExchangeRow] /\ ClaimsHaveUsers'
    BY <1>5, <2>1, GoToType DEF ReadLoginBlock
  <2> QED
    BY <1>5, <2>2 DEF DeviceTypeOK, ReadLoginBlock, ApprovedHaveUsers, RequestsHaveUsers
<1>6. ASSUME NEW e \in Exchanges, ReadUser(e) PROVE DeviceTypeOK'
  <2>1. exchange' \in [Exchanges -> ExchangeRow] /\ ClaimsHaveUsers'
    <3>1. CASE GoTo(e, "retry")
      BY <1>6, <3>1, GoToType DEF ReadUser, InFlight
    <3>2. CASE exchange' = [exchange EXCEPT ![e].at = "opening",
                                            ![e].ver = auth[exchange[e].user]]
      <4> DEFINE row == [exchange[e] EXCEPT !.at = "opening", !.ver = auth[exchange[e].user]]
      <4>1. auth[exchange[e].user] \in Nat /\ exchange[e] \in ExchangeRow
        BY <1>6 DEF DeviceTypeOK, ClaimsHaveUsers, ReadUser
      <4>2. row \in ExchangeRow
        BY <4>1 DEF ExchangeRow, InFlight
      <4>3. exchange' = [exchange EXCEPT ![e] = row]
        BY <3>2
      <4>4. row.user = exchange[e].user /\ row.code = exchange[e].code
        BY <4>1 DEF ExchangeRow
      <4> HIDE DEF row
      <4>5. exchange' \in [Exchanges -> ExchangeRow]
        BY <4>2, <4>3 DEF DeviceTypeOK
      <4>6. ClaimsHaveUsers'
        BY <1>6, <4>3, <4>4 DEF DeviceTypeOK, ClaimsHaveUsers, ReadUser
      <4> QED
        BY <4>5, <4>6
    <3> QED
      BY <1>6, <3>1, <3>2 DEF ReadUser
  <2> QED
    BY <1>6, <2>1 DEF DeviceTypeOK, ReadUser, ApprovedHaveUsers, RequestsHaveUsers
<1>7. ASSUME NEW e \in Exchanges, OpenSession(e) PROVE DeviceTypeOK'
  <2>1. \E at \in InFlight : GoTo(e, at)
    BY <1>7 DEF OpenSession, InFlight
  <2>2. exchange' \in [Exchanges -> ExchangeRow] /\ ClaimsHaveUsers'
    BY <1>7, <2>1, GoToType DEF OpenSession
  <2>3. \A status \in {"active", "revoked"} :
          [status |-> status, user |-> exchange[e].user, ver |-> exchange[e].ver] \in SessionRow
    BY DEF DeviceTypeOK, ExchangeRow, SessionRow
  <2>4. session' \in [Exchanges -> SessionRow]
    BY <1>7, <2>3 DEF DeviceTypeOK, OpenSession
  <2> QED
    BY <1>7, <2>2, <2>4 DEF DeviceTypeOK, OpenSession, ApprovedHaveUsers, RequestsHaveUsers
<1>8. ASSUME NEW e \in Exchanges, Deliver(e) \/ RefuseBlocked(e) \/ GiveBack(e) PROVE DeviceTypeOK'
  <2>1. exchange[e].code \in Codes /\ exchange[e].at # "idle"
    BY <1>8 DEF DeviceTypeOK, ClaimsHaveUsers, Deliver, RefuseBlocked, GiveBack
  <2>2. \E at \in InFlight \cup Ended : GoTo(e, at)
    BY <1>8 DEF Deliver, RefuseBlocked, GiveBack, InFlight, Ended
  <2>3. exchange' \in [Exchanges -> ExchangeRow] /\ ClaimsHaveUsers'
    BY <2>1, <2>2, GoToType
  <2>4. code' \in [Codes -> CodeRow] /\ ApprovedHaveUsers'
    BY <1>8, <2>1, FinishType DEF Deliver, RefuseBlocked, GiveBack
  <2> QED
    BY <1>8, <2>3, <2>4 DEF DeviceTypeOK, Deliver, RefuseBlocked, GiveBack, RequestsHaveUsers
<1>9. ASSUME NEW e \in Exchanges, RevokeOpened(e) PROVE DeviceTypeOK'
  <2>1. exchange' \in [Exchanges -> ExchangeRow] /\ ClaimsHaveUsers'
    BY <1>9, GoToType DEF RevokeOpened, Ended
  <2>2. [session[e] EXCEPT !.status = "revoked"] \in SessionRow
    BY DEF DeviceTypeOK, SessionRow
  <2>3. session' \in [Exchanges -> SessionRow]
    BY <1>9, <2>2 DEF DeviceTypeOK, RevokeOpened
  <2> QED
    BY <1>9, <2>1, <2>3 DEF DeviceTypeOK, RevokeOpened, ApprovedHaveUsers, RequestsHaveUsers
<1>10. ASSUME NEW e \in Exchanges, Crash(e) PROVE DeviceTypeOK'
  <2>1. exchange' \in [Exchanges -> ExchangeRow] /\ ClaimsHaveUsers'
    BY <1>10, GoToType DEF Crash, Ended, InFlight
  <2> QED
    BY <1>10, <2>1 DEF DeviceTypeOK, Crash, ApprovedHaveUsers, RequestsHaveUsers
<1>11. ASSUME NEW r \in Requests, NEW u \in Users, NEW login \in LoginChange,
              NEW force \in BOOLEAN, ReadControl(r, u, login, force)
       PROVE  DeviceTypeOK'
  <2> DEFINE set == IF login = "keep" THEN blocked[u] ELSE login = "block"
  <2>1. set \in BOOLEAN
    BY DEF DeviceTypeOK
  <2> HIDE DEF set
  <2> DEFINE row == [at |-> "write", user |-> u, login |-> login, row |-> set,
                     force |-> force, ver |-> auth[u]]
  <2>2. row \in ControlRequest
    BY <2>1 DEF DeviceTypeOK, ControlRequest
  <2>3. request' = [request EXCEPT ![r] = row]
    BY <1>11 DEF ReadControl, set
  <2>4. row.user = u
    OBVIOUS
  <2> HIDE DEF row
  <2>5. request' \in [Requests -> ControlRequest]
    BY <2>2, <2>3 DEF DeviceTypeOK
  <2>6. RequestsHaveUsers'
    BY <2>3, <2>4 DEF DeviceTypeOK, RequestsHaveUsers
  <2> QED
    BY <1>11, <2>5, <2>6 DEF DeviceTypeOK, ReadControl, ApprovedHaveUsers, ClaimsHaveUsers
<1>12. ASSUME NEW r \in Requests, WriteControl(r) PROVE DeviceTypeOK'
  <2>1. \E at \in {"revoke", "done"} : request' = [request EXCEPT ![r].at = at]
    BY <1>12 DEF WriteControl
  <2>2. request' \in [Requests -> ControlRequest] /\ RequestsHaveUsers'
    BY <1>12, <2>1, RequestType DEF WriteControl
  <2>3. request[r].row \in BOOLEAN
    BY DEF DeviceTypeOK, ControlRequest
  <2>4. blocked' \in [Users -> BOOLEAN]
    BY <1>12, <2>3 DEF DeviceTypeOK, WriteControl
  <2> QED
    BY <1>12, <2>2, <2>4 DEF DeviceTypeOK, WriteControl, ApprovedHaveUsers, ClaimsHaveUsers
<1>13. ASSUME NEW r \in Requests, RevokeSessions(r) PROVE DeviceTypeOK'
  <2>1. \E at \in {"bump", "done"} : request' = [request EXCEPT ![r].at = at]
    BY <1>13 DEF RevokeSessions
  <2>2. request' \in [Requests -> ControlRequest] /\ RequestsHaveUsers'
    BY <1>13, <2>1, RequestType DEF RevokeSessions
  <2>3. \A e \in Exchanges : [session[e] EXCEPT !.status = "revoked"] \in SessionRow
    BY DEF DeviceTypeOK, SessionRow
  <2>4. session' \in [Exchanges -> SessionRow]
    BY <1>13, <2>3 DEF DeviceTypeOK, RevokeSessions
  <2> QED
    BY <1>13, <2>2, <2>4 DEF DeviceTypeOK, RevokeSessions, ApprovedHaveUsers, ClaimsHaveUsers
<1>14. ASSUME NEW r \in Requests, BumpAuthVersion(r) PROVE DeviceTypeOK'
  <2>1. request' = [request EXCEPT ![r].at = "done"]
    BY <1>14 DEF BumpAuthVersion, Complete
  <2>2. request' \in [Requests -> ControlRequest] /\ RequestsHaveUsers'
    BY <1>14, <2>1, RequestType DEF BumpAuthVersion
  <2>3. auth' \in [Users -> Nat]
    BY <1>14 DEF DeviceTypeOK, BumpAuthVersion
  <2>4. request[r].ver \in Nat
    BY DEF DeviceTypeOK, ControlRequest
  <2>5. loggedOut' \in [Users -> Nat]
    BY <1>14, <2>4 DEF DeviceTypeOK, BumpAuthVersion, Complete
  <2> QED
    BY <1>14, <2>2, <2>3, <2>5
       DEF DeviceTypeOK, BumpAuthVersion, ApprovedHaveUsers, ClaimsHaveUsers
<1>15. CASE DeleteExpiredCodes
  <2>1. \A c \in Codes : [code[c] EXCEPT !.status = "deleted"] \in CodeRow
    BY DEF DeviceTypeOK, CodeRow, CodeStatus
  <2>2. code' \in [Codes -> CodeRow]
    BY <1>15, <2>1 DEF DeviceTypeOK, DeleteExpiredCodes
  <2>3. ApprovedHaveUsers'
    BY <1>15 DEF DeviceTypeOK, DeleteExpiredCodes, ApprovedHaveUsers, CodeRow
  <2> QED
    BY <1>15, <2>2, <2>3 DEF DeviceTypeOK, DeleteExpiredCodes, ClaimsHaveUsers, RequestsHaveUsers
<1>16. CASE Tick
  BY <1>16 DEF DeviceTypeOK, Tick, ApprovedHaveUsers, ClaimsHaveUsers, RequestsHaveUsers
<1>17. CASE UNCHANGED vars
  BY <1>17 DEF DeviceTypeOK, vars, ApprovedHaveUsers, ClaimsHaveUsers, RequestsHaveUsers
<1> QED
  BY <1>1, <1>2, <1>3, <1>4, <1>5, <1>6, <1>7, <1>8, <1>9, <1>10, <1>11, <1>12,
     <1>13, <1>14, <1>15, <1>16, <1>17
     DEF DeviceNext, ExchangeStep, RequestStep

(* The tables of the device login keep their shape (D2SDeviceCode,         *)
(* UserSession, D2SUserSecurityControl), for any number of everything.     *)
THEOREM DeviceTypeCorrect == DeviceSpec => []DeviceTypeOK
<1>1. DeviceInit => DeviceTypeOK
  BY InitDeviceTypeOK
<1>2. DeviceTypeOK /\ [DeviceNext]_vars => DeviceTypeOK'
  BY NextDeviceTypeOK
<1> QED
  BY <1>1, <1>2, PTL DEF DeviceSpec

-----------------------------------------------------------------------------
(* Moving one exchange on, from a step in flight and without touching the  *)
(* codes, keeps claims exclusive.                                          *)
LEMMA StepClaim ==
  ASSUME DeviceTypeOK, ClaimExclusive, NEW e \in Exchanges,
         exchange[e].at \in InFlight, UNCHANGED code,
         exchange'[e].code = exchange[e].code,
         exchange'[e].at \in InFlight \cup {"failed"},
         \A f \in Exchanges \ {e} : exchange'[f] = exchange[f]
  PROVE  ClaimExclusive'
BY DEF ClaimExclusive, InFlight

(* Ending an exchange, with its own code as the only one that changes.     *)
LEMMA EndClaim ==
  ASSUME DeviceTypeOK, ClaimExclusive, NEW e \in Exchanges,
         exchange[e].at \in InFlight, NEW at \in Ended, GoTo(e, at),
         \/ UNCHANGED code
         \/ FinishClaim(exchange[e].code, "consumed")
         \/ at = "failed" /\ FinishClaim(exchange[e].code, "approved")
  PROVE  ClaimExclusive'
<1> DEFINE c == exchange[e].code
<1>1. c \in Codes
  BY DEF DeviceTypeOK, ClaimsHaveUsers, InFlight
<1>2. /\ exchange'[e].code = c
      /\ exchange'[e].at = at
      /\ \A f \in Exchanges \ {e} : exchange'[f] = exchange[f]
  BY DEF DeviceTypeOK, GoTo, ExchangeRow
<1>3. \A d \in Codes \ {c} : code'[d].status = code[d].status
  BY DEF DeviceTypeOK, FinishClaim
<1>4. /\ code[c].status \in {"claiming", "deleted"}
      /\ \A f \in Exchanges \ {e} :
           exchange[f].at \in InFlight \cup {"delivered", "refused"} => exchange[f].code # c
  BY DEF ClaimExclusive
<1>5. at \in {"delivered", "refused"} => code'[c].status \in {"claiming", "consumed", "deleted"}
  BY <1>1, <1>4 DEF DeviceTypeOK, FinishClaim, CodeRow
<1>6. \A f \in Exchanges \ {e} :
        exchange[f].at \in InFlight \cup {"delivered", "refused"} =>
          exchange[f].code \in Codes \ {c}
  BY <1>4 DEF DeviceTypeOK, ClaimsHaveUsers, InFlight
<1> HIDE DEF c
<1>7. ASSUME NEW f \in Exchanges PROVE
        LET k == exchange'[f].code IN
        /\ exchange'[f].at \in InFlight =>
             /\ code'[k].status \in {"claiming", "deleted"}
             /\ \A g \in Exchanges \ {f} : exchange'[g].at \in InFlight => exchange'[g].code # k
        /\ exchange'[f].at \in {"delivered", "refused"} =>
             /\ code'[k].status \in {"claiming", "consumed", "deleted"}
             /\ \A g \in Exchanges \ {f} :
                  exchange'[g].at \in InFlight \cup {"delivered", "refused"}
                    => exchange'[g].code # k
  <2>1. CASE f = e
    BY <2>1, <1>2, <1>5, <1>6 DEF Ended, InFlight
  <2>2. CASE f # e
    BY <2>2, <1>2, <1>3, <1>4, <1>6 DEF Ended, InFlight, ClaimExclusive
  <2> QED
    BY <2>1, <2>2
<1> QED
  BY <1>7 DEF ClaimExclusive

(* Steps that leave the exchanges alone and only delete codes, or change   *)
(* codes nobody has claimed, keep claims exclusive.                        *)
LEMMA CodeClaim ==
  ASSUME DeviceTypeOK, ClaimExclusive, UNCHANGED exchange,
         \A c \in Codes : \/ code'[c].status = code[c].status
                          \/ code'[c].status = "deleted"
                          \/ code[c].status \in {"absent", "pending"}
  PROVE  ClaimExclusive'
BY DEF ClaimExclusive, DeviceTypeOK, ClaimsHaveUsers, InFlight

(* Every step of the handlers keeps claims exclusive.                      *)
LEMMA NextClaim == DeviceTypeOK /\ ClaimExclusive /\ [DeviceNext]_vars => ClaimExclusive'
<1> SUFFICES ASSUME DeviceTypeOK, ClaimExclusive, [DeviceNext]_vars PROVE ClaimExclusive'
  OBVIOUS
<1>1. ASSUME NEW c \in Codes, CreateCode(c) \/ CancelCode(c) PROVE ClaimExclusive'
  BY <1>1, CodeClaim DEF CreateCode, CancelCode, DeviceTypeOK
<1>2. ASSUME NEW u \in Users, NEW c \in Codes, ApproveCode(u, c) PROVE ClaimExclusive'
  BY <1>2, CodeClaim DEF ApproveCode, DeviceTypeOK
<1>3. ASSUME NEW e \in Exchanges, NEW c \in Codes, ClaimCode(e, c) PROVE ClaimExclusive'
  <2>1. /\ exchange'[e].code = c
        /\ exchange'[e].at = "claimed"
        /\ \A f \in Exchanges \ {e} : exchange'[f] = exchange[f]
    BY <1>3 DEF ClaimCode, DeviceTypeOK
  <2>2. /\ code[c].status = "approved"
        /\ code'[c].status = "claiming"
        /\ \A d \in Codes \ {c} : code'[d] = code[d]
    BY <1>3 DEF ClaimCode, DeviceTypeOK, CodeRow
  <2>3. \A f \in Exchanges \ {e} :
          exchange[f].at \in InFlight \cup {"delivered", "refused"} =>
            exchange[f].code \in Codes \ {c}
    BY <2>2 DEF ClaimExclusive, DeviceTypeOK, ClaimsHaveUsers, InFlight
  <2> QED
    BY <2>1, <2>2, <2>3 DEF ClaimExclusive, InFlight
<1>4. ASSUME NEW e \in Exchanges, ReadLoginBlock(e) \/ ReadUser(e) \/ OpenSession(e)
      PROVE  ClaimExclusive'
  <2>1. exchange[e].at \in InFlight /\ UNCHANGED code
    BY <1>4 DEF ReadLoginBlock, ReadUser, OpenSession, InFlight
  <2>2. /\ exchange'[e].code = exchange[e].code
        /\ exchange'[e].at \in InFlight
        /\ \A f \in Exchanges \ {e} : exchange'[f] = exchange[f]
    BY <1>4 DEF ReadLoginBlock, ReadUser, OpenSession, GoTo, InFlight, DeviceTypeOK, ExchangeRow
  <2> QED
    BY <2>1, <2>2, StepClaim
<1>5. ASSUME NEW e \in Exchanges,
             Deliver(e) \/ RevokeOpened(e) \/ RefuseBlocked(e) \/ GiveBack(e) \/ Crash(e)
      PROVE  ClaimExclusive'
  <2>1. exchange[e].at \in InFlight
    BY <1>5 DEF Deliver, RevokeOpened, RefuseBlocked, GiveBack, Crash, InFlight
  <2>2. CASE UNCHANGED code /\ GoTo(e, "undo")
    <3>1. /\ exchange'[e].code = exchange[e].code
          /\ exchange'[e].at \in InFlight
          /\ \A f \in Exchanges \ {e} : exchange'[f] = exchange[f]
      BY <2>2 DEF GoTo, InFlight, DeviceTypeOK, ExchangeRow
    <3> QED
      BY <2>1, <2>2, <3>1, StepClaim
  <2>3. CASE \E at \in Ended :
               /\ GoTo(e, at)
               /\ \/ UNCHANGED code
                  \/ FinishClaim(exchange[e].code, "consumed")
                  \/ at = "failed" /\ FinishClaim(exchange[e].code, "approved")
    BY <2>1, <2>3, EndClaim
  <2> QED
    BY <1>5, <2>2, <2>3 DEF Deliver, RevokeOpened, RefuseBlocked, GiveBack, Crash, Ended
<1>6. ASSUME NEW r \in Requests, RequestStep(r) PROVE ClaimExclusive'
  BY <1>6, CodeClaim DEF RequestStep, WriteControl, RevokeSessions, BumpAuthVersion
<1>7. ASSUME NEW r \in Requests, NEW u \in Users, NEW login \in LoginChange,
             NEW force \in BOOLEAN, ReadControl(r, u, login, force)
      PROVE  ClaimExclusive'
  BY <1>7, CodeClaim DEF ReadControl
<1>8. CASE DeleteExpiredCodes
  <2>1. \A c \in Codes : code'[c].status \in {code[c].status, "deleted"}
    BY <1>8 DEF DeleteExpiredCodes, DeviceTypeOK, CodeRow
  <2> QED
    BY <1>8, <2>1, CodeClaim DEF DeleteExpiredCodes
<1>9. CASE Tick \/ UNCHANGED vars
  BY <1>9, CodeClaim DEF Tick, vars
<1> QED
  BY <1>1, <1>2, <1>3, <1>4, <1>5, <1>6, <1>7, <1>8, <1>9 DEF DeviceNext, ExchangeStep

(* A code in the hands of one exchange is in the hands of no other, and a  *)
(* settled code is never handed out again (ClaimD2SDeviceCode,             *)
(* FinishD2SDeviceCodeClaim), whatever fails, crashes or is swept between. *)
THEOREM ClaimsAreExclusive == DeviceSpec => []ClaimExclusive
<1>1. DeviceInit => ClaimExclusive
  BY DEF DeviceInit, ClaimExclusive, InFlight
<1>2. DeviceTypeOK /\ ClaimExclusive /\ [DeviceNext]_vars => ClaimExclusive'
  BY NextClaim
<1> QED
  BY <1>1, <1>2, DeviceTypeCorrect, PTL DEF DeviceSpec

(* A device code yields credentials at most once (ExchangeD2SDeviceCode).  *)
THEOREM CodesDeliverOnce == DeviceSpec => []DeliveredOnce
<1>1. ClaimExclusive => DeliveredOnce
  BY DEF ClaimExclusive, DeliveredOnce
<1> QED
  BY <1>1, ClaimsAreExclusive, PTL

(* A code refused because of a login block never brings anyone in later    *)
(* (ExchangeD2SDeviceCode).                                                *)
THEOREM RefusalIsFinal == DeviceSpec => []RefusedForGood
<1>1. ClaimExclusive => RefusedForGood
  BY DEF ClaimExclusive, RefusedForGood, InFlight
<1> QED
  BY <1>1, ClaimsAreExclusive, PTL

-----------------------------------------------------------------------------
(* What makes LogoutIsComplete inductive: a version that was read is never *)
(* ahead of the account's, a completed logout has left its own behind, and *)
(* a session that was inserted belongs to an account.                      *)
VersionsGrow ==
  /\ \A u \in Users : loggedOut[u] < auth[u]
  /\ \A r \in Requests : request[r].at # "idle" => request[r].ver <= auth[request[r].user]
  /\ \A e \in Exchanges : session[e].status # "none" => session[e].user \in Users
  /\ \A e \in Exchanges : exchange[e].at \in {"opened", "undo"} => session[e].status # "none"

(* The account's auth version stays ahead of every completed logout.       *)
LEMMA NextVersions == DeviceTypeOK /\ VersionsGrow /\ [DeviceNext]_vars => VersionsGrow'
<1> SUFFICES ASSUME DeviceTypeOK, VersionsGrow, [DeviceNext]_vars PROVE VersionsGrow'
  OBVIOUS
<1>1. CASE UNCHANGED <<auth, request, loggedOut, session, exchange>>
  BY <1>1 DEF VersionsGrow
<1>2. ASSUME NEW e \in Exchanges, OpenSession(e) PROVE VersionsGrow'
  <2>1. exchange[e].user \in Users
    BY <1>2 DEF DeviceTypeOK, ClaimsHaveUsers, OpenSession
  <2>2. \A f \in Exchanges : session'[f].status # "none" => session'[f].user \in Users
    BY <1>2, <2>1 DEF OpenSession, VersionsGrow, DeviceTypeOK
  <2>3. \A f \in Exchanges :
          exchange'[f].at \in {"opened", "undo"} => session'[f].status # "none"
    BY <1>2 DEF OpenSession, GoTo, VersionsGrow, DeviceTypeOK, ExchangeRow
  <2> QED
    BY <1>2, <2>2, <2>3 DEF OpenSession, VersionsGrow
<1>3. ASSUME NEW e \in Exchanges, RevokeOpened(e) PROVE VersionsGrow'
  <2>1. session[e].status # "none" /\ session[e].user \in Users
    BY <1>3 DEF RevokeOpened, VersionsGrow
  <2>2. \A f \in Exchanges : /\ session'[f].user = session[f].user
                             /\ session'[f].status = "none" => session[f].status = "none"
    BY <1>3, <2>1 DEF RevokeOpened, DeviceTypeOK, SessionRow
  <2>3. \A f \in Exchanges : exchange'[f].at \in {"opened", "undo"} => exchange'[f] = exchange[f]
    BY <1>3 DEF RevokeOpened, GoTo, DeviceTypeOK, ExchangeRow
  <2>4. \A f \in Exchanges : session'[f].status # "none" => session'[f].user \in Users
    BY <2>1, <2>2, <1>3 DEF VersionsGrow, RevokeOpened, DeviceTypeOK, SessionRow
  <2>5. \A f \in Exchanges :
          exchange'[f].at \in {"opened", "undo"} => session'[f].status # "none"
    BY <2>2, <2>3 DEF VersionsGrow
  <2> QED
    BY <1>3, <2>4, <2>5 DEF RevokeOpened, VersionsGrow
<1>4. ASSUME NEW e \in Exchanges,
             \/ ReadLoginBlock(e) \/ ReadUser(e) \/ Deliver(e)
             \/ RefuseBlocked(e) \/ GiveBack(e) \/ Crash(e)
      PROVE  VersionsGrow'
  <2>1. \A f \in Exchanges : exchange'[f].at \in {"opened", "undo"} =>
                               exchange[f].at \in {"opened", "undo"}
    BY <1>4 DEF ReadLoginBlock, ReadUser, Deliver, RefuseBlocked, GiveBack, Crash, GoTo,
                DeviceTypeOK, ExchangeRow
  <2>2. UNCHANGED <<auth, request, loggedOut, session>>
    BY <1>4 DEF ReadLoginBlock, ReadUser, Deliver, RefuseBlocked, GiveBack, Crash
  <2> QED
    BY <2>1, <2>2 DEF VersionsGrow
<1>5. ASSUME NEW e \in Exchanges, NEW c \in Codes, ClaimCode(e, c) PROVE VersionsGrow'
  <2>1. \A f \in Exchanges : exchange'[f].at \in {"opened", "undo"} =>
                               exchange[f].at \in {"opened", "undo"}
    BY <1>5 DEF ClaimCode, DeviceTypeOK
  <2> QED
    BY <1>5, <2>1 DEF VersionsGrow, ClaimCode
<1>6. ASSUME NEW r \in Requests, NEW u \in Users, NEW login \in LoginChange,
             NEW force \in BOOLEAN, ReadControl(r, u, login, force)
      PROVE  VersionsGrow'
  <2>1. /\ request'[r].ver = auth[u]
        /\ request'[r].user = u
        /\ \A q \in Requests \ {r} : request'[q] = request[q]
    BY <1>6 DEF ReadControl, DeviceTypeOK
  <2>2. auth[u] \in Nat
    BY DEF DeviceTypeOK
  <2>3. \A q \in Requests : request'[q].at # "idle" => request'[q].ver <= auth[request'[q].user]
    BY <2>1, <2>2 DEF VersionsGrow
  <2> QED
    BY <1>6, <2>3 DEF VersionsGrow, ReadControl
<1>7. ASSUME NEW r \in Requests, WriteControl(r) \/ RevokeSessions(r) PROVE VersionsGrow'
  <2>1. \A q \in Requests : /\ request'[q].user = request[q].user
                            /\ request'[q].ver = request[q].ver
                            /\ request'[q].at # "idle" => request[q].at # "idle"
    BY <1>7 DEF WriteControl, RevokeSessions, DeviceTypeOK, ControlRequest
  <2>2. \A f \in Exchanges : /\ session'[f].user = session[f].user
                             /\ session'[f].status = "none" <=> session[f].status = "none"
    BY <1>7 DEF WriteControl, RevokeSessions, DeviceTypeOK, SessionRow
  <2>3. UNCHANGED <<auth, loggedOut, exchange>>
    BY <1>7 DEF WriteControl, RevokeSessions
  <2> QED
    BY <2>1, <2>2, <2>3 DEF VersionsGrow
<1>8. ASSUME NEW r \in Requests, BumpAuthVersion(r) PROVE VersionsGrow'
  <2> DEFINE u == request[r].user
  <2>1. u \in Users /\ request[r].ver \in Nat /\ request[r].ver <= auth[u]
    BY <1>8 DEF BumpAuthVersion, DeviceTypeOK, RequestsHaveUsers, ControlRequest, VersionsGrow
  <2>2. \A q \in Requests : /\ request'[q].user = request[q].user
                            /\ request'[q].ver = request[q].ver
                            /\ request'[q].at # "idle" => request[q].at # "idle"
    BY <1>8 DEF BumpAuthVersion, Complete, DeviceTypeOK, ControlRequest
  <2>3. /\ \A v \in Users : auth[v] \in Nat /\ auth'[v] \in Nat /\ auth[v] <= auth'[v]
        /\ loggedOut' # loggedOut => auth'[u] = auth[u] + 1
    BY <1>8, <2>1 DEF BumpAuthVersion, DeviceTypeOK
  <2>4. /\ \A v \in Users \ {u} : loggedOut'[v] = loggedOut[v]
        /\ loggedOut'[u] \in {loggedOut[u], request[r].ver}
        /\ \A v \in Users : loggedOut[v] \in Nat
    BY <1>8, <2>1 DEF BumpAuthVersion, Complete, DeviceTypeOK
  <2>5. \A q \in Requests : request[q].at # "idle" =>
          request[q].user \in Users /\ request[q].ver \in Nat
    BY DEF DeviceTypeOK, RequestsHaveUsers, ControlRequest
  <2> HIDE DEF u
  <2>6. \A v \in Users : loggedOut'[v] < auth'[v]
    <3>1. CASE loggedOut' = loggedOut
      BY <3>1, <2>3, <2>4 DEF VersionsGrow
    <3>2. CASE loggedOut' # loggedOut
      BY <3>2, <2>1, <2>3, <2>4 DEF VersionsGrow
    <3> QED
      BY <3>1, <3>2
  <2>7. \A q \in Requests : request'[q].at # "idle" => request'[q].ver <= auth'[request'[q].user]
    BY <2>2, <2>3, <2>5 DEF VersionsGrow
  <2> QED
    BY <1>8, <2>6, <2>7 DEF VersionsGrow, BumpAuthVersion
<1>9. CASE UNCHANGED vars
  BY <1>9 DEF VersionsGrow, vars
<1> QED
  BY <1>1, <1>2, <1>3, <1>4, <1>5, <1>6, <1>7, <1>8, <1>9
     DEF DeviceNext, ExchangeStep, RequestStep, CreateCode, CancelCode, ApproveCode,
         DeleteExpiredCodes, Tick

(* After a forced logout is reported as done, no session of the version it *)
(* found is usable (D2SAdminSetEmergencyControl, ValidateLoginSession).    *)
THEOREM LogoutCompletes == DeviceSpec => []LogoutIsComplete
<1>1. DeviceInit => VersionsGrow
  BY DEF DeviceInit, VersionsGrow
<1>2. DeviceTypeOK /\ VersionsGrow /\ [DeviceNext]_vars => VersionsGrow'
  BY NextVersions
<1>3. VersionsGrow => LogoutIsComplete
  BY DEF VersionsGrow, LogoutIsComplete, Usable
<1> QED
  BY <1>1, <1>2, <1>3, DeviceTypeCorrect, PTL DEF DeviceSpec
=============================================================================
