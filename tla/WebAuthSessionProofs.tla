------------------------ MODULE WebAuthSessionProofs ------------------------
(***************************************************************************)
(* Proofs, for any number of tabs and sessions, with and without Web       *)
(* Locks, that a tab which signed out stays out, that a sign-out ends no   *)
(* session but the one its page showed, and that tabs never trip the reuse *)
(* detection among themselves.                                             *)
(***************************************************************************)
EXTENDS WebAuthSession, TLAPS

\* A refresh was sent and its answer not yet handled.
Asked(t) == run[t].pc \in {"sent", "answered"}

\* Its answer is a new token and cookie.
Granted(t) == run[t].pc = "answered" /\ run[t].ans = "ok"

\* A sign-in was answered with a session, and the tab has not handled it.
Opening(t) == act[t].op = "login" /\ act[t].pc = "answered" /\ act[t].ans = "ok"

\* A refresh that is current was asked under the session the tab shows, and the
\* server grants only what was expected.
RunInv ==
    \A t \in Tabs :
        /\ Asked(t) /\ run[t].cur => run[t].sid = store[t].sid
        /\ Granted(t) => run[t].ck.sid \in Sids /\ Expected(run[t].sid, run[t].ck)

\* A session a tab is out of is revoked, not shown, and in no answer the tab will
\* still act on.
OutInv ==
    \A t \in Tabs : \A s \in out[t] :
        /\ row[s].st = "revoked"
        /\ store[t].sid # s
        /\ Granted(t) /\ run[t].cur => run[t].ck.sid # s
        /\ Opening(t) => act[t].ck.sid # s

\* Cookies are of sessions that exist.
KnownInv ==
    /\ jar.sid # None => row[jar.sid].st # "none"
    /\ \A t \in Tabs :
        /\ Asked(t) /\ run[t].ck.sid # None => row[run[t].ck.sid].st # "none"
        /\ Opening(t) => act[t].ck.sid \in Sids /\ row[act[t].ck.sid].st # "none"

\* Only the holder of the lock has a refresh under way, and what an unloaded page
\* had sent counts as strayed.
LockInv ==
    /\ Locks => \A t \in Tabs : Asked(t) => lock = t
    /\ \A o \in orphans : o.op = "refresh" /\ o.ck.sid # None => o.ck.sid \in strayed

\* The secret of a session that has not strayed is in one place, and it is current
\* there: in the browser, or in the answer that is about to replace it.
SecretInv(s) ==
    /\ jar.sid = s => \/ jar.gen = row[s].gen
                      \/ \E t \in Tabs : Granted(t) /\ run[t].ck.sid = s
    /\ \A t \in Tabs :
        /\ run[t].pc = "sent" /\ run[t].ck.sid = s => run[t].ck.gen = row[s].gen
        /\ Granted(t) /\ run[t].ck.sid = s => run[t].ck.gen + 1 = row[s].gen
        /\ Opening(t) /\ act[t].ck.sid = s =>
              /\ act[t].ck.gen = row[s].gen
              /\ jar.sid # s
              /\ \A u \in Tabs : /\ Asked(u) => run[u].ck.sid # s
                                 /\ Opening(u) /\ u # t => act[u].ck.sid # s
    /\ row[s].why # "reuse"

\* With Web Locks this holds of every session that has not strayed.
CookieInv == Locks => \A s \in Sids \ strayed : SecretInv(s)

\* A sign-out under way, or left behind by an unloaded page, names a session that
\* was to end; one that a refresh lets go on has a session to name.
EndInv ==
    /\ EndedAsAsked
    /\ \A t \in Tabs :
        /\ act[t].op = "logout" /\ act[t].pc = "sent" => act[t].sid \in ending
        /\ act[t].pc = "resume" /\ act[t].ans = "authenticated" => store[t].sid \in Sids
    /\ \A o \in orphans : o.op = "logout" => o.sid \in ending

-----------------------------------------------------------------------------
(* Types                                                                   *)

\* The empty records are records.
LEMMA EmptyTypes ==
    /\ NoCookie \in Cookies /\ Blank \in Store /\ NoRun \in Run /\ NoAct \in Act
    /\ NoCall \in Call /\ NoRow \in Row /\ NewRow \in Row
  BY DEF NoCookie, Cookies, SidOrNone, Blank, Store, Tokens, NoRun, Run, Answers,
         NoAct, Act, NoCall, Call, NoRow, NewRow, Row

\* RefreshAuth answers with one of the answers and keeps the rows rows.
LEMMA RefreshTypes ==
    ASSUME WebTypeOK, NEW sid \in SidOrNone, NEW ck \in Cookies,
           NEW ans \in RefreshAnswer(sid, ck)
    PROVE  /\ ans \in Answers
           /\ RefreshedRow(sid, ck, ans) \in [Sids -> Row]
  <1>1. ans \in Answers
    BY DEF RefreshAnswer, Answers
  <1>2. RefreshedRow(sid, ck, ans) \in [Sids -> Row]
    <2>1. row \in [Sids -> Row]
      BY DEF WebTypeOK
    <2>2. /\ \A r \in Row : [r EXCEPT !.gen = r.gen + 1] \in Row
          /\ \A r \in Row : [r EXCEPT !.replay = TRUE] \in Row
      <3>1. ASSUME NEW r \in Row
            PROVE  [r EXCEPT !.gen = r.gen + 1] \in Row
        BY DEF Row
      <3>2. ASSUME NEW r \in Row
            PROVE  [r EXCEPT !.replay = TRUE] \in Row
        BY DEF Row
      <3>3. QED
        BY <3>1, <3>2
    <2>3. [row EXCEPT ![ck.sid].gen = @ + 1, ![ck.sid].replay = TRUE] \in [Sids -> Row]
      <3>1. [row EXCEPT ![ck.sid].gen = @ + 1] \in [Sids -> Row]
        BY <2>1, <2>2
      <3>2. QED
        BY <3>1, <2>2
    <2>4. [row EXCEPT ![ck.sid].st = "revoked", ![ck.sid].why = "reuse"] \in [Sids -> Row]
      BY <2>1 DEF Row
    <2>5. QED
      BY <2>1, <2>3, <2>4 DEF RefreshedRow
  <1>3. QED
    BY <1>1, <1>2

\* Revoking a session keeps the rows rows.
LEMMA RevokedTypes ==
    ASSUME WebTypeOK, NEW s \in SidOrNone
    PROVE  Revoked(s) \in [Sids -> Row]
  BY DEF Revoked, WebTypeOK, Row

\* AuthLogout answers with one of the answers and keeps the rows rows.
LEMMA LogoutTypes ==
    ASSUME WebTypeOK, NEW sid \in SidOrNone, NEW tok, NEW ck \in Cookies
    PROVE  /\ LogoutAnswer(sid, tok, ck) \in Answers
           /\ LoggedOutRow(sid, tok, ck) \in [Sids -> Row]
  <1>1. ck.sid \in SidOrNone
    BY DEF Cookies
  <1>2. LogoutAnswer(sid, tok, ck) \in Answers
    BY DEF LogoutAnswer, Answers
  <1>3. LoggedOutRow(sid, tok, ck) \in [Sids -> Row]
    BY <1>1, RevokedTypes DEF LoggedOutRow, WebTypeOK
  <1>4. QED
    BY <1>2, <1>3

\* A refresh that is sent or queued is a refresh.
LEMMA RefreshingTypes ==
    ASSUME WebTypeOK, NEW t \in Tabs
    PROVE  /\ \A sid \in SidOrNone, first \in BOOLEAN : Request(sid, first) \in Run
           /\ Refreshing(t, run[t]) \in Run
           /\ [run EXCEPT ![t] = Refreshing(t, @)] \in [Tabs -> Run]
  <1>1. ASSUME NEW sid \in SidOrNone, NEW first \in BOOLEAN
        PROVE  Request(sid, first) \in Run
    BY DEF Request, Run, Answers, WebTypeOK
  <1>2. store[t].sid \in SidOrNone /\ run[t] \in Run
    BY DEF WebTypeOK, Store
  <1>3. Refreshing(t, run[t]) \in Run
    <2>1. [NoRun EXCEPT !.pc = "lock", !.cur = TRUE] \in Run
      BY EmptyTypes DEF Run
    <2>2. QED
      BY <1>1, <1>2, <2>1 DEF Refreshing
  <1>4. QED
    BY <1>1, <1>3 DEF WebTypeOK

\* Ending a refresh keeps the types.
LEMMA SettleTypes ==
    ASSUME WebTypeOK, NEW t \in Tabs, NEW outcome \in Outcomes, Settle(t, outcome)
    PROVE  /\ run' \in [Tabs -> Run] /\ lock' \in Tabs \cup {None}
           /\ act' \in [Tabs -> Act] /\ call' \in [Tabs -> Call]
  <1>1. run' \in [Tabs -> Run] /\ lock' \in Tabs \cup {None}
    BY EmptyTypes DEF Settle, WebTypeOK
  <1>2. act' \in [Tabs -> Act]
    <2>1. act[t] \in Act
      BY DEF WebTypeOK
    <2>2. [act[t] EXCEPT !.pc = "resume", !.ans = outcome] \in Act
      BY <2>1 DEF Act
    <2>3. QED
      BY <2>1, <2>2 DEF Settle, WebTypeOK
  <1>3. call' \in [Tabs -> Call]
    <2>1. call[t] \in Call
      BY DEF WebTypeOK
    <2>2. [call[t] EXCEPT !.pc = "resume", !.ans = outcome] \in Call
      BY <2>1 DEF Call
    <2>3. QED
      BY <2>1, <2>2 DEF Settle, WebTypeOK
  <1>4. QED
    BY <1>1, <1>2, <1>3

\* What is shown, reset or superseded keeps the types.
LEMMA StoreTypes ==
    ASSUME WebTypeOK, NEW t \in Tabs
    PROVE  /\ \A sid \in SidOrNone : Show(t, sid) => store' \in [Tabs -> Store]
           /\ \A boot \in {"idle", "complete"} : Reset(t, boot) => store' \in [Tabs -> Store]
           /\ Supersede(t) => run' \in [Tabs -> Run]
  <1>1. ASSUME NEW sid \in SidOrNone, Show(t, sid)
        PROVE  store' \in [Tabs -> Store]
    BY <1>1 DEF Show, WebTypeOK, Store, Tokens
  <1>2. ASSUME NEW boot \in {"idle", "complete"}, Reset(t, boot)
        PROVE  store' \in [Tabs -> Store]
    BY <1>2, EmptyTypes DEF Reset, WebTypeOK, Store
  <1>3. ASSUME Supersede(t)
        PROVE  run' \in [Tabs -> Run]
    BY <1>3 DEF Supersede, Superseded, WebTypeOK, Run
  <1>4. QED
    BY <1>1, <1>2, <1>3

\* Events are broadcast as events.
LEMMA PublishTypes ==
    ASSUME WebTypeOK, NEW t \in Tabs, NEW kind \in {"authenticated", "signed_out"},
           NEW sid \in SidOrNone, Publish(t, kind, sid)
    PROVE  inbox' \in [Tabs -> Seq(Event)]
  <1>1. ASSUME NEW u \in Tabs, sid # None
        PROVE  Append(inbox[u], [kind |-> kind, sid |-> sid]) \in Seq(Event)
    <2>1. [kind |-> kind, sid |-> sid] \in Event
      BY <1>1 DEF Event, SidOrNone
    <2>2. inbox[u] \in Seq(Event)
      BY DEF WebTypeOK
    <2>3. QED
      BY <2>1, <2>2
  <1>2. QED
    BY <1>1 DEF Publish, WebTypeOK

\* Unloading a page keeps the types.
LEMMA UnloadTypes ==
    ASSUME WebTypeOK, NEW t \in Tabs, Unload(t)
    PROVE  /\ store' \in [Tabs -> Store] /\ run' \in [Tabs -> Run]
           /\ act' \in [Tabs -> Act] /\ call' \in [Tabs -> Call]
           /\ inbox' \in [Tabs -> Seq(Event)] /\ lock' \in Tabs \cup {None}
           /\ orphans' \subseteq Orphan /\ strayed' \subseteq Sids
  <1>1. /\ store' \in [Tabs -> Store] /\ run' \in [Tabs -> Run]
        /\ act' \in [Tabs -> Act] /\ call' \in [Tabs -> Call]
    BY EmptyTypes DEF Unload, WebTypeOK
  <1>2. inbox' \in [Tabs -> Seq(Event)]
    BY DEF Unload, WebTypeOK
  <1>3. lock' \in Tabs \cup {None} /\ strayed' \subseteq Sids
    BY DEF Unload, WebTypeOK
  <1>4. Abandoned(t) \subseteq Orphan
    <2>1. run[t] \in Run /\ act[t] \in Act
      BY DEF WebTypeOK
    <2>2. QED
      BY <2>1 DEF Abandoned, Orphan, Run, Act, Tokens
  <1>5. orphans' \subseteq Orphan
    BY <1>4 DEF Unload, WebTypeOK
  <1>6. QED
    BY <1>1, <1>2, <1>3, <1>5

\* A step of the pages or of the server keeps the types.
LEMMA WebTypesKept ==
    ASSUME WebTypeOK, [Next]_vars
    PROVE  WebTypeOK'
  <1> SUFFICES WebTypeOK'
    OBVIOUS
  <1> USE WebAssumption
  <1>u. UserBegins => begun' \in Nat
    BY DEF UserBegins, WebTypeOK
  <1>e. \A s : Ends(s) => ending' \subseteq Sids
    BY DEF Ends, WebTypeOK
  <1>1. ASSUME NEW t \in Tabs, ResolveAuthentication(t) \/ GetFreshAuthHeaders(t)
        PROVE  WebTypeOK'
    <2>1. run' \in [Tabs -> Run]
      BY <1>1, RefreshingTypes DEF ResolveAuthentication, GetFreshAuthHeaders
    <2>2. store' \in [Tabs -> Store]
      <3>1. store[t] \in Store
        BY DEF WebTypeOK
      <3>2. [store[t] EXCEPT !.boot = "checking"] \in Store
        BY <3>1 DEF Store
      <3>3. QED
        BY <1>1, <3>2 DEF ResolveAuthentication, GetFreshAuthHeaders, WebTypeOK
    <2>3. QED
      BY <1>1, <2>1, <2>2, <1>u DEF ResolveAuthentication, GetFreshAuthHeaders, WebTypeOK
  <1>2. ASSUME NEW t \in Tabs, GrantLock(t)
        PROVE  WebTypeOK'
    <2>1. CASE run[t].cur
      <3>1. Request(store[t].sid, TRUE) \in Run
        BY RefreshingTypes DEF WebTypeOK, Store
      <3>2. QED
        BY <1>2, <2>1, <3>1 DEF GrantLock, WebTypeOK
    <2>2. CASE ~run[t].cur
      BY <1>2, <2>2, SettleTypes DEF GrantLock, WebTypeOK, Outcomes
    <2>3. QED
      BY <2>1, <2>2
  <1>3. ASSUME NEW t \in Tabs, ServeRefresh(t)
        PROVE  WebTypeOK'
    <2>1. run[t].sid \in SidOrNone /\ run[t].ck \in Cookies /\ run[t] \in Run
      BY DEF WebTypeOK, Run
    <2>2. PICK ans \in RefreshAnswer(run[t].sid, run[t].ck), lost \in BOOLEAN :
            /\ row' = RefreshedRow(run[t].sid, run[t].ck, ans)
            /\ run' = [run EXCEPT ![t].pc = "answered",
                                  ![t].ans = IF lost THEN "error" ELSE ans]
            /\ strayed' = IF lost /\ ans = "ok" THEN strayed \cup {run[t].ck.sid}
                          ELSE strayed
      BY <1>3 DEF ServeRefresh
    <2>3. ans \in Answers /\ row' \in [Sids -> Row]
      BY <2>1, <2>2, RefreshTypes
    <2>4. run' \in [Tabs -> Run]
      <3>1. (IF lost THEN "error" ELSE ans) \in Answers
        BY <2>3 DEF Answers
      <3>2. QED
        BY <2>1, <2>2, <3>1 DEF Run, WebTypeOK
    <2>5. strayed' \subseteq Sids
      <3>1. ans = "ok" => run[t].ck.sid # None
        BY <2>2 DEF RefreshAnswer, Rotates, Live
      <3>2. QED
        BY <2>1, <2>2, <3>1 DEF WebTypeOK, Cookies, SidOrNone
    <2>6. QED
      BY <1>3, <2>3, <2>4, <2>5 DEF ServeRefresh, WebTypeOK
  <1>4. ASSUME NEW t \in Tabs, FailRefresh(t)
        PROVE  WebTypeOK'
    <2>1. run' \in [Tabs -> Run]
      <3>1. run[t] \in Run
        BY DEF WebTypeOK
      <3>2. /\ [run[t] EXCEPT !.pc = "answered", !.ans = "error"] \in Run
            /\ [run[t] EXCEPT !.pc = "answered", !.ans = "unauth"] \in Run
        BY <3>1 DEF Run, Answers
      <3>3. QED
        BY <1>4, <3>2 DEF FailRefresh, WebTypeOK
    <2>2. QED
      BY <1>4, <2>1 DEF FailRefresh, WebTypeOK
  <1>5. ASSUME NEW t \in Tabs, Handle(t)
        PROVE  WebTypeOK'
    <2>1. run[t].ck \in Cookies /\ run[t].ck.sid \in SidOrNone /\ store[t].sid \in SidOrNone
      BY DEF WebTypeOK, Run, Cookies, Store
    <2>2. ApplyCookie(run[t]) => jar' \in Cookies
      BY <2>1, EmptyTypes DEF ApplyCookie, WebTypeOK, Cookies
    <2>3. CASE DropSuperseded(t)
      BY <2>3, <2>2, SettleTypes DEF DropSuperseded, WebTypeOK, Outcomes
    <2>4. CASE AcceptBundle(t)
      <3>1. store' \in [Tabs -> Store]
        BY <2>1, <2>4, StoreTypes DEF AcceptBundle
      <3>2. QED
        BY <2>4, <2>2, <3>1, SettleTypes DEF AcceptBundle, WebTypeOK, Outcomes
    <2>5. CASE RetryMismatch(t)
      <3>1. store' \in [Tabs -> Store]
        BY <2>5, StoreTypes DEF RetryMismatch
      <3>2. Request(None, FALSE) \in Run
        BY RefreshingTypes DEF SidOrNone
      <3>3. QED
        BY <2>5, <3>1, <3>2 DEF RetryMismatch, WebTypeOK
    <2>6. CASE ConfirmAnonymous(t)
      <3>1. store' \in [Tabs -> Store]
        BY <2>6, StoreTypes DEF ConfirmAnonymous
      <3>2. inbox' \in [Tabs -> Seq(Event)]
        BY <2>1, <2>6, PublishTypes DEF ConfirmAnonymous
      <3>3. QED
        BY <2>6, <2>2, <3>1, <3>2, SettleTypes DEF ConfirmAnonymous, WebTypeOK, Outcomes
    <2>7. CASE MarkTransient(t)
      <3>1. store' \in [Tabs -> Store]
        BY <2>7 DEF MarkTransient, WebTypeOK, Store
      <3>2. QED
        BY <2>7, <3>1, SettleTypes DEF MarkTransient, WebTypeOK, Outcomes
    <2>8. CASE FallOutOfSync(t)
      <3>1. store' \in [Tabs -> Store]
        BY <2>8, StoreTypes DEF FallOutOfSync
      <3>2. QED
        BY <2>8, <2>2, <3>1, SettleTypes DEF FallOutOfSync, WebTypeOK, Outcomes
    <2>9. QED
      BY <1>5, <2>3, <2>4, <2>5, <2>6, <2>7, <2>8 DEF Handle
  <1>6. ASSUME NEW t \in Tabs, StartLogin(t)
        PROVE  WebTypeOK'
    <2>1. [NoAct EXCEPT !.op = "login", !.pc = "sent"] \in Act
      BY EmptyTypes DEF Act
    <2>2. QED
      BY <1>6, <2>1, <1>u DEF StartLogin, WebTypeOK
  <1>7. ASSUME NEW t \in Tabs, ServeLogin(t)
        PROVE  WebTypeOK'
    <2>1. act[t] \in Act
      BY DEF WebTypeOK
    <2>2. ASSUME NEW s \in Sids,
                 row' = [row EXCEPT ![s] = NewRow],
                 act' = [act EXCEPT ![t].pc = "answered", ![t].ans = "ok",
                                    ![t].ck = [sid |-> s, gen |-> 1]]
          PROVE  row' \in [Sids -> Row] /\ act' \in [Tabs -> Act]
      <3>1. row' \in [Sids -> Row]
        BY <2>2, EmptyTypes DEF WebTypeOK
      <3>2. [sid |-> s, gen |-> 1] \in Cookies
        BY DEF Cookies, SidOrNone
      <3>3. QED
        BY <2>1, <2>2, <3>1, <3>2 DEF WebTypeOK, Act, Answers
    <2>3. ASSUME act' = [act EXCEPT ![t].pc = "answered", ![t].ans = "error"]
          PROVE  act' \in [Tabs -> Act]
      BY <2>1, <2>3 DEF WebTypeOK, Act, Answers
    <2>4. row' \in [Sids -> Row] /\ act' \in [Tabs -> Act]
      BY <1>7, <2>2, <2>3 DEF ServeLogin, WebTypeOK
    <2>5. QED
      BY <1>7, <2>4 DEF ServeLogin, WebTypeOK
  <1>8. ASSUME NEW t \in Tabs, StartLogout(t)
        PROVE  WebTypeOK'
    <2>1. Logout(t, TRUE) \in Act
      BY DEF Logout, Act, WebTypeOK, Store, Answers
    <2>2. QED
      BY <1>8, <2>1, <1>u, <1>e DEF StartLogout, WebTypeOK
  <1>9. ASSUME NEW t \in Tabs, ServeLogout(t)
        PROVE  WebTypeOK'
    <2>1. /\ act[t].sid \in SidOrNone /\ act[t].ck \in Cookies
          /\ act[t].first \in BOOLEAN
      BY DEF WebTypeOK, Act
    <2>2. PICK served, heard \in BOOLEAN :
            /\ row' = IF LogoutAnswer(act[t].sid, act[t].tok, act[t].ck) = "mismatch" \/ ~served
                      THEN row ELSE LoggedOutRow(act[t].sid, act[t].tok, act[t].ck)
            /\ act' = [act EXCEPT ![t] = [NoAct EXCEPT !.op = "logout",
                      !.pc = "answered", !.first = act[t].first,
                      !.ans = IF heard THEN LogoutAnswer(act[t].sid, act[t].tok, act[t].ck)
                              ELSE "error"]]
      BY <1>9 DEF ServeLogout
    <2>3. LogoutAnswer(act[t].sid, act[t].tok, act[t].ck) \in Answers /\ row' \in [Sids -> Row]
      BY <2>1, <2>2, LogoutTypes DEF WebTypeOK
    <2>4. ASSUME NEW ans \in Answers
          PROVE  [NoAct EXCEPT !.op = "logout", !.pc = "answered", !.first = act[t].first,
                               !.ans = ans] \in Act
      BY <2>1, EmptyTypes DEF Act
    <2>5. (IF heard THEN LogoutAnswer(act[t].sid, act[t].tok, act[t].ck) ELSE "error") \in Answers
      BY <2>3 DEF Answers
    <2>6. act' \in [Tabs -> Act]
      BY <2>2, <2>4, <2>5 DEF WebTypeOK
    <2>7. QED
      BY <1>9, <2>3, <2>6 DEF ServeLogout, WebTypeOK
  <1>10. ASSUME NEW t \in Tabs, HandleLogin(t)
        PROVE  WebTypeOK'
    <2>1. act[t].ck \in Cookies /\ act[t].ck.sid \in SidOrNone
      BY DEF WebTypeOK, Act, Cookies
    <2>2. act' \in [Tabs -> Act]
      BY <1>10, EmptyTypes DEF HandleLogin, WebTypeOK
    <2>3. CASE act[t].ans = "ok"
      <3>1. store' \in [Tabs -> Store] /\ run' \in [Tabs -> Run]
        BY <1>10, <2>1, <2>3, StoreTypes DEF HandleLogin
      <3>2. inbox' \in [Tabs -> Seq(Event)]
        BY <1>10, <2>1, <2>3, PublishTypes DEF HandleLogin
      <3>3. QED
        BY <1>10, <2>1, <2>2, <2>3, <3>1, <3>2 DEF HandleLogin, WebTypeOK
    <2>4. CASE act[t].ans # "ok"
      BY <1>10, <2>2, <2>4 DEF HandleLogin, WebTypeOK
    <2>5. QED
      BY <2>3, <2>4
  <1>so. ASSUME NEW t \in Tabs, SignedOut(t)
         PROVE  /\ store' \in [Tabs -> Store] /\ run' \in [Tabs -> Run]
                /\ inbox' \in [Tabs -> Seq(Event)] /\ out' \in [Tabs -> SUBSET Sids]
    <2>1. store[t].sid \in SidOrNone
      BY DEF WebTypeOK, Store
    <2>2. store' \in [Tabs -> Store] /\ run' \in [Tabs -> Run]
      BY <1>so, StoreTypes DEF SignedOut
    <2>3. inbox' \in [Tabs -> Seq(Event)]
      BY <1>so, <2>1, PublishTypes DEF SignedOut
    <2>4. out' \in [Tabs -> SUBSET Sids]
      BY <1>so DEF SignedOut, WebTypeOK
    <2>5. QED
      BY <2>2, <2>3, <2>4
  <1>11. ASSUME NEW t \in Tabs, CompleteLogout(t)
        PROVE  WebTypeOK'
    <2>1. jar' \in Cookies /\ act' \in [Tabs -> Act]
      BY <1>11, EmptyTypes DEF CompleteLogout, WebTypeOK
    <2>2. QED
      BY <1>11, <1>so, <2>1 DEF CompleteLogout, WebTypeOK
  <1>12. ASSUME NEW t \in Tabs, RecoverLogout(t)
        PROVE  WebTypeOK'
    <2>1. run' \in [Tabs -> Run]
      <3>1. run' = [run EXCEPT ![t] = Refreshing(t, @)] \/ run' = run
        BY <1>12 DEF RecoverLogout
      <3>2. [run EXCEPT ![t] = Refreshing(t, @)] \in [Tabs -> Run] /\ run \in [Tabs -> Run]
        BY RefreshingTypes DEF WebTypeOK
      <3>3. QED
        BY <3>1, <3>2
    <2>2. act' \in [Tabs -> Act]
      <3>1. act[t] \in Act
        BY DEF WebTypeOK
      <3>2. [act[t] EXCEPT !.pc = "wait"] \in Act
        BY <3>1 DEF Act
      <3>3. act' = [act EXCEPT ![t].pc = "wait"] \/ act' = [act EXCEPT ![t] = NoAct]
        BY <1>12 DEF RecoverLogout
      <3>4. QED
        BY <3>2, <3>3, EmptyTypes DEF WebTypeOK
    <2>3. QED
      BY <1>12, <2>1, <2>2 DEF RecoverLogout, WebTypeOK
  <1>13. ASSUME NEW t \in Tabs, ResumeLogout(t)
        PROVE  WebTypeOK'
    <2>1. Logout(t, FALSE) \in Act
      BY DEF Logout, Act, WebTypeOK, Store, Answers
    <2>2. act' \in [Tabs -> Act]
      BY <1>13, <2>1, EmptyTypes DEF ResumeLogout, WebTypeOK
    <2>3. QED
      BY <1>13, <1>so, <1>e, <2>2 DEF ResumeLogout, WebTypeOK
  <1>14. ASSUME NEW t \in Tabs, StartCall(t)
        PROVE  WebTypeOK'
    <2>1. [pc |-> "sent", sid |-> store[t].sid, tok |-> store[t].tok, again |-> FALSE,
           ans |-> "none"] \in Call
      BY DEF Call, WebTypeOK, Store, Answers
    <2>2. QED
      BY <1>14, <2>1, <1>u DEF StartCall, WebTypeOK
  <1>15. ASSUME NEW t \in Tabs, ServeCall(t)
        PROVE  WebTypeOK'
    <2>1. call[t] \in Call /\ call[t].again \in BOOLEAN
      BY DEF WebTypeOK, Call
    <2>2. [call[t] EXCEPT !.pc = "answered", !.ans = "ok"] \in Call
      BY <2>1 DEF Call, Answers
    <2>3. [NoCall EXCEPT !.pc = "answered", !.ans = "unauth", !.again = call[t].again] \in Call
      BY <2>1, EmptyTypes DEF Call, Answers
    <2>4. QED
      BY <1>15, <2>2, <2>3 DEF ServeCall, WebTypeOK
  <1>16. ASSUME NEW t \in Tabs, CompleteCall(t)
        PROVE  WebTypeOK'
    <2>1. call[t].sid \in SidOrNone /\ call' \in [Tabs -> Call]
      BY <1>16, EmptyTypes DEF CompleteCall, WebTypeOK, Call
    <2>2. QED
      BY <1>16, <2>1, StoreTypes DEF CompleteCall, WebTypeOK
  <1>17. ASSUME NEW t \in Tabs, RefuseCall(t)
        PROVE  WebTypeOK'
    <2>1. run' \in [Tabs -> Run]
      BY <1>17, RefreshingTypes DEF RefuseCall
    <2>2. call' \in [Tabs -> Call]
      <3>1. call[t] \in Call
        BY DEF WebTypeOK
      <3>2. [call[t] EXCEPT !.pc = "wait", !.again = TRUE] \in Call
        BY <3>1 DEF Call
      <3>3. QED
        BY <1>17, <3>2 DEF RefuseCall, WebTypeOK
    <2>3. QED
      BY <1>17, <2>1, <2>2 DEF RefuseCall, WebTypeOK
  <1>18. ASSUME NEW t \in Tabs, RedirectRefused(t) \/ Reload(t)
        PROVE  WebTypeOK'
    BY <1>18, <1>u, UnloadTypes DEF RedirectRefused, Reload, WebTypeOK
  <1>19. ASSUME NEW t \in Tabs, ClearRefused(t)
        PROVE  WebTypeOK'
    <2>1. store' \in [Tabs -> Store] /\ run' \in [Tabs -> Run]
      BY <1>19, StoreTypes DEF ClearRefused
    <2>2. QED
      BY <1>19, <2>1, EmptyTypes DEF ClearRefused, WebTypeOK
  <1>20. ASSUME NEW t \in Tabs, ResumeCall(t)
        PROVE  WebTypeOK'
    <2>1. CASE Unload(t)
      BY <1>20, <2>1, UnloadTypes DEF ResumeCall, WebTypeOK
    <2>2. CASE ~Unload(t)
      <3>1. call[t] \in Call /\ store[t].sid \in SidOrNone /\ store[t].tok \in Tokens
        BY DEF WebTypeOK, Store
      <3>2. [call[t] EXCEPT !.pc = "sent", !.ans = "none", !.sid = store[t].sid,
                            !.tok = store[t].tok] \in Call
        BY <3>1 DEF Call, Answers
      <3>3. call' \in [Tabs -> Call]
        BY <1>20, <2>2, <3>2, EmptyTypes DEF ResumeCall, WebTypeOK
      <3>4. UNCHANGED <<row, jar, store, run, act, inbox, lock, orphans, strayed, out, ending,
                        begun>>
        BY <1>20, <2>2 DEF ResumeCall
      <3>5. QED
        BY <3>3, <3>4 DEF WebTypeOK
    <2>3. QED
      BY <2>1, <2>2
  <1>tl. \A t \in Tabs : inbox[t] # <<>> => [inbox EXCEPT ![t] = Tail(@)] \in [Tabs -> Seq(Event)]
    BY DEF WebTypeOK
  <1>21. ASSUME NEW t \in Tabs, DeliverSignedOut(t)
        PROVE  WebTypeOK'
    <2>1. inbox' \in [Tabs -> Seq(Event)]
      BY <1>21, <1>tl DEF DeliverSignedOut
    <2>2. QED
      BY <1>21, <2>1, StoreTypes DEF DeliverSignedOut, WebTypeOK
  <1>22. ASSUME NEW t \in Tabs, DeliverAuthenticated(t)
        PROVE  WebTypeOK'
    <2>1. CASE Unload(t)
      BY <1>22, <2>1, UnloadTypes DEF DeliverAuthenticated, WebTypeOK
    <2>2. CASE ~Unload(t)
      <3>1. inbox' \in [Tabs -> Seq(Event)]
        BY <1>22, <2>2, <1>tl DEF DeliverAuthenticated
      <3>2. QED
        BY <1>22, <2>2, <3>1 DEF DeliverAuthenticated, WebTypeOK
    <2>3. QED
      BY <2>1, <2>2
  <1>23. ASSUME NEW t \in Tabs, DropStaleEvent(t)
        PROVE  WebTypeOK'
    BY <1>23, <1>tl DEF DropStaleEvent, WebTypeOK
  <1>24. ASSUME NEW t \in Tabs, Expire(t)
        PROVE  WebTypeOK'
    <2>1. store' \in [Tabs -> Store]
      <3>1. store[t] \in Store
        BY DEF WebTypeOK
      <3>2. [store[t] EXCEPT !.tok = "expired"] \in Store
        BY <3>1 DEF Store, Tokens
      <3>3. QED
        BY <1>24, <3>2 DEF Expire, WebTypeOK
    <2>2. QED
      BY <1>24, <2>1 DEF Expire, WebTypeOK
  <1>25. CASE ServeOrphan
    <2>1. PICK o \in orphans :
            /\ orphans' = orphans \ {o}
            /\ \/ \E ans \in RefreshAnswer(o.sid, o.ck) : row' = RefreshedRow(o.sid, o.ck, ans)
               \/ row' = LoggedOutRow(o.sid, o.tok, o.ck)
               \/ UNCHANGED row
      BY <1>25 DEF ServeOrphan
    <2>2. o.sid \in SidOrNone /\ o.ck \in Cookies
      BY DEF WebTypeOK, Orphan
    <2>3. row' \in [Sids -> Row]
      BY <2>1, <2>2, RefreshTypes, LogoutTypes DEF WebTypeOK
    <2>4. QED
      BY <1>25, <2>1, <2>3 DEF ServeOrphan, WebTypeOK, pages
  <1>26. ASSUME NEW s \in Sids, CloseReplayWindow(s) \/ RevokeElsewhere(s)
        PROVE  WebTypeOK'
    <2>1. row' \in [Sids -> Row]
      <3>1. row[s] \in Row
        BY DEF WebTypeOK
      <3>2. [row[s] EXCEPT !.replay = FALSE] \in Row
        BY <3>1 DEF Row
      <3>3. row' = [row EXCEPT ![s].replay = FALSE] \/ row' = Revoked(s)
        BY <1>26 DEF CloseReplayWindow, RevokeElsewhere
      <3>4. [row EXCEPT ![s].replay = FALSE] \in [Sids -> Row]
        BY <3>2 DEF WebTypeOK
      <3>5. Revoked(s) \in [Sids -> Row]
        BY RevokedTypes DEF SidOrNone
      <3>6. QED
        BY <3>3, <3>4, <3>5
    <2>2. QED
      BY <1>26, <2>1, <1>u, <1>e DEF CloseReplayWindow, RevokeElsewhere, WebTypeOK, pages
  <1>27. CASE UNCHANGED vars
    BY <1>27 DEF vars, WebTypeOK
  <1> HIDE WebAssumption
  <1>28. QED
    BY <1>1, <1>2, <1>3, <1>4, <1>5, <1>6, <1>7, <1>8, <1>9, <1>10, <1>11, <1>12, <1>13,
       <1>14, <1>15, <1>16, <1>17, <1>18, <1>19, <1>20, <1>21, <1>22, <1>23, <1>24, <1>25,
       <1>26, <1>27
       DEF Next, FinishAct, FinishCall

\* Tabs are opened with their types.
LEMMA WebTypesInit == Init => WebTypeOK
  <1> SUFFICES ASSUME Init PROVE WebTypeOK
    OBVIOUS
  <1>1. row \in [Sids -> Row]
    BY EmptyTypes DEF Init
  <1>2. jar \in Cookies
    BY EmptyTypes DEF Init, Cookies, SidOrNone
  <1>3. QED
    BY <1>1, <1>2, EmptyTypes DEF Init, WebTypeOK

\* The stores, requests, events and rows keep their types.
THEOREM WebTypeCorrect == Spec => []WebTypeOK
  BY WebTypesInit, WebTypesKept, PTL DEF Spec

-----------------------------------------------------------------------------
(* What a step may do to the sessions of the tabs and to their cookies     *)

\* Only tab t changes.
OnlyTab(t) ==
    \A u \in Tabs \ {t} : /\ run'[u] = run[u] /\ act'[u] = act[u]
                          /\ store'[u] = store[u] /\ out'[u] = out[u]

\* The rows keep their generations, and sessions are at most revoked on request.
RowsKept ==
    \A s \in Sids :
        /\ row'[s].gen = row[s].gen
        /\ row'[s].st = row[s].st \/ (row[s].st = "active" /\ row'[s].st = "revoked")
        /\ row'[s].why = "reuse" => row[s].why = "reuse"

\* No answer to a sign-in is added.
NoOpening(t) == act'[t] = act[t] \/ ~Opening(t)'

\* Nothing that concerns the session or its cookie.
Idle(t) ==
    /\ RowsKept /\ NoOpening(t)
    /\ \/ run'[t] \in {run[t], Superseded(run[t])}
       \/ ~Asked(t) /\ ~Asked(t)'
    /\ store'[t].sid = store[t].sid
    /\ UNCHANGED <<jar, lock, orphans, strayed, out>>

\* The tab forgets its session, and with it the refresh in progress.
Leave(t) ==
    /\ store'[t].sid = None /\ run'[t] = Superseded(run[t])
    /\ jar' \in {jar, NoCookie}
    /\ NoOpening(t)
    /\ out'[t] \subseteq out[t] \cup {s \in Sids : row[s].st = "revoked"}
    /\ out'[t] = out[t] \/ ~Opening(t)'
    /\ UNCHANGED <<row, lock, orphans, strayed>>

\* A refresh is sent with the cookie of the moment: under the lock if there is one.
Ask(t) ==
    /\ ~Granted(t) /\ \E first \in BOOLEAN : run'[t] = Request(store'[t].sid, first)
    /\ store'[t].sid \in {store[t].sid, None}
    /\ Locks => /\ lock' = t
                /\ lock = None \/ (lock = t /\ Asked(t))
    /\ NoOpening(t)
    /\ UNCHANGED <<row, jar, orphans, strayed, out>>

\* The answer of a refresh is handled.
End(t) ==
    /\ run[t].pc = "answered" /\ run'[t] = NoRun
    /\ ApplyCookie(run[t])
    /\ lock' = IF lock = t THEN None ELSE lock
    /\ \/ store'[t].sid \in {store[t].sid, None}
       \/ Granted(t) /\ run[t].cur /\ store'[t].sid = run[t].ck.sid
    /\ NoOpening(t)
    /\ UNCHANGED <<row, orphans, strayed, out>>

\* The page is unloaded.
Gone(t) == Unload(t) /\ UNCHANGED <<row, jar, out>>

\* What one tab, or the server on its behalf, may do.
TabMove(t) ==
    /\ OnlyTab(t)
    /\ \/ Idle(t) \/ Leave(t) \/ Ask(t) \/ End(t) \/ Gone(t)
       \/ ServeRefresh(t) \/ FailRefresh(t) \/ ServeLogin(t) \/ HandleLogin(t)

\* What happens to the rows alone.
RowMove == RowsKept /\ UNCHANGED <<jar, store, run, act, lock, orphans, strayed, out>>

\* Revoking on request keeps the rows so.
LEMMA RevokedKeeps ==
    ASSUME WebTypeOK, NEW s \in SidOrNone, row' = Revoked(s)
    PROVE  RowsKept
  <1>1. row \in [Sids -> Row]
    BY DEF WebTypeOK
  <1>2. CASE s # None /\ row[s].st = "active"
    <2>1. s \in Sids
      BY <1>2 DEF SidOrNone
    <2>2. row' = [row EXCEPT ![s].st = "revoked", ![s].why = "asked"]
      BY <1>2 DEF Revoked
    <2>3. QED
      BY <1>1, <1>2, <2>1, <2>2 DEF RowsKept, Row
  <1>3. CASE ~(s # None /\ row[s].st = "active")
    BY <1>3 DEF Revoked, RowsKept
  <1>4. QED
    BY <1>2, <1>3

\* AuthLogout at most revokes one session on request.
LEMMA LogoutKeeps ==
    ASSUME WebTypeOK, NEW sid \in SidOrNone, NEW tok, NEW ck \in Cookies,
           row' \in {row, LoggedOutRow(sid, tok, ck)}
    PROVE  RowsKept
  <1>1. ck.sid \in SidOrNone
    BY DEF Cookies
  <1>2. row' \in {row, Revoked(sid), Revoked(ck.sid)}
    BY DEF LoggedOutRow
  <1>3. row' = row => RowsKept
    BY DEF RowsKept
  <1>4. QED
    BY <1>1, <1>2, <1>3, RevokedKeeps

\* Joining or starting a refresh is no move, or the sending of one.
LEMMA RefreshingMoves ==
    ASSUME WebTypeOK, NEW t \in Tabs, run'[t] = Refreshing(t, run[t])
    PROVE  \/ run'[t] = run[t]
           \/ ~Asked(t) /\ ~Asked(t)'
           \/ /\ ~Locks /\ ~Granted(t)
              /\ \E first \in BOOLEAN : run'[t] = Request(store[t].sid, first)
  BY DEF Refreshing, Asked, Granted, NoRun

\* Ending a refresh opens no session.
LEMMA SettleMoves ==
    ASSUME WebTypeOK, NEW t \in Tabs, NEW outcome, Settle(t, outcome)
    PROVE  /\ run'[t] = NoRun /\ NoOpening(t)
           /\ \A u \in Tabs \ {t} : run'[u] = run[u] /\ act'[u] = act[u]
           /\ lock' = IF lock = t THEN None ELSE lock
  <1>1. act'[t] = act[t] \/ act'[t] = [act[t] EXCEPT !.pc = "resume", !.ans = outcome]
    BY DEF Settle, WebTypeOK
  <1>2. [act[t] EXCEPT !.pc = "resume", !.ans = outcome].pc = "resume"
    BY DEF WebTypeOK, Act
  <1>3. NoOpening(t)
    BY <1>1, <1>2 DEF NoOpening, Opening
  <1>4. QED
    BY <1>3 DEF Settle, WebTypeOK

\* Showing, forgetting and superseding concern one tab.
LEMMA StoreMoves ==
    ASSUME WebTypeOK, NEW t \in Tabs
    PROVE  /\ \A sid : Show(t, sid) => /\ store'[t].sid = sid
                                       /\ \A u \in Tabs \ {t} : store'[u] = store[u]
           /\ \A boot : Reset(t, boot) => /\ store'[t].sid = None
                                          /\ \A u \in Tabs \ {t} : store'[u] = store[u]
           /\ Supersede(t) => /\ run'[t] = Superseded(run[t])
                              /\ \A u \in Tabs \ {t} : run'[u] = run[u]
  <1>1. ASSUME NEW sid, Show(t, sid)
        PROVE  store'[t].sid = sid /\ \A u \in Tabs \ {t} : store'[u] = store[u]
    BY <1>1 DEF Show, WebTypeOK
  <1>2. ASSUME NEW boot, Reset(t, boot)
        PROVE  store'[t].sid = None /\ \A u \in Tabs \ {t} : store'[u] = store[u]
    BY <1>2 DEF Reset, WebTypeOK, Blank
  <1>3. ASSUME Supersede(t)
        PROVE  run'[t] = Superseded(run[t]) /\ \A u \in Tabs \ {t} : run'[u] = run[u]
    BY <1>3 DEF Supersede, WebTypeOK
  <1>4. QED
    BY <1>1, <1>2, <1>3

\* Every step is one of these moves.
LEMMA NextMoves ==
    ASSUME WebTypeOK, LockInv, [Next]_vars
    PROVE  RowMove \/ ServeOrphan \/ \E t \in Tabs : TabMove(t)
  <1> DEFINE Goal == RowMove \/ ServeOrphan \/ \E t \in Tabs : TabMove(t)
  <1> SUFFICES Goal
    OBVIOUS
  <1>r. row' = row => RowsKept
    BY DEF RowsKept
  <1>t. /\ store \in [Tabs -> Store] /\ run \in [Tabs -> Run] /\ act \in [Tabs -> Act]
        /\ out \in [Tabs -> SUBSET Sids]
    BY DEF WebTypeOK
  <1>n. NoAct.op # "login" /\ NoAct.pc = "none"
    BY DEF NoAct
  <1>1. ASSUME NEW t \in Tabs, ResolveAuthentication(t) \/ GetFreshAuthHeaders(t)
        PROVE  TabMove(t)
    <2>1. store'[t].sid = store[t].sid /\ \A u \in Tabs \ {t} : store'[u] = store[u]
      BY <1>1, <1>t DEF ResolveAuthentication, GetFreshAuthHeaders, Store
    <2>2. run' = [run EXCEPT ![t] = Refreshing(t, @)]
      BY <1>1 DEF ResolveAuthentication, GetFreshAuthHeaders
    <2>3. UNCHANGED <<row, jar, act, lock, orphans, strayed, out>>
      BY <1>1 DEF ResolveAuthentication, GetFreshAuthHeaders
    <2>4. OnlyTab(t) /\ run'[t] = Refreshing(t, run[t])
      BY <2>1, <2>2, <2>3, <1>t DEF OnlyTab
    <2>5. Idle(t) \/ Ask(t)
      BY <2>1, <2>3, <2>4, <1>r, RefreshingMoves DEF Idle, Ask, NoOpening
    <2>6. QED
      BY <2>4, <2>5 DEF TabMove
  <1>2. ASSUME NEW t \in Tabs, GrantLock(t)
        PROVE  TabMove(t)
    <2>1. CASE run[t].cur
      <3>1. OnlyTab(t) /\ run'[t] = Request(store'[t].sid, TRUE)
        BY <1>2, <2>1, <1>t DEF GrantLock, OnlyTab, Request
      <3>2. Ask(t)
        BY <1>2, <2>1, <3>1 DEF GrantLock, Ask, Granted, NoOpening
      <3>3. QED
        BY <3>1, <3>2 DEF TabMove
    <2>2. CASE ~run[t].cur
      <3>1. Settle(t, "transient") /\ UNCHANGED <<row, jar, store, orphans, strayed, out>>
        BY <1>2, <2>2 DEF GrantLock
      <3>2. OnlyTab(t) /\ run'[t] = NoRun /\ NoOpening(t) /\ lock' = lock
        BY <3>1, <1>2, SettleMoves DEF OnlyTab, GrantLock
      <3>3. ~Asked(t) /\ ~Asked(t)'
        BY <1>2, <3>2 DEF GrantLock, Asked, NoRun
      <3>4. QED
        BY <3>1, <3>2, <3>3, <1>r DEF Idle, TabMove
    <2>3. QED
      BY <2>1, <2>2
  <1>3. ASSUME NEW t \in Tabs, ServeRefresh(t) \/ FailRefresh(t)
        PROVE  TabMove(t)
    BY <1>3, <1>t DEF ServeRefresh, FailRefresh, TabMove, OnlyTab
  <1>4. ASSUME NEW t \in Tabs, Handle(t)
        PROVE  TabMove(t)
    <2> DEFINE Ended(outcome) ==
          /\ Settle(t, outcome) /\ run[t].pc = "answered"
          /\ UNCHANGED <<row, orphans, strayed, out>>
    <2>1. ASSUME NEW outcome, Ended(outcome), ApplyCookie(run[t]),
                 \A u \in Tabs \ {t} : store'[u] = store[u],
                 \/ store'[t].sid \in {store[t].sid, None}
                 \/ Granted(t) /\ run[t].cur /\ store'[t].sid = run[t].ck.sid
          PROVE  TabMove(t)
      <3>1. /\ run'[t] = NoRun /\ NoOpening(t)
            /\ \A u \in Tabs \ {t} : run'[u] = run[u] /\ act'[u] = act[u]
            /\ lock' = IF lock = t THEN None ELSE lock
        BY <2>1, SettleMoves
      <3>2. QED
        BY <2>1, <3>1 DEF TabMove, End, OnlyTab
    <2>2. CASE DropSuperseded(t)
      BY <2>2, <2>1 DEF DropSuperseded
    <2>3. CASE AcceptBundle(t)
      <3>1. store'[t].sid = run[t].ck.sid /\ \A u \in Tabs \ {t} : store'[u] = store[u]
        BY <2>3, StoreMoves DEF AcceptBundle
      <3>2. QED
        BY <2>3, <3>1, <2>1 DEF AcceptBundle, Arrived, Granted
    <2>4. CASE RetryMismatch(t)
      <3>1. store'[t].sid = None /\ \A u \in Tabs \ {t} : store'[u] = store[u]
        BY <2>4, StoreMoves DEF RetryMismatch
      <3>2. OnlyTab(t) /\ run'[t] = Request(store'[t].sid, FALSE)
        BY <2>4, <3>1, <1>t DEF RetryMismatch, OnlyTab
      <3>3. ~Granted(t) /\ Asked(t)
        BY <2>4 DEF RetryMismatch, Arrived, Granted, Asked
      <3>4. QED
        BY <2>4, <3>1, <3>2, <3>3 DEF RetryMismatch, TabMove, Ask, NoOpening, LockInv
    <2>5. CASE ConfirmAnonymous(t)
      BY <2>5, <2>1, StoreMoves DEF ConfirmAnonymous, Arrived
    <2>6. CASE MarkTransient(t)
      <3>1. store'[t].sid = store[t].sid /\ \A u \in Tabs \ {t} : store'[u] = store[u]
        BY <2>6, <1>t DEF MarkTransient, Store
      <3>2. ApplyCookie(run[t])
        BY <2>6 DEF MarkTransient, Arrived, ApplyCookie
      <3>3. QED
        BY <2>6, <3>1, <3>2, <2>1 DEF MarkTransient, Arrived
    <2>7. CASE FallOutOfSync(t)
      BY <2>7, <2>1, StoreMoves DEF FallOutOfSync, Arrived
    <2>8. QED
      BY <1>4, <2>2, <2>3, <2>4, <2>5, <2>6, <2>7 DEF Handle
  <1>i. ASSUME NEW t \in Tabs, OnlyTab(t), NoOpening(t), RowsKept,
               run'[t] \in {run[t], Superseded(run[t])}, store'[t].sid = store[t].sid,
               UNCHANGED <<jar, lock, orphans, strayed, out>>
        PROVE  TabMove(t)
    BY <1>i DEF TabMove, Idle
  <1>l. ASSUME NEW t \in Tabs, OnlyTab(t), NoOpening(t), Supersede(t),
               store'[t].sid = None, jar' \in {jar, NoCookie}, out' = out,
               UNCHANGED <<row, lock, orphans, strayed>>
        PROVE  TabMove(t)
    BY <1>l, StoreMoves DEF TabMove, Leave
  <1>5. ASSUME NEW t \in Tabs, StartLogin(t) \/ StartLogout(t)
        PROVE  TabMove(t)
    <2>1. act'[t].pc = "sent"
      <3>1. [NoAct EXCEPT !.op = "login", !.pc = "sent"].pc = "sent" /\ Logout(t, TRUE).pc = "sent"
        BY DEF NoAct, Logout
      <3>2. QED
        BY <1>5, <3>1, <1>t DEF StartLogin, StartLogout
    <2>2. OnlyTab(t)
      BY <1>5, <1>t DEF StartLogin, StartLogout, OnlyTab
    <2>3. UNCHANGED <<row, jar, store, run, lock, orphans, strayed, out>>
      BY <1>5 DEF StartLogin, StartLogout
    <2>4. QED
      BY <2>1, <2>2, <2>3, <1>r, <1>i DEF NoOpening, Opening
  <1>6. ASSUME NEW t \in Tabs, ServeLogin(t)
        PROVE  TabMove(t)
    BY <1>6, <1>t DEF ServeLogin, TabMove, OnlyTab
  <1>7. ASSUME NEW t \in Tabs, ServeLogout(t)
        PROVE  TabMove(t)
    <2>1. act[t].sid \in SidOrNone /\ act[t].ck \in Cookies
      BY <1>t DEF Act
    <2>2. row' \in {row, LoggedOutRow(act[t].sid, act[t].tok, act[t].ck)}
      BY <1>7 DEF ServeLogout
    <2>3. RowsKept
      BY <2>1, <2>2, LogoutKeeps
    <2>4. act'[t].op = "logout" /\ \A u \in Tabs \ {t} : act'[u] = act[u]
      <3>1. PICK ans : act' = [act EXCEPT ![t] = [NoAct EXCEPT !.op = "logout",
                                !.pc = "answered", !.first = act[t].first, !.ans = ans]]
        BY <1>7 DEF ServeLogout
      <3>2. [NoAct EXCEPT !.op = "logout", !.pc = "answered", !.first = act[t].first,
                          !.ans = ans].op = "logout"
        BY DEF NoAct
      <3>3. QED
        BY <3>1, <3>2, <1>t
    <2>5. UNCHANGED <<jar, store, run, lock, orphans, strayed, out>>
      BY <1>7 DEF ServeLogout
    <2>6. QED
      BY <2>3, <2>4, <2>5, <1>i DEF NoOpening, Opening, OnlyTab
  <1>8. ASSUME NEW t \in Tabs, HandleLogin(t)
        PROVE  TabMove(t)
    <2>1. \A u \in Tabs \ {t} : store'[u] = store[u] /\ run'[u] = run[u]
      BY <1>8, StoreMoves DEF HandleLogin
    <2>2. QED
      BY <1>8, <2>1, <1>t DEF HandleLogin, TabMove, OnlyTab
  <1>s. ASSUME NEW t \in Tabs, SignedOut(t), act' = [act EXCEPT ![t] = NoAct],
               jar' \in {jar, NoCookie}, UNCHANGED <<row, lock, orphans, strayed>>
        PROVE  TabMove(t)
    <2>1. /\ store'[t].sid = None /\ \A u \in Tabs \ {t} : store'[u] = store[u]
          /\ run'[t] = Superseded(run[t]) /\ \A u \in Tabs \ {t} : run'[u] = run[u]
      BY <1>s, StoreMoves DEF SignedOut
    <2>2. /\ out'[t] = out[t] \cup {s \in Sids : s = store[t].sid /\ row[s].st = "revoked"}
          /\ \A u \in Tabs \ {t} : out'[u] = out[u]
      BY <1>s, <1>t DEF SignedOut
    <2>3. act'[t] = NoAct /\ \A u \in Tabs \ {t} : act'[u] = act[u]
      BY <1>s, <1>t
    <2>4. ~Opening(t)'
      BY <2>3, <1>n DEF Opening
    <2>5. OnlyTab(t)
      BY <2>1, <2>2, <2>3 DEF OnlyTab
    <2>6. Leave(t)
      BY <1>s, <2>1, <2>2, <2>4 DEF Leave, NoOpening
    <2>7. QED
      BY <2>5, <2>6 DEF TabMove
  <1>9. ASSUME NEW t \in Tabs, CompleteLogout(t)
        PROVE  TabMove(t)
    BY <1>9, <1>s DEF CompleteLogout
  <1>10. ASSUME NEW t \in Tabs, RecoverLogout(t)
        PROVE  TabMove(t)
    <2>1. UNCHANGED <<row, jar, store, lock, orphans, strayed, out>>
      BY <1>10 DEF RecoverLogout
    <2>2. /\ act'[t].pc \in {"wait", "none"} /\ \A u \in Tabs \ {t} : act'[u] = act[u]
          /\ run'[t] \in {run[t], Refreshing(t, run[t])}
          /\ \A u \in Tabs \ {t} : run'[u] = run[u]
      BY <1>10, <1>t, <1>n DEF RecoverLogout, Act
    <2>3. OnlyTab(t) /\ NoOpening(t)
      BY <2>1, <2>2 DEF OnlyTab, NoOpening, Opening
    <2>4. CASE run'[t] = run[t]
      BY <2>1, <2>3, <2>4, <1>r, <1>i
    <2>5. CASE run'[t] = Refreshing(t, run[t])
      <3>1. Idle(t) \/ Ask(t)
        BY <2>1, <2>3, <2>5, <1>r, RefreshingMoves DEF Idle, Ask
      <3>2. QED
        BY <2>3, <3>1 DEF TabMove
    <2>6. QED
      BY <2>2, <2>4, <2>5
  <1>11. ASSUME NEW t \in Tabs, ResumeLogout(t)
        PROVE  TabMove(t)
    <2>1. UNCHANGED <<row, jar, lock, orphans, strayed>>
      BY <1>11 DEF ResumeLogout
    <2>2. CASE act[t].ans = "anonymous"
      BY <1>11, <2>1, <2>2, <1>s DEF ResumeLogout
    <2>3. CASE act[t].ans # "anonymous"
      <3>1. UNCHANGED <<store, run, out>>
        BY <1>11, <2>3 DEF ResumeLogout
      <3>2. /\ act'[t].pc \in {"sent", "none"}
            /\ \A u \in Tabs \ {t} : act'[u] = act[u]
        BY <1>11, <2>3, <1>t, <1>n DEF ResumeLogout, Logout
      <3>3. QED
        BY <2>1, <3>1, <3>2, <1>r, <1>i DEF OnlyTab, NoOpening, Opening
    <2>4. QED
      BY <2>2, <2>3
  <1>12. ASSUME NEW t \in Tabs, \/ StartCall(t) \/ ServeCall(t) \/ DropStaleEvent(t)
        PROVE  TabMove(t)
    BY <1>12, <1>r, <1>i DEF StartCall, ServeCall, DropStaleEvent, OnlyTab, NoOpening
  <1>13. ASSUME NEW t \in Tabs, CompleteCall(t)
        PROVE  TabMove(t)
    <2>1. UNCHANGED <<row, jar, act, lock, orphans, strayed, out>>
      BY <1>13 DEF CompleteCall
    <2>2. /\ store'[t].sid = store[t].sid /\ \A u \in Tabs \ {t} : store'[u] = store[u]
          /\ run'[t] \in {run[t], Superseded(run[t])}
          /\ \A u \in Tabs \ {t} : run'[u] = run[u]
      BY <1>13, StoreMoves DEF CompleteCall
    <2>3. QED
      BY <2>1, <2>2, <1>r, <1>i DEF OnlyTab, NoOpening
  <1>14. ASSUME NEW t \in Tabs, RefuseCall(t)
        PROVE  TabMove(t)
    <2>1. UNCHANGED <<row, jar, store, act, lock, orphans, strayed, out>>
      BY <1>14 DEF RefuseCall
    <2>2. OnlyTab(t) /\ run'[t] = Refreshing(t, run[t])
      BY <1>14, <2>1, <1>t DEF RefuseCall, OnlyTab
    <2>3. Idle(t) \/ Ask(t)
      BY <2>1, <2>2, <1>r, RefreshingMoves DEF Idle, Ask, NoOpening
    <2>4. QED
      BY <2>2, <2>3 DEF TabMove
  <1>15. ASSUME NEW t \in Tabs, Unload(t), UNCHANGED <<row, jar, out>>
        PROVE  TabMove(t)
    BY <1>15, <1>t DEF TabMove, Gone, Unload, OnlyTab
  <1>16. ASSUME NEW t \in Tabs, RedirectRefused(t) \/ Reload(t)
        PROVE  TabMove(t)
    BY <1>16, <1>15 DEF RedirectRefused, Reload
  <1>17. ASSUME NEW t \in Tabs, ClearRefused(t)
        PROVE  TabMove(t)
    BY <1>17, <1>l, StoreMoves DEF ClearRefused, OnlyTab, NoOpening
  <1>18. ASSUME NEW t \in Tabs, ResumeCall(t)
        PROVE  TabMove(t)
    <2>1. CASE Unload(t)
      BY <1>18, <2>1, <1>15 DEF ResumeCall
    <2>2. CASE ~Unload(t)
      <3>1. UNCHANGED <<row, jar, store, run, act, lock, orphans, strayed, out>>
        BY <1>18, <2>2 DEF ResumeCall
      <3>2. QED
        BY <3>1, <1>r, <1>i DEF OnlyTab, NoOpening
    <2>3. QED
      BY <2>1, <2>2
  <1>19. ASSUME NEW t \in Tabs, DeliverSignedOut(t)
        PROVE  TabMove(t)
    <2>1. UNCHANGED <<row, jar, act, lock, orphans, strayed, out>>
      BY <1>19 DEF DeliverSignedOut
    <2>2. CASE UNCHANGED <<store, run>>
      BY <2>1, <2>2, <1>r, <1>i DEF OnlyTab, NoOpening
    <2>3. CASE Reset(t, "complete") /\ Supersede(t)
      BY <2>1, <2>3, <1>l, StoreMoves DEF OnlyTab, NoOpening
    <2>4. QED
      BY <1>19, <2>2, <2>3 DEF DeliverSignedOut
  <1>20. ASSUME NEW t \in Tabs, DeliverAuthenticated(t)
        PROVE  TabMove(t)
    <2>1. UNCHANGED <<row, jar, out>>
      BY <1>20 DEF DeliverAuthenticated
    <2>2. CASE Unload(t)
      BY <2>1, <2>2, <1>15
    <2>3. CASE UNCHANGED <<store, run, act, lock, orphans, strayed>>
      BY <2>1, <2>3, <1>r, <1>i DEF OnlyTab, NoOpening
    <2>4. QED
      BY <1>20, <2>2, <2>3 DEF DeliverAuthenticated
  <1>21. ASSUME NEW t \in Tabs, Expire(t)
        PROVE  TabMove(t)
    <2>1. store'[t].sid = store[t].sid /\ \A u \in Tabs \ {t} : store'[u] = store[u]
      BY <1>21, <1>t DEF Expire, Store
    <2>2. QED
      BY <1>21, <2>1, <1>r, <1>i DEF Expire, OnlyTab, NoOpening
  <1>22. ASSUME NEW s \in Sids, CloseReplayWindow(s) \/ RevokeElsewhere(s)
        PROVE  RowMove
    <2>1. CASE CloseReplayWindow(s)
      <3>1. RowsKept
        BY <2>1 DEF CloseReplayWindow, RowsKept, WebTypeOK, Row
      <3>2. QED
        BY <2>1, <3>1 DEF CloseReplayWindow, RowMove, pages
    <2>2. CASE RevokeElsewhere(s)
      <3>1. RowsKept
        BY <2>2, RevokedKeeps DEF RevokeElsewhere, SidOrNone
      <3>2. QED
        BY <2>2, <3>1 DEF RevokeElsewhere, RowMove, pages
    <2>3. QED
      BY <1>22, <2>1, <2>2
  <1>23. CASE UNCHANGED vars
    BY <1>23, <1>r DEF vars, RowMove
  <1> QED
    BY <1>1, <1>2, <1>3, <1>4, <1>5, <1>6, <1>7, <1>8, <1>9, <1>10, <1>11, <1>12, <1>13,
       <1>14, <1>16, <1>17, <1>18, <1>19, <1>20, <1>21, <1>22, <1>23
       DEF Next, FinishAct, FinishCall

-----------------------------------------------------------------------------
(* The session a tab shows                                                 *)

\* A refresh the server grants was expected and is of a live session; nothing
\* else of the tab changes (RefreshAuth).
LEMMA ServedRefresh ==
    ASSUME WebTypeOK, NEW t \in Tabs, ServeRefresh(t) \/ FailRefresh(t)
    PROVE  /\ run[t].pc = "sent"
           /\ run'[t].pc = "answered" /\ run'[t].cur = run[t].cur
           /\ run'[t].sid = run[t].sid /\ run'[t].ck = run[t].ck
           /\ Granted(t)' => /\ Live(run[t].ck) /\ run[t].ck.sid \in Sids
                             /\ Expected(run[t].sid, run[t].ck)
           /\ UNCHANGED <<jar, store, act, lock, orphans, out>>
  <1>1. run[t] \in Run /\ run[t].ck.sid \in SidOrNone
    BY DEF WebTypeOK, Run, Cookies
  <1>2. CASE FailRefresh(t)
    BY <1>1, <1>2 DEF FailRefresh, WebTypeOK, Run, Granted
  <1>3. CASE ServeRefresh(t)
    <2>1. PICK ans \in RefreshAnswer(run[t].sid, run[t].ck), lost \in BOOLEAN :
            run' = [run EXCEPT ![t].pc = "answered",
                               ![t].ans = IF lost THEN "error" ELSE ans]
      BY <1>3 DEF ServeRefresh
    <2>2. ans = "ok" => Rotates(run[t].sid, run[t].ck)
      BY DEF RefreshAnswer
    <2>3. /\ run'[t].pc = "answered" /\ run'[t].cur = run[t].cur
          /\ run'[t].sid = run[t].sid /\ run'[t].ck = run[t].ck
          /\ run'[t].ans = IF lost THEN "error" ELSE ans
      BY <1>1, <2>1 DEF WebTypeOK, Run
    <2>4. Granted(t)' => ans = "ok"
      BY <2>3 DEF Granted
    <2>5. QED
      BY <1>1, <1>3, <2>2, <2>3, <2>4 DEF ServeRefresh, Rotates, Live, SidOrNone
  <1>4. QED
    BY <1>2, <1>3

\* What superseding leaves alone.
LEMMA SupersededKeeps ==
    ASSUME WebTypeOK, NEW t \in Tabs
    PROVE  /\ Superseded(run[t]).cur = FALSE
           /\ Superseded(run[t]).pc = run[t].pc /\ Superseded(run[t]).sid = run[t].sid
           /\ Superseded(run[t]).ck = run[t].ck /\ Superseded(run[t]).ans = run[t].ans
  BY DEF Superseded, WebTypeOK, Run

\* A sign-in that is handled shows the session it was answered with.
LEMMA HandledLogin ==
    ASSUME WebTypeOK, NEW t \in Tabs, HandleLogin(t)
    PROVE  /\ act'[t] = NoAct
           /\ \/ /\ Opening(t) /\ jar' = act[t].ck /\ store'[t].sid = act[t].ck.sid
                 /\ run'[t] = Superseded(run[t])
              \/ UNCHANGED <<jar, store, run>>
           /\ UNCHANGED <<row, lock, orphans, strayed, out>>
  <1>1. act'[t] = NoAct
    BY DEF HandleLogin, WebTypeOK
  <1>2. CASE act[t].ans = "ok"
    BY <1>1, <1>2, StoreMoves DEF HandleLogin, Opening
  <1>3. CASE act[t].ans # "ok"
    BY <1>1, <1>3 DEF HandleLogin
  <1>4. QED
    BY <1>2, <1>3

\* A sign-in that is served adds one session that did not exist, or none.
LEMMA ServedLogin ==
    ASSUME WebTypeOK, NEW t \in Tabs, ServeLogin(t)
    PROVE  /\ ~Opening(t)
           /\ \/ /\ Opening(t)' /\ act'[t].ck.sid \in Sids /\ act'[t].ck.gen = 1
                 /\ row[act'[t].ck.sid].st = "none"
                 /\ row' = [row EXCEPT ![act'[t].ck.sid] = NewRow]
              \/ ~Opening(t)' /\ UNCHANGED row
           /\ UNCHANGED <<jar, store, run, lock, orphans, strayed, out>>
  <1>1. act[t] \in Act /\ ~Opening(t)
    BY DEF WebTypeOK, ServeLogin, Opening
  <1>2. ASSUME NEW s \in Sids, row[s].st = "none", row' = [row EXCEPT ![s] = NewRow],
               act' = [act EXCEPT ![t].pc = "answered", ![t].ans = "ok",
                                  ![t].ck = [sid |-> s, gen |-> 1]]
        PROVE  /\ Opening(t)' /\ act'[t].ck.sid \in Sids /\ act'[t].ck.gen = 1
               /\ row[act'[t].ck.sid].st = "none"
               /\ row' = [row EXCEPT ![act'[t].ck.sid] = NewRow]
    <2>1. act'[t].ck = [sid |-> s, gen |-> 1] /\ act'[t].op = act[t].op
          /\ act'[t].pc = "answered" /\ act'[t].ans = "ok"
      BY <1>1, <1>2 DEF WebTypeOK, Act
    <2>2. act'[t].ck.sid = s /\ act'[t].ck.gen = 1
      BY <2>1
    <2>3. QED
      BY <1>2, <2>1, <2>2 DEF Opening, ServeLogin
  <1>3. ASSUME act' = [act EXCEPT ![t].pc = "answered", ![t].ans = "error"]
        PROVE  ~Opening(t)'
    BY <1>1, <1>3 DEF WebTypeOK, Act, Opening
  <1>4. QED
    BY <1>1, <1>2, <1>3 DEF ServeLogin

\* A current refresh stays one of the session the tab shows.
LEMMA RunInvKept ==
    ASSUME WebTypeOK, LockInv, RunInv, [Next]_vars
    PROVE  RunInv'
  <1> DEFINE Good(u) ==
        /\ Asked(u) /\ run[u].cur => run[u].sid = store[u].sid
        /\ Granted(u) => run[u].ck.sid \in Sids /\ Expected(run[u].sid, run[u].ck)
  <1>1. \A u \in Tabs : Good(u)
    BY DEF RunInv
  <1>2. ASSUME NEW u \in Tabs, run'[u] = run[u], store'[u].sid = store[u].sid
        PROVE  Good(u)'
    BY <1>1, <1>2 DEF Asked, Granted, Expected
  <1>3. CASE RowMove \/ ServeOrphan
    <2>1. UNCHANGED <<run, store>>
      BY <1>3 DEF RowMove, ServeOrphan, pages
    <2>2. QED
      BY <2>1, <1>2 DEF RunInv
  <1>4. ASSUME NEW t \in Tabs, TabMove(t)
        PROVE  RunInv'
    <2>1. \A u \in Tabs \ {t} : Good(u)'
      BY <1>2, <1>4 DEF TabMove, OnlyTab
    <2> SUFFICES Good(t)'
      BY <2>1 DEF RunInv
    <2>s. run'[t] = Superseded(run[t]) => Good(t)'
      BY <1>1, SupersededKeeps DEF Asked, Granted, Expected
    <2>n. ~Asked(t)' => Good(t)'
      BY DEF Asked, Granted
    <2>2. CASE Idle(t)
      BY <2>2, <1>2, <2>s, <2>n DEF Idle
    <2>3. CASE Leave(t)
      BY <2>3, <2>s DEF Leave
    <2>4. CASE Ask(t)
      BY <2>4 DEF Ask, Request, Granted
    <2>5. CASE End(t) \/ Gone(t)
      <3>1. run'[t] = NoRun
        BY <2>5 DEF End, Gone, Unload, WebTypeOK
      <3>2. QED
        BY <3>1, <2>n DEF NoRun, Asked
    <2>6. CASE ServeRefresh(t) \/ FailRefresh(t)
      BY <2>6, <1>1, ServedRefresh DEF Asked, Expected
    <2>7. CASE ServeLogin(t)
      BY <2>7, <1>2, ServedLogin
    <2>8. CASE HandleLogin(t)
      BY <2>8, <1>2, <2>s, HandledLogin
    <2>9. QED
      BY <1>4, <2>2, <2>3, <2>4, <2>5, <2>6, <2>7, <2>8 DEF TabMove
  <1>5. QED
    BY <1>3, <1>4, NextMoves

\* What a refresh does to the rows (RefreshLoginSession): the session of the
\* cookie gets a new generation, or is revoked for the reuse of the old one.
LEMMA RefreshRows ==
    ASSUME WebTypeOK, NEW sid \in SidOrNone, NEW ck \in Cookies,
           NEW ans \in RefreshAnswer(sid, ck), row' = RefreshedRow(sid, ck, ans),
           NEW s \in Sids
    PROVE  /\ row'[s].st = row[s].st \/ (row[s].st = "active" /\ row'[s].st = "revoked")
           /\ \/ row'[s].gen = row[s].gen
              \/ /\ ans = "ok" /\ Current(ck) /\ ck.sid = s
                 /\ row'[s].gen = row[s].gen + 1
           /\ ans = "ok" /\ Current(ck) /\ ck.sid = s => row'[s].gen = row[s].gen + 1
           /\ \/ row'[s].why = row[s].why
              \/ row'[s].why = "reuse" /\ ck.sid = s /\ Reuses(sid, ck)
  <1>1. row \in [Sids -> Row] /\ row[s] \in Row
    BY DEF WebTypeOK
  <1>2. CASE ans = "ok" /\ Current(ck)
    <2>1. row' = [row EXCEPT ![ck.sid].gen = @ + 1, ![ck.sid].replay = TRUE]
      BY <1>2 DEF RefreshedRow
    <2>2. CASE ck.sid = s
      <3>1. row'[s] = [row[s] EXCEPT !.gen = row[s].gen + 1, !.replay = TRUE]
        BY <1>1, <2>1, <2>2
      <3>2. /\ row'[s].gen = row[s].gen + 1
            /\ row'[s].st = row[s].st /\ row'[s].why = row[s].why
        BY <1>1, <3>1 DEF Row
      <3>3. QED
        BY <1>2, <2>2, <3>2
    <2>3. CASE ck.sid # s
      <3>1. row'[s] = row[s]
        BY <1>1, <2>1, <2>3
      <3>2. QED
        BY <2>3, <3>1
    <2>4. QED
      BY <2>2, <2>3
  <1>3. CASE ~(ans = "ok" /\ Current(ck)) /\ ans = "unauth" /\ Reuses(sid, ck)
    <2>1. row' = [row EXCEPT ![ck.sid].st = "revoked", ![ck.sid].why = "reuse"]
      BY <1>3 DEF RefreshedRow
    <2>2. CASE ck.sid = s
      <3>1. row'[s].st = "revoked" /\ row'[s].gen = row[s].gen /\ row'[s].why = "reuse"
        BY <1>1, <2>1, <2>2 DEF Row
      <3>2. row[s].st = "active"
        BY <1>3, <2>2 DEF Reuses, Live
      <3>3. QED
        BY <1>3, <2>2, <3>1, <3>2
    <2>3. CASE ck.sid # s
      <3>1. row'[s] = row[s]
        BY <1>1, <2>1, <2>3
      <3>2. QED
        BY <2>3, <3>1
    <2>4. QED
      BY <2>2, <2>3
  <1>4. CASE ~(ans = "ok" /\ Current(ck)) /\ ~(ans = "unauth" /\ Reuses(sid, ck))
    BY <1>4 DEF RefreshedRow
  <1>5. QED
    BY <1>2, <1>3, <1>4

\* A session, once it exists, is revoked for good.
LEMMA RowsOnlyEnd ==
    ASSUME WebTypeOK, LockInv, [Next]_vars, NEW s \in Sids
    PROVE  /\ row[s].st = "revoked" => row'[s].st = "revoked"
           /\ row[s].st # "none" => row'[s].st # "none"
  <1> DEFINE Goal == /\ row[s].st = "revoked" => row'[s].st = "revoked"
                     /\ row[s].st # "none" => row'[s].st # "none"
  <1> SUFFICES Goal
    OBVIOUS
  <1>1. RowsKept => Goal
    BY DEF RowsKept
  <1>2. row' = row => Goal
    OBVIOUS
  <1>3. CASE ServeOrphan
    <2>1. PICK o \in orphans :
            \/ \E ans \in RefreshAnswer(o.sid, o.ck) : row' = RefreshedRow(o.sid, o.ck, ans)
            \/ row' \in {row, LoggedOutRow(o.sid, o.tok, o.ck)}
      BY <1>3 DEF ServeOrphan
    <2>2. o.sid \in SidOrNone /\ o.ck \in Cookies
      BY DEF WebTypeOK, Orphan
    <2>3. QED
      BY <1>1, <2>1, <2>2, RefreshRows, LogoutKeeps
  <1>4. ASSUME NEW t \in Tabs, TabMove(t)
        PROVE  Goal
    <2>1. CASE ServeRefresh(t)
      <3>1. PICK ans \in RefreshAnswer(run[t].sid, run[t].ck) :
              row' = RefreshedRow(run[t].sid, run[t].ck, ans)
        BY <2>1 DEF ServeRefresh
      <3>2. run[t].sid \in SidOrNone /\ run[t].ck \in Cookies
        BY DEF WebTypeOK, Run
      <3>3. QED
        BY <3>1, <3>2, RefreshRows
    <2>2. CASE ServeLogin(t)
      <3>1. CASE row' = row
        BY <3>1
      <3>2. CASE row[act'[t].ck.sid].st = "none" /\ row' = [row EXCEPT ![act'[t].ck.sid] = NewRow]
        BY <3>2 DEF WebTypeOK, NewRow, NoRow
      <3>3. QED
        BY <2>2, <3>1, <3>2, ServedLogin
    <2>3. CASE HandleLogin(t) \/ FailRefresh(t) \/ Leave(t) \/ Ask(t) \/ End(t) \/ Gone(t)
      BY <2>3, <1>2 DEF HandleLogin, FailRefresh, Leave, Ask, End, Gone
    <2>4. CASE Idle(t)
      BY <2>4, <1>1 DEF Idle
    <2>5. QED
      BY <1>4, <2>1, <2>2, <2>3, <2>4 DEF TabMove
  <1>5. CASE RowMove
    BY <1>5, <1>1 DEF RowMove
  <1> HIDE DEF Goal
  <1>6. QED
    BY <1>3, <1>4, <1>5, NextMoves

\* A session a tab is out of stays out of it.
LEMMA OutInvKept ==
    ASSUME WebTypeOK, LockInv, OutInv, [Next]_vars
    PROVE  OutInv'
  <1> DEFINE Good(u, s) ==
        /\ store[u].sid # s
        /\ Granted(u) /\ run[u].cur => run[u].ck.sid # s
        /\ Opening(u) => act[u].ck.sid # s
  <1>1. \A u \in Tabs : \A s \in out[u] : Good(u, s) /\ row[s].st = "revoked" /\ s \in Sids
    BY DEF OutInv, WebTypeOK
  <1>2. \A s \in Sids : row[s].st = "revoked" => row'[s].st = "revoked"
    BY RowsOnlyEnd
  <1>3. ASSUME NEW u \in Tabs, run'[u] = run[u], store'[u].sid = store[u].sid,
               act'[u] = act[u] \/ ~Opening(u)', out'[u] = out[u]
        PROVE  \A s \in out'[u] : Good(u, s)' /\ row'[s].st = "revoked"
    BY <1>1, <1>2, <1>3 DEF Granted, Opening
  <1>4. CASE RowMove \/ ServeOrphan
    <2>1. UNCHANGED <<run, store, act, out>>
      BY <1>4 DEF RowMove, ServeOrphan, pages
    <2>2. QED
      BY <2>1, <1>3 DEF OutInv
  <1>5. ASSUME NEW t \in Tabs, TabMove(t)
        PROVE  OutInv'
    <2>1. \A u \in Tabs \ {t} : \A s \in out'[u] : Good(u, s)' /\ row'[s].st = "revoked"
      BY <1>3, <1>5 DEF TabMove, OnlyTab
    <2> SUFFICES \A s \in out'[t] : Good(t, s)' /\ row'[s].st = "revoked"
      BY <2>1 DEF OutInv
    <2>c. ASSUME NEW s \in out[t], store'[t].sid \in {store[t].sid, None},
                 run'[t].cur => ~Granted(t)' \/ run'[t] = run[t], NoOpening(t)
          PROVE  Good(t, s)' /\ row'[s].st = "revoked"
      BY <2>c, <1>1, <1>2, WebAssumption DEF NoOpening, Opening, Granted
    <2>2. CASE Idle(t)
      <3>1. out'[t] = out[t]
        BY <2>2 DEF Idle
      <3>2. run'[t].cur => ~Granted(t)' \/ run'[t] = run[t]
        BY <2>2, SupersededKeeps DEF Idle, Asked, Granted
      <3>3. QED
        BY <2>2, <2>c, <3>1, <3>2 DEF Idle
    <2>3. CASE Leave(t)
      <3>1. ~run'[t].cur /\ store'[t].sid = None /\ row' = row
        BY <2>3, SupersededKeeps DEF Leave
      <3>2. ASSUME NEW s \in out'[t], s \notin out[t]
            PROVE  Good(t, s)' /\ row'[s].st = "revoked"
        BY <2>3, <3>1, <3>2, WebAssumption DEF Leave
      <3>3. ASSUME NEW s \in out[t]
            PROVE  Good(t, s)' /\ row'[s].st = "revoked"
        BY <2>3, <3>1, <2>c DEF Leave
      <3>4. QED
        BY <3>2, <3>3
    <2>4. CASE Ask(t)
      <3>1. out'[t] = out[t] /\ ~Granted(t)'
        BY <2>4 DEF Ask, Request, Granted
      <3>2. QED
        BY <2>4, <2>c, <3>1 DEF Ask
    <2>5. CASE End(t)
      <3>1. out'[t] = out[t] /\ ~Granted(t)' /\ NoOpening(t)
        BY <2>5 DEF End, NoRun, Granted
      <3>2. CASE store'[t].sid \in {store[t].sid, None}
        BY <2>c, <3>1, <3>2
      <3>3. CASE Granted(t) /\ run[t].cur /\ store'[t].sid = run[t].ck.sid
        BY <1>1, <1>2, <3>1, <3>3 DEF NoOpening, Opening
      <3>4. QED
        BY <2>5, <3>2, <3>3 DEF End
    <2>6. CASE Gone(t)
      <3>1. /\ store'[t] = Blank /\ run'[t] = NoRun /\ act'[t] = NoAct /\ out'[t] = out[t]
        BY <2>6 DEF Gone, Unload, WebTypeOK
      <3>2. store'[t].sid = None /\ ~Granted(t)' /\ ~Opening(t)'
        BY <3>1 DEF Blank, NoRun, NoAct, Granted, Opening
      <3>3. QED
        BY <2>c, <3>1, <3>2 DEF NoOpening
    <2>7. CASE ServeRefresh(t) \/ FailRefresh(t)
      <3>1. /\ UNCHANGED <<store, act, out>> /\ run'[t].ck = run[t].ck
            /\ Granted(t)' => run[t].ck.sid \in Sids /\ row[run[t].ck.sid].st = "active"
        BY <2>7, ServedRefresh DEF Live
      <3>2. QED
        BY <1>1, <1>2, <3>1 DEF Opening
    <2>8. CASE ServeLogin(t)
      <3>1. UNCHANGED <<store, run, out>> /\ (Opening(t)' => row[act'[t].ck.sid].st = "none")
        BY <2>8, ServedLogin
      <3>2. QED
        BY <1>1, <1>2, <3>1 DEF Granted
    <2>9. CASE HandleLogin(t)
      <3>1. UNCHANGED out /\ ~Opening(t)'
        BY <2>9, HandledLogin DEF NoAct, Opening
      <3>2. CASE UNCHANGED <<store, run>>
        BY <1>3, <3>1, <3>2
      <3>3. CASE Opening(t) /\ store'[t].sid = act[t].ck.sid /\ run'[t] = Superseded(run[t])
        BY <1>1, <1>2, <3>1, <3>3, SupersededKeeps
      <3>4. QED
        BY <2>9, <3>2, <3>3, HandledLogin
    <2>10. QED
      BY <1>5, <2>2, <2>3, <2>4, <2>5, <2>6, <2>7, <2>8, <2>9 DEF TabMove
  <1>6. QED
    BY <1>4, <1>5, NextMoves

-----------------------------------------------------------------------------
(* The cookie and its secret                                               *)

\* What an unloaded page leaves behind is strayed.
LEMMA GoneStrays ==
    ASSUME WebTypeOK, NEW t \in Tabs, Gone(t)
    PROVE  /\ run'[t] = NoRun /\ act'[t] = NoAct
           /\ strayed \subseteq strayed'
           /\ Asked(t) /\ run[t].ck.sid # None => run[t].ck.sid \in strayed'
           /\ \A o \in orphans' \ orphans :
                o.op = "refresh" /\ o.ck.sid # None => o.ck.sid \in strayed'
           /\ UNCHANGED <<row, jar, out>>
           /\ lock' = IF lock = t THEN None ELSE lock
  <1>1. run[t].ck.sid \in SidOrNone
    BY DEF WebTypeOK, Run, Cookies
  <1>2. Asked(t) /\ run[t].ck.sid # None => run[t].ck.sid \in strayed'
    BY <1>1 DEF Gone, Unload, Asked, SidOrNone
  <1>3. ASSUME NEW o \in orphans' \ orphans, o.op = "refresh"
        PROVE  o.ck = run[t].ck /\ Asked(t)
    <2>1. o \in Abandoned(t)
      BY DEF Gone, Unload
    <2>2. o.ck = run[t].ck /\ run[t].pc = "sent"
      BY <2>1, <1>3 DEF Abandoned
    <2>3. QED
      BY <2>2 DEF Asked
  <1>4. run'[t] = NoRun /\ act'[t] = NoAct
    BY DEF Gone, Unload, WebTypeOK
  <1>5. QED
    BY <1>2, <1>3, <1>4 DEF Gone, Unload

\* Only the holder of the lock asks, and orphaned refreshes are strayed.
LEMMA LockInvKept ==
    ASSUME WebTypeOK, LockInv, [Next]_vars
    PROVE  LockInv'
  <1> DEFINE Held == Locks => \A u \in Tabs : Asked(u) => lock = u
  <1> DEFINE Counted ==
        \A o \in orphans : o.op = "refresh" /\ o.ck.sid # None => o.ck.sid \in strayed
  <1>1. Held /\ Counted
    BY DEF LockInv
  <1>2. ASSUME orphans' \subseteq orphans, strayed \subseteq strayed'
        PROVE  Counted'
    BY <1>1, <1>2
  <1>3. CASE RowMove \/ ServeOrphan
    <2>1. UNCHANGED <<run, lock, strayed>> /\ orphans' \subseteq orphans
      BY <1>3 DEF RowMove, ServeOrphan, pages
    <2>2. QED
      BY <2>1, <1>1, <1>2 DEF LockInv, Asked
  <1>4. ASSUME NEW t \in Tabs, TabMove(t)
        PROVE  LockInv'
    <2>1. \A u \in Tabs \ {t} : Asked(u)' <=> Asked(u)
      BY <1>4 DEF TabMove, OnlyTab, Asked
    <2>k. ASSUME Asked(t)' => Asked(t), UNCHANGED <<lock, orphans>>, strayed \subseteq strayed'
          PROVE  LockInv'
      BY <2>k, <2>1, <1>1, <1>2 DEF LockInv
    <2>e. ASSUME ~Asked(t)', lock' = IF lock = t THEN None ELSE lock
          PROVE  Held'
      BY <2>e, <2>1, <1>1
    <2>2. CASE Idle(t)
      <3>1. Asked(t)' => Asked(t)
        BY <2>2, SupersededKeeps DEF Idle, Asked
      <3>2. QED
        BY <2>2, <2>k, <3>1 DEF Idle
    <2>3. CASE Leave(t)
      <3>1. Asked(t)' => Asked(t)
        BY <2>3, SupersededKeeps DEF Leave, Asked
      <3>2. QED
        BY <2>3, <2>k, <3>1 DEF Leave
    <2>4. CASE Ask(t)
      <3>1. Counted'
        BY <2>4, <1>2 DEF Ask
      <3>2. Held'
        BY <2>4, <2>1, <1>1, WebAssumption DEF Ask
      <3>3. QED
        BY <3>1, <3>2 DEF LockInv
    <2>5. CASE End(t)
      <3>1. ~Asked(t)'
        BY <2>5 DEF End, NoRun, Asked
      <3>2. Held'
        BY <2>5, <3>1, <2>e DEF End
      <3>3. Counted'
        BY <2>5, <1>2 DEF End
      <3>4. QED
        BY <3>2, <3>3 DEF LockInv
    <2>6. CASE Gone(t)
      <3>1. ~Asked(t)'
        BY <2>6, GoneStrays DEF NoRun, Asked
      <3>2. Held'
        BY <2>6, <3>1, <2>e, GoneStrays
      <3>3. Counted'
        BY <2>6, <1>1, GoneStrays
      <3>4. QED
        BY <3>2, <3>3 DEF LockInv
    <2>7. CASE ServeRefresh(t) \/ FailRefresh(t)
      <3>1. Asked(t) /\ UNCHANGED <<lock, orphans>>
        BY <2>7, ServedRefresh DEF Asked
      <3>2. strayed \subseteq strayed'
        BY <2>7 DEF ServeRefresh, FailRefresh
      <3>3. QED
        BY <2>k, <3>1, <3>2
    <2>8. CASE ServeLogin(t)
      <3>1. UNCHANGED <<run, lock, orphans, strayed>>
        BY <2>8, ServedLogin
      <3>2. QED
        BY <3>1, <2>k DEF Asked
    <2>9. CASE HandleLogin(t)
      <3>1. Asked(t)' => Asked(t)
        BY <2>9, HandledLogin, SupersededKeeps DEF Asked
      <3>2. QED
        BY <2>9, <3>1, <2>k, HandledLogin
    <2>10. QED
      BY <1>4, <2>2, <2>3, <2>4, <2>5, <2>6, <2>7, <2>8, <2>9 DEF TabMove
  <1>5. QED
    BY <1>3, <1>4, NextMoves

\* Cookies stay cookies of sessions that exist.
LEMMA KnownInvKept ==
    ASSUME WebTypeOK, LockInv, KnownInv, [Next]_vars
    PROVE  KnownInv'
  <1> DEFINE Known(sid) == sid # None => row[sid].st # "none"
  <1> DEFINE Good(u) == /\ Asked(u) => Known(run[u].ck.sid)
                        /\ Opening(u) => act[u].ck.sid \in Sids /\ Known(act[u].ck.sid)
  <1>1. Known(jar.sid) /\ \A u \in Tabs : Good(u)
    BY DEF KnownInv
  <1>t. /\ jar.sid \in SidOrNone
        /\ \A u \in Tabs : run[u].ck.sid \in SidOrNone /\ act[u].ck.sid \in SidOrNone
    BY DEF WebTypeOK, Run, Act, Cookies
  <1>2. \A sid \in SidOrNone : Known(sid) => (sid # None => row'[sid].st # "none")
    BY RowsOnlyEnd DEF SidOrNone
  <1> DEFINE KnownNext(sid) == sid # None => row'[sid].st # "none"
  <1> DEFINE GoodNext(u) == /\ Asked(u)' => KnownNext(run'[u].ck.sid)
                            /\ Opening(u)' => act'[u].ck.sid \in Sids /\ KnownNext(act'[u].ck.sid)
  <1> SUFFICES KnownNext(jar'.sid) /\ \A u \in Tabs : GoodNext(u)
    BY WebAssumption DEF KnownInv
  <1>j. jar' \in {jar, NoCookie} => KnownNext(jar'.sid)
    BY <1>1, <1>2, <1>t DEF NoCookie
  <1>3. ASSUME NEW u \in Tabs, Asked(u)' => run'[u].ck = jar \/ (Asked(u) /\ run'[u].ck = run[u].ck),
               act'[u] = act[u] \/ ~Opening(u)'
        PROVE  GoodNext(u)
    <2>1. Asked(u)' => KnownNext(run'[u].ck.sid)
      BY <1>1, <1>2, <1>3, <1>t
    <2>2. Opening(u)' => act'[u].ck.sid \in Sids /\ KnownNext(act'[u].ck.sid)
      <3>1. CASE act'[u] = act[u]
        <4>1. Opening(u)' => Opening(u)
          BY <3>1 DEF Opening
        <4>2. QED
          BY <3>1, <4>1, <1>1, <1>2, <1>t
      <3>2. QED
        BY <1>3, <3>1
    <2>3. QED
      BY <2>1, <2>2
  <1> HIDE DEF Known, Good, KnownNext, GoodNext
  <1>4. CASE RowMove \/ ServeOrphan
    <2>1. UNCHANGED <<jar, run, act>>
      BY <1>4 DEF RowMove, ServeOrphan, pages
    <2>2. QED
      BY <2>1, <1>3, <1>j DEF Asked
  <1>5. ASSUME NEW t \in Tabs, TabMove(t)
        PROVE  KnownNext(jar'.sid) /\ \A u \in Tabs : GoodNext(u)
    <2>1. \A u \in Tabs \ {t} : GoodNext(u)
      BY <1>3, <1>5 DEF TabMove, OnlyTab, Asked
    <2> SUFFICES KnownNext(jar'.sid) /\ GoodNext(t)
      BY <2>1
    <2>2. CASE Idle(t)
      <3>1. Asked(t)' => Asked(t) /\ run'[t].ck = run[t].ck
        BY <2>2, SupersededKeeps DEF Idle, Asked
      <3>2. QED
        BY <2>2, <3>1, <1>j, <1>3 DEF Idle, NoOpening
    <2>3. CASE Leave(t)
      BY <2>3, <1>j, <1>3, SupersededKeeps DEF Leave, NoOpening, Asked
    <2>4. CASE Ask(t)
      <3>1. run'[t].ck = jar
        BY <2>4 DEF Ask, Request
      <3>2. QED
        BY <2>4, <3>1, <1>j, <1>3 DEF Ask, NoOpening
    <2>5. CASE End(t)
      <3>1. ~Asked(t)' /\ Asked(t)
        BY <2>5 DEF End, NoRun, Asked
      <3>2. GoodNext(t)
        BY <2>5, <3>1, <1>3 DEF End, NoOpening
      <3>3. jar'.sid \in {jar.sid, None, run[t].ck.sid}
        BY <2>5 DEF End, ApplyCookie, NoCookie
      <3>4. QED
        BY <3>1, <3>2, <3>3, <1>1, <1>2, <1>t DEF Good, KnownNext
    <2>6. CASE Gone(t)
      <3>1. ~Asked(t)' /\ ~Opening(t)' /\ jar' = jar
        BY <2>6, GoneStrays DEF NoRun, NoAct, Asked, Opening
      <3>2. QED
        BY <3>1, <1>3, <1>j
    <2>7. CASE ServeRefresh(t) \/ FailRefresh(t)
      BY <2>7, <1>3, <1>j, ServedRefresh DEF Asked
    <2>8. CASE ServeLogin(t)
      <3>1. UNCHANGED <<jar, run>>
        BY <2>8, ServedLogin
      <3>2. CASE ~Opening(t)'
        BY <3>1, <3>2, <1>3, <1>j DEF Asked
      <3>3. CASE /\ Opening(t)' /\ act'[t].ck.sid \in Sids
                 /\ row' = [row EXCEPT ![act'[t].ck.sid] = NewRow]
        <4>1. KnownNext(act'[t].ck.sid)
          BY <3>3 DEF WebTypeOK, NewRow, NoRow, KnownNext
        <4>2. Asked(t)' => KnownNext(run'[t].ck.sid)
          BY <3>1, <1>1, <1>2, <1>t DEF Good, KnownNext, Asked
        <4>3. QED
          BY <3>1, <3>3, <4>1, <4>2, <1>j DEF GoodNext
      <3>4. QED
        BY <2>8, <3>2, <3>3, ServedLogin
    <2>9. CASE HandleLogin(t)
      <3>1. ~Opening(t)' /\ (Asked(t)' => Asked(t) /\ run'[t].ck = run[t].ck)
        <4>1. act'[t] = NoAct /\ run'[t] \in {run[t], Superseded(run[t])}
          BY <2>9, HandledLogin
        <4>2. ~Opening(t)'
          BY <4>1 DEF NoAct, Opening
        <4>3. QED
          BY <4>1, <4>2, SupersededKeeps DEF Asked
      <3>2. KnownNext(jar'.sid)
        BY <2>9, HandledLogin, <1>1, <1>2, <1>j, <1>t DEF Good, KnownNext
      <3>3. QED
        BY <3>1, <3>2, <1>3
    <2>10. QED
      BY <1>5, <2>2, <2>3, <2>4, <2>5, <2>6, <2>7, <2>8, <2>9 DEF TabMove
  <1>6. QED
    BY <1>4, <1>5, NextMoves

\* Steps that bring s no new cookie, request or generation keep its secret where
\* it is and current.
LEMMA SecretStays ==
    ASSUME NEW s \in Sids, SecretInv(s), s # None, jar' \in {jar, NoCookie},
           row'[s].gen = row[s].gen, row'[s].why = "reuse" => row[s].why = "reuse",
           \A u \in Tabs :
              /\ Asked(u)' /\ run'[u].ck.sid = s => Asked(u) /\ run'[u].ck = run[u].ck
              /\ run'[u].pc = "sent" /\ run'[u].ck.sid = s => run[u].pc = "sent"
              /\ Granted(u)' /\ run'[u].ck.sid = s => Granted(u)
              /\ Granted(u) /\ run[u].ck.sid = s => Granted(u)' /\ run'[u].ck = run[u].ck
              /\ Opening(u)' /\ act'[u].ck.sid = s => Opening(u) /\ act'[u].ck = act[u].ck
    PROVE  SecretInv(s)'
  <1>1. jar'.sid = s => jar' = jar
    BY DEF NoCookie
  <1>2. jar'.sid = s => \/ jar'.gen = row'[s].gen
                        \/ \E t \in Tabs : Granted(t)' /\ run'[t].ck.sid = s
    BY <1>1 DEF SecretInv
  <1>3. ASSUME NEW t \in Tabs
        PROVE  /\ run'[t].pc = "sent" /\ run'[t].ck.sid = s => run'[t].ck.gen = row'[s].gen
               /\ Granted(t)' /\ run'[t].ck.sid = s => run'[t].ck.gen + 1 = row'[s].gen
    BY DEF SecretInv, Asked, Granted
  <1>4. ASSUME NEW t \in Tabs, Opening(t)', act'[t].ck.sid = s
        PROVE  /\ act'[t].ck.gen = row'[s].gen
               /\ jar'.sid # s
               /\ \A u \in Tabs : /\ Asked(u)' => run'[u].ck.sid # s
                                  /\ Opening(u)' /\ u # t => act'[u].ck.sid # s
    <2>1. Opening(t) /\ act[t].ck = act'[t].ck
      BY <1>4
    <2>2. /\ act[t].ck.gen = row[s].gen /\ jar.sid # s
          /\ \A u \in Tabs : /\ Asked(u) => run[u].ck.sid # s
                             /\ Opening(u) /\ u # t => act[u].ck.sid # s
      BY <1>4, <2>1 DEF SecretInv
    <2>3. QED
      BY <1>1, <2>1, <2>2
  <1>5. row'[s].why # "reuse"
    BY DEF SecretInv
  <1>6. QED
    BY <1>2, <1>3, <1>4, <1>5 DEF SecretInv

\* The secret of a session that has not strayed stays where it is, and current.
LEMMA CookieInvKept ==
    ASSUME WebTypeOK, LockInv, KnownInv, CookieInv, [Next]_vars
    PROVE  CookieInv'
  <1> SUFFICES ASSUME Locks, NEW s \in Sids, s \notin strayed'
               PROVE  SecretInv(s)'
    BY DEF CookieInv
  <1>n. s # None
    BY WebAssumption
  <1>l. \A u \in Tabs : Asked(u) => lock = u
    BY DEF LockInv
  <1>c. s \notin strayed => SecretInv(s)
    BY DEF CookieInv
  <1> DEFINE Same(u) ==
        /\ Asked(u)' /\ run'[u].ck.sid = s => Asked(u) /\ run'[u].ck = run[u].ck
        /\ run'[u].pc = "sent" /\ run'[u].ck.sid = s => run[u].pc = "sent"
        /\ Granted(u)' /\ run'[u].ck.sid = s => Granted(u)
        /\ Granted(u) /\ run[u].ck.sid = s => Granted(u)' /\ run'[u].ck = run[u].ck
        /\ Opening(u)' /\ act'[u].ck.sid = s => Opening(u) /\ act'[u].ck = act[u].ck
  <1> DEFINE RowSame == /\ row'[s].gen = row[s].gen
                        /\ row'[s].why = "reuse" => row[s].why = "reuse"
  <1>k. /\ RowsKept => RowSame
        /\ row' = row => RowSame
    BY DEF RowsKept
  <1>s. ASSUME strayed' = strayed, jar' \in {jar, NoCookie}, RowSame, \A u \in Tabs : Same(u)
        PROVE  SecretInv(s)'
    BY <1>s, <1>n, <1>c, SecretStays
  <1>u. ASSUME NEW u \in Tabs, run'[u] = run[u], act'[u] = act[u] \/ ~Opening(u)'
        PROVE  Same(u)
    BY <1>u DEF Asked, Granted, Opening
  <1> HIDE DEF Same, RowSame
  <1>1. CASE RowMove
    BY <1>1, <1>k, <1>s, <1>u DEF RowMove
  <1>2. CASE ServeOrphan
    <2>1. UNCHANGED <<jar, run, act, strayed>>
      BY <1>2 DEF ServeOrphan, pages
    <2>2. PICK o \in orphans :
            \/ /\ o.op = "refresh"
               /\ \E ans \in RefreshAnswer(o.sid, o.ck) : row' = RefreshedRow(o.sid, o.ck, ans)
            \/ row' \in {row, LoggedOutRow(o.sid, o.tok, o.ck)}
      BY <1>2 DEF ServeOrphan
    <2>3. o.sid \in SidOrNone /\ o.ck \in Cookies
      BY DEF WebTypeOK, Orphan
    <2>4. RowSame
      <3>1. CASE row' \in {row, LoggedOutRow(o.sid, o.tok, o.ck)}
        BY <3>1, <2>3, <1>k, LogoutKeeps
      <3>2. ASSUME o.op = "refresh", NEW ans \in RefreshAnswer(o.sid, o.ck),
                   row' = RefreshedRow(o.sid, o.ck, ans)
            PROVE  RowSame
        <4>1. o.ck.sid # s
          BY <3>2, <2>1, <1>n DEF LockInv
        <4>2. QED
          BY <3>2, <2>3, <4>1, RefreshRows DEF RowSame
      <3>3. QED
        BY <2>2, <3>1, <3>2
    <2>5. QED
      BY <2>1, <2>4, <1>s, <1>u
  <1>3. ASSUME NEW t \in Tabs, TabMove(t)
        PROVE  SecretInv(s)'
    <2>o. \A u \in Tabs \ {t} : run'[u] = run[u] /\ act'[u] = act[u]
      BY <1>3 DEF TabMove, OnlyTab
    <2>a. \A u \in Tabs \ {t} : Same(u)
      BY <2>o, <1>u
    <2>f. ASSUME strayed' = strayed, jar' \in {jar, NoCookie}, RowSame, Same(t)
          PROVE  SecretInv(s)'
      BY <2>f, <2>a, <1>s
    <2>p. ASSUME run'[t] \in {run[t], Superseded(run[t])}, act'[t] = act[t] \/ ~Opening(t)'
          PROVE  Same(t)
      BY <2>p, SupersededKeeps DEF Same, Asked, Granted, Opening
    <2>1. CASE Idle(t)
      <3>1. CASE run'[t] \in {run[t], Superseded(run[t])}
        BY <2>1, <3>1, <2>p, <2>f, <1>k DEF Idle, NoOpening
      <3>2. CASE ~Asked(t) /\ ~Asked(t)'
        <4>1. Same(t)
          BY <2>1, <3>2 DEF Idle, NoOpening, Same, Asked, Granted, Opening
        <4>2. QED
          BY <2>1, <4>1, <2>f, <1>k DEF Idle
      <3>3. QED
        BY <2>1, <3>1, <3>2 DEF Idle
    <2>2. CASE Leave(t)
      BY <2>2, <2>p, <2>f, <1>k DEF Leave, NoOpening
    <2>3. CASE Ask(t)
      <3>1. UNCHANGED <<row, jar, strayed>> /\ run'[t].pc = "sent" /\ run'[t].ck = jar
        BY <2>3 DEF Ask, Request
      <3>2. \A u \in Tabs : ~Granted(u) /\ (u # t => ~Asked(u))
        BY <2>3, <1>l, WebAssumption DEF Ask, Asked, Granted
      <3>3. SecretInv(s) /\ (jar.sid = s => jar.gen = row[s].gen)
        BY <1>c, <3>1, <3>2 DEF SecretInv
      <3>4. \A u \in Tabs \ {t} : ~Asked(u)' /\ ~Granted(u)' /\ run'[u].pc # "sent"
        BY <2>o, <3>2 DEF Asked, Granted
      <3>5. ~Granted(t)'
        BY <3>1 DEF Granted
      <3>6. ASSUME NEW u \in Tabs, Opening(u)', act'[u].ck.sid = s
            PROVE  /\ act'[u].ck.gen = row'[s].gen /\ jar'.sid # s
                   /\ \A v \in Tabs : /\ Asked(v)' => run'[v].ck.sid # s
                                      /\ Opening(v)' /\ v # u => act'[v].ck.sid # s
        <4>1. \A v \in Tabs : Opening(v)' => Opening(v) /\ act'[v] = act[v]
          BY <2>3, <2>o DEF Ask, NoOpening, Opening
        <4>2. /\ act[u].ck.gen = row[s].gen /\ jar.sid # s
              /\ \A v \in Tabs : Opening(v) /\ v # u => act[v].ck.sid # s
          BY <3>3, <3>6, <4>1 DEF SecretInv
        <4>3. QED
          BY <3>1, <3>4, <3>6, <4>1, <4>2
      <3>7. row'[s].why # "reuse"
        BY <3>1, <3>3 DEF SecretInv
      <3>8. QED
        BY <3>1, <3>3, <3>4, <3>5, <3>6, <3>7 DEF SecretInv
    <2>4. CASE End(t)
      <3>1. UNCHANGED <<row, strayed>> /\ Asked(t) /\ lock = t
        BY <2>4, <1>l DEF End, Asked
      <3>2. \A u \in Tabs : ~Asked(u)' /\ ~Granted(u)' /\ run'[u].pc # "sent"
        BY <2>4, <2>o, <3>1, <1>l DEF End, NoRun, Asked, Granted
      <3>3. \A u \in Tabs : Granted(u) => u = t
        BY <3>1, <1>l DEF Asked, Granted
      <3>4. SecretInv(s)
        BY <1>c, <3>1
      <3>5. /\ jar'.sid = s => jar'.gen = row'[s].gen
            /\ jar'.sid \in {jar.sid, None, run[t].ck.sid}
        <4>1. CASE run[t].ans = "ok"
          <5>1. jar'.sid = run[t].ck.sid /\ jar'.gen = run[t].ck.gen + 1
            BY <2>4, <4>1 DEF End, ApplyCookie
          <5>2. Granted(t)
            BY <2>4, <4>1 DEF End, Granted
          <5>3. QED
            BY <3>1, <3>4, <5>1, <5>2 DEF SecretInv
        <4>2. CASE run[t].ans # "ok"
          <5>1. jar' \in {jar, NoCookie}
            BY <2>4, <4>2 DEF End, ApplyCookie
          <5>2. jar.sid = s => jar.gen = row[s].gen
            BY <3>3, <3>4, <4>2 DEF SecretInv, Granted
          <5>3. QED
            BY <3>1, <5>1, <5>2, <1>n DEF NoCookie
        <4>3. QED
          BY <4>1, <4>2
      <3>6. ASSUME NEW u \in Tabs, Opening(u)', act'[u].ck.sid = s
            PROVE  /\ act'[u].ck.gen = row'[s].gen /\ jar'.sid # s
                   /\ \A v \in Tabs : Opening(v)' /\ v # u => act'[v].ck.sid # s
        <4>1. \A v \in Tabs : Opening(v)' => Opening(v) /\ act'[v] = act[v]
          BY <2>4, <2>o DEF End, NoOpening, Opening
        <4>2. /\ act[u].ck.gen = row[s].gen /\ jar.sid # s /\ run[t].ck.sid # s
              /\ \A v \in Tabs : Opening(v) /\ v # u => act[v].ck.sid # s
          BY <3>1, <3>4, <3>6, <4>1 DEF SecretInv
        <4>3. QED
          BY <3>1, <3>5, <3>6, <4>1, <4>2, <1>n
      <3>7. row'[s].why # "reuse"
        BY <3>1, <3>4 DEF SecretInv
      <3>8. QED
        BY <3>2, <3>5, <3>6, <3>7 DEF SecretInv
    <2>5. CASE Gone(t)
      <3>1. /\ run'[t] = NoRun /\ act'[t] = NoAct /\ UNCHANGED <<row, jar>>
            /\ strayed \subseteq strayed'
            /\ Asked(t) /\ run[t].ck.sid # None => run[t].ck.sid \in strayed'
        BY <2>5, GoneStrays
      <3>2. ~Asked(t)' /\ ~Granted(t)' /\ run'[t].pc # "sent" /\ ~Opening(t)'
        BY <3>1 DEF NoRun, NoAct, Asked, Granted, Opening
      <3>3. ~(Granted(t) /\ run[t].ck.sid = s)
        BY <3>1, <1>n DEF Asked, Granted
      <3>4. Same(t) /\ RowSame
        BY <3>1, <3>2, <3>3, <1>k DEF Same
      <3>5. \A u \in Tabs : Same(u)
        BY <3>4, <2>a
      <3>6. SecretInv(s)
        BY <3>1, <1>c
      <3>7. QED
        BY <3>1, <3>4, <3>5, <3>6, <1>n, SecretStays DEF Same, RowSame
    <2>6. CASE FailRefresh(t)
      <3>1. run'[t].ans \in {"error", "unauth"}
        BY <2>6 DEF FailRefresh, WebTypeOK, Run
      <3>2. Same(t)
        BY <2>6, <3>1, ServedRefresh DEF Same, Asked, Granted, Opening
      <3>3. QED
        BY <2>6, <3>2, <2>f, <1>k DEF FailRefresh
    <2>7. CASE ServeLogin(t)
      <3>1. UNCHANGED <<jar, run, strayed>>
        BY <2>7, ServedLogin
      <3>2. CASE ~Opening(t)' /\ UNCHANGED row
        BY <3>1, <3>2, <2>p, <2>f, <1>k
      <3>3. CASE /\ Opening(t)' /\ act'[t].ck.sid \in Sids /\ act'[t].ck.gen = 1
                 /\ row[act'[t].ck.sid].st = "none"
                 /\ row' = [row EXCEPT ![act'[t].ck.sid] = NewRow]
        <4>1. CASE act'[t].ck.sid # s
          <5>1. row'[s] = row[s]
            BY <3>3, <4>1 DEF WebTypeOK
          <5>2. Same(t)
            BY <3>1, <4>1 DEF Same, Asked, Granted
          <5>3. QED
            BY <3>1, <5>1, <5>2, <2>f DEF RowSame
        <4>2. CASE act'[t].ck.sid = s
          <5>1. row'[s].gen = 1 /\ row'[s].why = "none"
            BY <3>3, <4>2 DEF WebTypeOK, NewRow, NoRow
          <5>2. /\ jar.sid # s
                /\ \A u \in Tabs : /\ Asked(u) => run[u].ck.sid # s
                                   /\ Opening(u) => act[u].ck.sid # s
            BY <3>3, <4>2, <1>n DEF KnownInv
          <5>3. \A u \in Tabs \ {t} : Opening(u)' => Opening(u) /\ act'[u] = act[u]
            BY <2>o DEF Opening
          <5>4. \A u \in Tabs : Asked(u)' => run'[u].ck.sid # s
            BY <3>1, <5>2 DEF Asked
          <5>5. \A u \in Tabs : Granted(u)' \/ run'[u].pc = "sent" => Asked(u)'
            BY DEF Granted, Asked
          <5>6. QED
            BY <3>1, <3>3, <5>1, <5>2, <5>3, <5>4, <5>5 DEF SecretInv
        <4>3. QED
          BY <4>1, <4>2
      <3>4. QED
        BY <2>7, <3>2, <3>3, ServedLogin
    <2>8. CASE HandleLogin(t)
      <3>1. act'[t] = NoAct /\ UNCHANGED <<row, strayed>>
        BY <2>8, HandledLogin
      <3>2. ~Opening(t)'
        BY <3>1 DEF NoAct, Opening
      <3>3. CASE UNCHANGED <<jar, store, run>>
        BY <3>1, <3>2, <3>3, <2>p, <2>f, <1>k
      <3>4. CASE Opening(t) /\ jar' = act[t].ck /\ run'[t] = Superseded(run[t])
        <4>1. SecretInv(s)
          BY <3>1, <1>c
        <4>2. \A u \in Tabs : /\ run'[u].pc = run[u].pc /\ run'[u].ck = run[u].ck
                              /\ run'[u].ans = run[u].ans
          BY <3>4, <2>o, SupersededKeeps
        <4>3. \A u \in Tabs : (Asked(u)' <=> Asked(u)) /\ (Granted(u)' <=> Granted(u))
          BY <4>2 DEF Asked, Granted
        <4>4. \A u \in Tabs : Opening(u)' => u # t /\ Opening(u) /\ act'[u] = act[u]
          BY <3>2, <2>o DEF Opening
        <4>5. jar'.sid = s => jar'.gen = row'[s].gen
          BY <3>1, <3>4, <4>1 DEF SecretInv
        <4>6. ASSUME NEW u \in Tabs
              PROVE  /\ run'[u].pc = "sent" /\ run'[u].ck.sid = s => run'[u].ck.gen = row'[s].gen
                     /\ Granted(u)' /\ run'[u].ck.sid = s => run'[u].ck.gen + 1 = row'[s].gen
          BY <3>1, <4>1, <4>2, <4>3 DEF SecretInv
        <4>7. ASSUME NEW u \in Tabs, Opening(u)', act'[u].ck.sid = s
              PROVE  /\ act'[u].ck.gen = row'[s].gen /\ jar'.sid # s
                     /\ \A v \in Tabs : /\ Asked(v)' => run'[v].ck.sid # s
                                        /\ Opening(v)' /\ v # u => act'[v].ck.sid # s
          <5>1. u # t /\ Opening(u) /\ act[u].ck.sid = s /\ act'[u] = act[u]
            BY <4>4, <4>7
          <5>2. /\ act[u].ck.gen = row[s].gen
                /\ \A v \in Tabs : /\ Asked(v) => run[v].ck.sid # s
                                   /\ Opening(v) /\ v # u => act[v].ck.sid # s
            BY <4>1, <5>1 DEF SecretInv
          <5>3. act[t].ck.sid # s
            BY <3>4, <5>1, <5>2
          <5>4. QED
            BY <3>1, <3>4, <4>2, <4>3, <4>4, <5>1, <5>2, <5>3
        <4>8. row'[s].why # "reuse"
          BY <3>1, <4>1 DEF SecretInv
        <4>9. QED
          BY <4>5, <4>6, <4>7, <4>8 DEF SecretInv
      <3>5. QED
        BY <2>8, <3>3, <3>4, HandledLogin
    <2>9. CASE ServeRefresh(t)
      <3>t. /\ run[t].sid \in SidOrNone /\ run[t].ck \in Cookies /\ run[t].ck.gen \in Nat
            /\ run[t] \in Run
        BY DEF WebTypeOK, Run, Cookies
      <3>0. PICK ans \in RefreshAnswer(run[t].sid, run[t].ck), lost \in BOOLEAN :
              /\ row' = RefreshedRow(run[t].sid, run[t].ck, ans)
              /\ run' = [run EXCEPT ![t].pc = "answered",
                                    ![t].ans = IF lost THEN "error" ELSE ans]
              /\ strayed' = IF lost /\ ans = "ok" THEN strayed \cup {run[t].ck.sid}
                            ELSE strayed
        BY <2>9 DEF ServeRefresh
      <3>1. /\ run[t].pc = "sent" /\ run'[t].pc = "answered" /\ run'[t].ck = run[t].ck
            /\ UNCHANGED <<jar, act>>
        BY <2>9, ServedRefresh
      <3>2. run'[t].ans = IF lost THEN "error" ELSE ans
        BY <3>0 DEF WebTypeOK, Run
      <3>3. SecretInv(s)
        BY <1>c, <3>0
      <3>4. \A u \in Tabs \ {t} : ~Asked(u) /\ ~Asked(u)' /\ ~Granted(u)' /\ run'[u].pc # "sent"
        BY <1>l, <2>o, <3>1 DEF Asked, Granted
      <3>5. CASE run[t].ck.sid = s /\ ans = "ok"
        <4>1. run[t].ck.gen = row[s].gen
          BY <3>1, <3>3, <3>5 DEF SecretInv
        <4>2. Current(run[t].ck)
          BY <3>5, <4>1 DEF Current
        <4>3. row'[s].gen = row[s].gen + 1
          BY <3>0, <3>t, <3>5, <4>2, RefreshRows
        <4>4. ~Reuses(run[t].sid, run[t].ck)
          BY <3>t, <3>5, <4>1 DEF Reuses, Previous
        <4>5. row'[s].why = row[s].why
          BY <3>0, <3>t, <4>4, RefreshRows
        <4>6. ~lost
          BY <3>0, <3>5
        <4>7. Granted(t)'
          BY <3>1, <3>2, <3>5, <4>6 DEF Granted
        <4>8. \A u \in Tabs : ~(Opening(u)' /\ act'[u].ck.sid = s)
          BY <3>1, <3>3, <3>5 DEF SecretInv, Opening, Asked
        <4>9. row'[s].why # "reuse"
          BY <3>3, <4>5 DEF SecretInv
        <4>10. QED
          BY <3>1, <3>4, <3>5, <4>1, <4>3, <4>7, <4>8, <4>9 DEF SecretInv
      <3>6. CASE ~(run[t].ck.sid = s /\ ans = "ok")
        <4>1. row'[s].gen = row[s].gen
          BY <3>0, <3>t, <3>6, RefreshRows
        <4>2. row'[s].why = row[s].why
          <5>1. CASE run[t].ck.sid # s
            BY <3>0, <3>t, <5>1, RefreshRows
          <5>2. CASE run[t].ck.sid = s
            <6>1. run[t].ck.gen = row[s].gen
              BY <3>1, <3>3, <5>2 DEF SecretInv
            <6>2. ~Reuses(run[t].sid, run[t].ck)
              BY <3>t, <5>2, <6>1 DEF Reuses, Previous
            <6>3. QED
              BY <3>0, <3>t, <6>2, RefreshRows
          <5>3. QED
            BY <5>1, <5>2
        <4>3. ~(Granted(t)' /\ run'[t].ck.sid = s) /\ ~Granted(t) /\ Asked(t)
          BY <3>1, <3>2, <3>6 DEF Granted, Asked
        <4>4. Same(t)
          BY <3>1, <4>3 DEF Same, Opening
        <4>5. \A u \in Tabs : Same(u)
          BY <4>4, <2>a
        <4>6. QED
          BY <3>1, <3>3, <4>1, <4>2, <4>5, <1>n, SecretStays DEF Same
      <3>7. QED
        BY <3>5, <3>6
    <2>10. QED
      BY <1>3, <2>1, <2>2, <2>3, <2>4, <2>5, <2>6, <2>7, <2>8, <2>9 DEF TabMove
  <1>4. QED
    BY <1>1, <1>2, <1>3, NextMoves

-----------------------------------------------------------------------------
(* What a sign-out ends                                                    *)

\* The reasons of the rows stay, but for sessions in S.
ReasonsKept(S) ==
    \A s \in Sids : row'[s].why = "asked" => row[s].why = "asked" \/ s \in S

\* A refresh revokes nothing on request, a new session has no reason.
LEMMA RefreshReasons ==
    ASSUME WebTypeOK, NEW sid \in SidOrNone, NEW ck \in Cookies, NEW ans,
           row' = RefreshedRow(sid, ck, ans)
    PROVE  ReasonsKept({})
  <1>1. row \in [Sids -> Row]
    BY DEF WebTypeOK
  <1>2. ASSUME NEW s \in Sids
        PROVE  row'[s].why \in {row[s].why, "reuse"}
    <2>1. CASE ans = "ok" /\ Current(ck)
      <3>1. row' = [row EXCEPT ![ck.sid].gen = @ + 1, ![ck.sid].replay = TRUE]
        BY <2>1 DEF RefreshedRow
      <3>2. QED
        BY <1>1, <3>1 DEF Row
    <2>2. CASE ans = "unauth" /\ Reuses(sid, ck)
      <3>1. row' = [row EXCEPT ![ck.sid].st = "revoked", ![ck.sid].why = "reuse"]
        BY <2>2 DEF RefreshedRow
      <3>2. QED
        BY <1>1, <3>1 DEF Row
    <2>3. CASE ~(ans = "ok" /\ Current(ck)) /\ ~(ans = "unauth" /\ Reuses(sid, ck))
      BY <2>3 DEF RefreshedRow
    <2>4. QED
      BY <2>1, <2>2, <2>3
  <1>3. QED
    BY <1>2 DEF ReasonsKept

\* Revoking on request ends the session named.
LEMMA RevokedReasons ==
    ASSUME WebTypeOK, NEW s, row' = Revoked(s)
    PROVE  ReasonsKept({s})
  <1>1. row \in [Sids -> Row]
    BY DEF WebTypeOK
  <1>2. CASE s # None /\ row[s].st = "active"
    <2>1. row' = [row EXCEPT ![s].st = "revoked", ![s].why = "asked"]
      BY <1>2 DEF Revoked
    <2>2. QED
      BY <1>1, <2>1 DEF ReasonsKept, Row
  <1>3. CASE ~(s # None /\ row[s].st = "active")
    BY <1>3 DEF Revoked, ReasonsKept
  <1>4. QED
    BY <1>2, <1>3

\* AuthLogout ends the session the request names: a refresh cookie of another one is
\* answered with a mismatch.
LEMMA LogoutReasons ==
    ASSUME WebTypeOK, NEW sid \in Sids, NEW tok, NEW ck \in Cookies,
           \/ row' = row
           \/ /\ LogoutAnswer(sid, tok, ck) # "mismatch"
              /\ row' = LoggedOutRow(sid, tok, ck)
    PROVE  ReasonsKept({sid})
  <1>1. sid # None
    BY WebAssumption
  <1>2. CASE row' = row
    BY <1>2 DEF ReasonsKept
  <1>3. CASE LogoutAnswer(sid, tok, ck) # "mismatch" /\ row' = LoggedOutRow(sid, tok, ck)
    <2>1. row' \in {row, Revoked(sid)} \/ (Live(ck) /\ row' = Revoked(ck.sid))
      BY <1>3 DEF LoggedOutRow
    <2>2. Live(ck) => ck.sid = sid
      BY <1>1, <1>3 DEF LogoutAnswer, Expected, Live, NoCookie
    <2>3. row' \in {row, Revoked(sid)}
      BY <2>1, <2>2
    <2>4. QED
      BY <1>2, <2>3, RevokedReasons
  <1>4. QED
    BY <1>2, <1>3

\* An unloaded page leaves behind only sign-outs of sessions that were to end.
LEMMA GoneEnds ==
    ASSUME WebTypeOK, EndInv, NEW t \in Tabs, Unload(t), UNCHANGED ending
    PROVE  \A o \in orphans' : o.op = "logout" => o.sid \in ending'
  <1>1. orphans' \subseteq orphans \cup Abandoned(t)
    BY DEF Unload
  <1>2. ASSUME NEW o \in Abandoned(t), o.op = "logout"
        PROVE  o.sid \in ending
    BY <1>2 DEF Abandoned, EndInv
  <1>3. QED
    BY <1>1, <1>2 DEF EndInv

\* A step keeps sign-outs to the sessions their pages showed.
LEMMA EndInvKept ==
    ASSUME WebTypeOK, RunInv, EndInv, [Next]_vars
    PROVE  EndInv'
  <1> DEFINE Good(u) ==
        /\ act'[u].op = "logout" /\ act'[u].pc = "sent" => act'[u].sid \in ending'
        /\ act'[u].pc = "resume" /\ act'[u].ans = "authenticated" => store'[u].sid \in Sids
  <1> DEFINE Held == \A o \in orphans' : o.op = "logout" => o.sid \in ending'
  <1> SUFFICES EndInv'
    OBVIOUS
  <1>t. /\ store \in [Tabs -> Store] /\ run \in [Tabs -> Run] /\ act \in [Tabs -> Act]
        /\ ending \subseteq Sids
    BY DEF WebTypeOK
  <1>n. NoAct.pc = "none"
    BY DEF NoAct
  <1>r. row' = row => ReasonsKept({})
    BY DEF ReasonsKept
  <1>e. \A s \in Sids : Ends(s) => s \in ending' /\ ending \subseteq ending'
    BY DEF Ends
  <1>g. ASSUME NEW S, ReasonsKept(S), S \subseteq ending', ending \subseteq ending',
               \A u \in Tabs : Good(u), Held
        PROVE  EndInv'
    <2>1. EndedAsAsked'
      BY <1>g DEF EndInv, EndedAsAsked, ReasonsKept
    <2>2. QED
      BY <1>g, <2>1 DEF EndInv
  <1>k. ASSUME NEW u \in Tabs, act'[u] = act[u], ending \subseteq ending',
               act[u].pc # "resume" \/ store'[u].sid = store[u].sid
        PROVE  Good(u)
    BY <1>k DEF EndInv
  <1>h. orphans' \subseteq orphans /\ ending \subseteq ending' => Held
    BY DEF EndInv
  <1>m. \A u \in Tabs : act'[u].pc \notin {"sent", "resume"} => Good(u)
    OBVIOUS
  <1>s. ASSUME NEW t \in Tabs, Quiet(t), row' = row, UNCHANGED <<orphans, ending>>,
               \A u \in Tabs \ {t} : store'[u].sid = store[u].sid,
               NEW outcome, Settle(t, outcome),
               outcome = "authenticated" => store'[t].sid \in Sids
        PROVE  EndInv'
    <2>1. \A u \in Tabs \ {t} : act'[u] = act[u]
      BY <1>s, <1>t DEF Settle
    <2>2. act'[t] = act[t] \/ act'[t] = [act[t] EXCEPT !.pc = "resume", !.ans = outcome]
      BY <1>s, <1>t DEF Settle
    <2>3. /\ [act[t] EXCEPT !.pc = "resume", !.ans = outcome].pc = "resume"
          /\ [act[t] EXCEPT !.pc = "resume", !.ans = outcome].ans = outcome
      BY <1>t DEF Act
    <2>4. Good(t)
      <3>1. CASE act'[t] = act[t]
        BY <3>1, <1>s, <1>k DEF Quiet
      <3>2. CASE act'[t] = [act[t] EXCEPT !.pc = "resume", !.ans = outcome]
        BY <3>2, <2>3, <1>s
      <3>3. QED
        BY <2>2, <3>1, <3>2
    <2>5. \A u \in Tabs : Good(u)
      BY <2>1, <2>4, <1>s, <1>k
    <2>6. QED
      BY <2>5, <1>s, <1>r, <1>h, <1>g
  <1>u. ASSUME NEW t \in Tabs, Unload(t), row' = row, UNCHANGED ending
        PROVE  EndInv'
    <2>1. act'[t] = NoAct /\ \A u \in Tabs \ {t} : act'[u] = act[u] /\ store'[u] = store[u]
      BY <1>u, <1>t DEF Unload
    <2>2. \A u \in Tabs : Good(u)
      BY <2>1, <1>u, <1>k, <1>m, <1>n
    <2>3. QED
      BY <2>2, <1>u, <1>r, <1>g, GoneEnds
  <1>i. ASSUME NEW t \in Tabs, row' = row, UNCHANGED <<act, orphans, ending>>,
               \A u \in Tabs \ {t} : store'[u].sid = store[u].sid,
               Quiet(t) \/ store'[t].sid = store[t].sid
        PROVE  EndInv'
    <2>1. \A u \in Tabs : Good(u)
      BY <1>i, <1>k DEF Quiet
    <2>2. QED
      BY <2>1, <1>i, <1>r, <1>h, <1>g
  <1>a. ASSUME NEW t \in Tabs, row' = row, UNCHANGED <<orphans, ending>>,
               \A u \in Tabs \ {t} : act'[u] = act[u] /\ store'[u].sid = store[u].sid,
               act'[t].pc \notin {"sent", "resume"}
        PROVE  EndInv'
    <2>1. \A u \in Tabs : Good(u)
      BY <1>a, <1>k, <1>m
    <2>2. QED
      BY <2>1, <1>a, <1>r, <1>h, <1>g
  <1>1. ASSUME NEW t \in Tabs, \/ ResolveAuthentication(t) \/ GetFreshAuthHeaders(t)
                               \/ FailRefresh(t) \/ StartCall(t) \/ ServeCall(t)
                               \/ RefuseCall(t) \/ DropStaleEvent(t) \/ Expire(t)
        PROVE  EndInv'
    <2>1. \A u \in Tabs : store'[u].sid = store[u].sid
      BY <1>1, <1>t DEF ResolveAuthentication, GetFreshAuthHeaders, FailRefresh, StartCall,
         ServeCall, RefuseCall, DropStaleEvent, Expire, Store
    <2>2. row' = row /\ UNCHANGED <<act, orphans, ending>>
      BY <1>1 DEF ResolveAuthentication, GetFreshAuthHeaders, FailRefresh, StartCall,
         ServeCall, RefuseCall, DropStaleEvent, Expire
    <2>3. QED
      BY <2>1, <2>2, <1>i
  <1>2. ASSUME NEW t \in Tabs, GrantLock(t)
        PROVE  EndInv'
    <2>1. CASE run[t].cur
      BY <1>2, <2>1, <1>i DEF GrantLock
    <2>2. CASE ~run[t].cur
      BY <1>2, <2>2, <1>s DEF GrantLock
    <2>3. QED
      BY <2>1, <2>2
  <1>3. ASSUME NEW t \in Tabs, ServeRefresh(t)
        PROVE  EndInv'
    <2>1. run[t].sid \in SidOrNone /\ run[t].ck \in Cookies
      BY <1>t DEF Run
    <2>2. PICK ans : row' = RefreshedRow(run[t].sid, run[t].ck, ans)
      BY <1>3 DEF ServeRefresh
    <2>3. ReasonsKept({})
      BY <2>1, <2>2, RefreshReasons
    <2>4. UNCHANGED <<act, store, orphans, ending>>
      BY <1>3 DEF ServeRefresh
    <2>5. \A u \in Tabs : Good(u)
      BY <2>4, <1>k
    <2>6. QED
      BY <2>3, <2>4, <2>5, <1>h, <1>g
  <1>4. ASSUME NEW t \in Tabs, Handle(t)
        PROVE  EndInv'
    <2>1. CASE DropSuperseded(t)
      BY <2>1, <1>s DEF DropSuperseded
    <2>2. CASE AcceptBundle(t)
      <3>1. store'[t].sid = run[t].ck.sid /\ \A u \in Tabs \ {t} : store'[u] = store[u]
        BY <2>2, StoreMoves DEF AcceptBundle
      <3>2. run[t].ck.sid \in Sids
        BY <2>2 DEF AcceptBundle, Arrived, RunInv, Granted
      <3>3. QED
        BY <2>2, <3>1, <3>2, <1>s DEF AcceptBundle, Arrived
    <2>3. CASE RetryMismatch(t)
      BY <2>3, <1>i, StoreMoves DEF RetryMismatch, Arrived
    <2>4. CASE ConfirmAnonymous(t)
      BY <2>4, <1>s, StoreMoves DEF ConfirmAnonymous, Arrived
    <2>5. CASE MarkTransient(t)
      <3>1. \A u \in Tabs : store'[u].sid = store[u].sid
        BY <2>5, <1>t DEF MarkTransient, Store
      <3>2. QED
        BY <2>5, <3>1, <1>s DEF MarkTransient, Arrived
    <2>6. CASE FallOutOfSync(t)
      BY <2>6, <1>s, StoreMoves DEF FallOutOfSync, Arrived
    <2>7. QED
      BY <1>4, <2>1, <2>2, <2>3, <2>4, <2>5, <2>6 DEF Handle
  <1>5. ASSUME NEW t \in Tabs, StartLogin(t)
        PROVE  EndInv'
    <2>1. act'[t] = [NoAct EXCEPT !.op = "login", !.pc = "sent"]
          /\ \A u \in Tabs \ {t} : act'[u] = act[u]
      BY <1>5, <1>t DEF StartLogin
    <2>2. act'[t].op = "login" /\ act'[t].pc = "sent"
      BY <2>1 DEF NoAct
    <2>3. \A u \in Tabs : Good(u)
      BY <1>5, <2>1, <2>2, <1>k DEF StartLogin
    <2>4. QED
      BY <1>5, <2>3, <1>r, <1>h, <1>g DEF StartLogin
  <1>6. ASSUME NEW t \in Tabs, ServeLogin(t)
        PROVE  EndInv'
    <2>1. act'[t].pc = "answered" /\ \A u \in Tabs \ {t} : act'[u] = act[u]
      BY <1>6, <1>t DEF ServeLogin, Act
    <2>2. ReasonsKept({})
      <3>1. ASSUME NEW s \in Sids, row' = [row EXCEPT ![s] = NewRow]
            PROVE  ReasonsKept({})
        BY <3>1 DEF ReasonsKept, NewRow, NoRow, WebTypeOK
      <3>2. QED
        BY <1>6, <3>1, <1>r DEF ServeLogin
    <2>3. UNCHANGED <<store, orphans, ending>>
      BY <1>6 DEF ServeLogin
    <2>4. \A u \in Tabs : Good(u)
      BY <2>1, <2>3, <1>k, <1>m
    <2>5. QED
      BY <2>2, <2>3, <2>4, <1>h, <1>g
  <1>7. ASSUME NEW t \in Tabs, HandleLogin(t)
        PROVE  EndInv'
    <2>1. act'[t] = NoAct /\ \A u \in Tabs \ {t} : act'[u] = act[u] /\ store'[u] = store[u]
      BY <1>7, <1>t, StoreMoves DEF HandleLogin
    <2>2. QED
      BY <1>7, <2>1, <1>a, <1>n DEF HandleLogin
  <1>l. ASSUME NEW t \in Tabs, NEW first, act' = [act EXCEPT ![t] = Logout(t, first)],
               store[t].sid \in Sids, Ends(store[t].sid), UNCHANGED <<row, store, orphans>>
        PROVE  EndInv'
    <2>1. act'[t].sid = store[t].sid /\ act'[t].pc = "sent"
          /\ \A u \in Tabs \ {t} : act'[u] = act[u]
      BY <1>l, <1>t DEF Logout
    <2>2. store[t].sid \in ending' /\ ending \subseteq ending'
      BY <1>l, <1>e
    <2>3. \A u \in Tabs : Good(u)
      BY <1>l, <2>1, <2>2, <1>k
    <2>4. QED
      BY <1>l, <2>2, <2>3, <1>r, <1>h, <1>g
  <1>8. ASSUME NEW t \in Tabs, StartLogout(t)
        PROVE  EndInv'
    <2>1. store[t].sid \in Sids
      BY <1>8, <1>t DEF StartLogout, Store, SidOrNone
    <2>2. QED
      BY <1>8, <2>1, <1>l DEF StartLogout
  <1>9. ASSUME NEW t \in Tabs, ServeLogout(t)
        PROVE  EndInv'
    <2>1. act[t].sid \in ending /\ act[t].sid \in Sids /\ act[t].ck \in Cookies
      BY <1>9, <1>t DEF ServeLogout, EndInv, Act
    <2>2. \/ row' = row
          \/ /\ LogoutAnswer(act[t].sid, act[t].tok, act[t].ck) # "mismatch"
             /\ row' = LoggedOutRow(act[t].sid, act[t].tok, act[t].ck)
      BY <1>9 DEF ServeLogout
    <2>3. ReasonsKept({act[t].sid})
      BY <2>1, <2>2, LogoutReasons
    <2>4. UNCHANGED <<store, orphans, ending>>
      BY <1>9 DEF ServeLogout
    <2>5. act'[t].pc = "answered" /\ \A u \in Tabs \ {t} : act'[u] = act[u]
      <3>1. PICK ans : act' = [act EXCEPT ![t] = [NoAct EXCEPT !.op = "logout",
                                !.pc = "answered", !.first = act[t].first, !.ans = ans]]
        BY <1>9 DEF ServeLogout
      <3>2. [NoAct EXCEPT !.op = "logout", !.pc = "answered", !.first = act[t].first,
                          !.ans = ans].pc = "answered"
        BY DEF NoAct
      <3>3. QED
        BY <3>1, <3>2, <1>t
    <2>6. \A u \in Tabs : Good(u)
      BY <2>4, <2>5, <1>k, <1>m
    <2>7. QED
      BY <2>1, <2>3, <2>4, <2>6, <1>h, <1>g
  <1>o. ASSUME NEW t \in Tabs, SignedOut(t), act' = [act EXCEPT ![t] = NoAct],
               UNCHANGED <<row, orphans, ending>>
        PROVE  EndInv'
    <2>1. act'[t] = NoAct /\ \A u \in Tabs \ {t} : act'[u] = act[u] /\ store'[u] = store[u]
      BY <1>o, <1>t, StoreMoves DEF SignedOut
    <2>2. QED
      BY <1>o, <2>1, <1>a, <1>n
  <1>10. ASSUME NEW t \in Tabs, CompleteLogout(t)
        PROVE  EndInv'
    BY <1>10, <1>o DEF CompleteLogout
  <1>11. ASSUME NEW t \in Tabs, RecoverLogout(t)
        PROVE  EndInv'
    <2>1. act'[t].pc \in {"wait", "none"} /\ \A u \in Tabs \ {t} : act'[u] = act[u]
      BY <1>11, <1>t, <1>n DEF RecoverLogout, Act
    <2>2. QED
      BY <1>11, <2>1, <1>a DEF RecoverLogout
  <1>12. ASSUME NEW t \in Tabs, ResumeLogout(t)
        PROVE  EndInv'
    <2>1. CASE act[t].ans = "authenticated"
      <3>1. store[t].sid \in Sids
        BY <1>12, <2>1 DEF ResumeLogout, EndInv
      <3>2. /\ act' = [act EXCEPT ![t] = Logout(t, FALSE)] /\ Ends(store[t].sid)
            /\ UNCHANGED <<row, store, orphans>>
        BY <1>12, <2>1 DEF ResumeLogout
      <3>3. QED
        BY <3>1, <3>2, <1>l
    <2>2. CASE act[t].ans = "anonymous"
      BY <1>12, <2>2, <1>o DEF ResumeLogout
    <2>3. CASE act[t].ans \notin {"authenticated", "anonymous"}
      <3>1. /\ act' = [act EXCEPT ![t] = NoAct]
            /\ UNCHANGED <<row, store, orphans, ending>>
        BY <1>12, <2>3 DEF ResumeLogout
      <3>2. act'[t] = NoAct /\ \A u \in Tabs \ {t} : act'[u] = act[u]
        BY <3>1, <1>t
      <3>3. QED
        BY <3>1, <3>2, <1>a, <1>n
    <2>4. QED
      BY <2>1, <2>2, <2>3
  <1>13. ASSUME NEW t \in Tabs, CompleteCall(t)
        PROVE  EndInv'
    <2>1. \A u \in Tabs \ {t} : store'[u] = store[u]
      BY <1>13, StoreMoves DEF CompleteCall
    <2>2. QED
      BY <1>13, <2>1, <1>i DEF CompleteCall
  <1>14. ASSUME NEW t \in Tabs, RedirectRefused(t) \/ Reload(t)
        PROVE  EndInv'
    BY <1>14, <1>u DEF RedirectRefused, Reload
  <1>15. ASSUME NEW t \in Tabs, ClearRefused(t)
        PROVE  EndInv'
    BY <1>15, <1>i, StoreMoves DEF ClearRefused
  <1>16. ASSUME NEW t \in Tabs, ResumeCall(t)
        PROVE  EndInv'
    <2>1. CASE Unload(t)
      BY <1>16, <2>1, <1>u DEF ResumeCall
    <2>2. CASE ~Unload(t)
      BY <1>16, <2>2, <1>i DEF ResumeCall
    <2>3. QED
      BY <2>1, <2>2
  <1>17. ASSUME NEW t \in Tabs, DeliverSignedOut(t)
        PROVE  EndInv'
    <2>1. \A u \in Tabs \ {t} : store'[u] = store[u]
      BY <1>17, StoreMoves DEF DeliverSignedOut
    <2>2. QED
      BY <1>17, <2>1, <1>i DEF DeliverSignedOut
  <1>18. ASSUME NEW t \in Tabs, DeliverAuthenticated(t)
        PROVE  EndInv'
    <2>1. CASE Unload(t)
      BY <1>18, <2>1, <1>u DEF DeliverAuthenticated
    <2>2. CASE ~Unload(t)
      BY <1>18, <2>2, <1>i DEF DeliverAuthenticated
    <2>3. QED
      BY <2>1, <2>2
  <1>19. CASE ServeOrphan
    <2>1. PICK o \in orphans :
            /\ orphans' = orphans \ {o}
            /\ \/ /\ o.op = "refresh"
                  /\ \E ans \in RefreshAnswer(o.sid, o.ck) :
                       row' = RefreshedRow(o.sid, o.ck, ans)
               \/ /\ o.op = "logout" /\ LogoutAnswer(o.sid, o.tok, o.ck) # "mismatch"
                  /\ row' = LoggedOutRow(o.sid, o.tok, o.ck)
               \/ UNCHANGED row
      BY <1>19 DEF ServeOrphan
    <2>2. o.sid \in SidOrNone /\ o.ck \in Cookies
      BY DEF WebTypeOK, Orphan
    <2>3. UNCHANGED <<act, store, ending>>
      BY <1>19 DEF ServeOrphan, pages
    <2>4. \E S \in SUBSET ending : ReasonsKept(S)
      <3>1. CASE o.op = "refresh"
        <4>1. ReasonsKept({})
          BY <2>1, <2>2, <3>1, <1>r, RefreshReasons
        <4>2. QED
          BY <4>1
      <3>2. CASE o.op = "logout"
        <4>1. o.sid \in ending /\ o.sid \in Sids
          BY <3>2, <1>t DEF EndInv
        <4>2. ReasonsKept({o.sid})
          BY <2>1, <2>2, <3>2, <4>1, LogoutReasons
        <4>3. QED
          BY <4>1, <4>2
      <3>3. QED
        BY <3>1, <3>2 DEF WebTypeOK, Orphan
    <2>5. \A u \in Tabs : Good(u)
      BY <2>3, <1>k
    <2>6. QED
      BY <2>1, <2>3, <2>4, <2>5, <1>h, <1>g
  <1>20. ASSUME NEW s \in Sids, CloseReplayWindow(s) \/ RevokeElsewhere(s)
        PROVE  EndInv'
    <2>1. UNCHANGED <<act, store, orphans>>
      BY <1>20 DEF CloseReplayWindow, RevokeElsewhere, pages
    <2>2. CASE CloseReplayWindow(s)
      <3>1. ReasonsKept({})
        BY <2>2 DEF CloseReplayWindow, ReasonsKept, WebTypeOK, Row
      <3>2. ending' = ending
        BY <2>2 DEF CloseReplayWindow
      <3>3. \A u \in Tabs : Good(u)
        BY <2>1, <3>2, <1>k
      <3>4. QED
        BY <2>1, <3>1, <3>2, <3>3, <1>h, <1>g
    <2>3. CASE RevokeElsewhere(s)
      <3>1. ReasonsKept({s})
        BY <2>3, RevokedReasons DEF RevokeElsewhere
      <3>2. s \in ending' /\ ending \subseteq ending'
        BY <2>3, <1>e DEF RevokeElsewhere
      <3>3. \A u \in Tabs : Good(u)
        BY <2>1, <3>2, <1>k
      <3>4. QED
        BY <2>1, <3>1, <3>2, <3>3, <1>h, <1>g
    <2>4. QED
      BY <1>20, <2>2, <2>3
  <1>21. CASE UNCHANGED vars
    BY <1>21 DEF vars, EndInv, EndedAsAsked
  <1> QED
    BY <1>1, <1>2, <1>3, <1>4, <1>5, <1>6, <1>7, <1>8, <1>9, <1>10, <1>11, <1>12, <1>13,
       <1>14, <1>15, <1>16, <1>17, <1>18, <1>19, <1>20, <1>21
       DEF Next, FinishAct, FinishCall

-----------------------------------------------------------------------------
(* Theorems                                                                *)

\* Everything that holds of the tabs, the rows and the cookies together.
WebInv ==
    WebTypeOK /\ LockInv /\ RunInv /\ OutInv /\ KnownInv /\ CookieInv /\ EndInv

\* What tabs know of their sessions, and where secrets are, holds for any number of
\* tabs and sessions, whatever is lost, superseded or unloaded: the inductive
\* invariant behind the results below.
THEOREM WebInvariant == Spec => []WebInv
  <1>1. Init => WebInv
    <2> SUFFICES ASSUME Init PROVE WebInv
      OBVIOUS
    <2>1. WebTypeOK
      BY WebTypesInit
    <2>2. \A t \in Tabs : ~Asked(t) /\ ~Granted(t) /\ ~Opening(t) /\ run[t].pc # "sent"
      BY DEF Init, NoRun, NoAct, Asked, Granted, Opening
    <2>3. LockInv /\ RunInv
      BY <2>2 DEF Init, LockInv, RunInv
    <2>4. OutInv
      BY DEF Init, OutInv
    <2>5. /\ jar.sid # None => row[jar.sid].st # "none"
          /\ \A s \in Sids : jar.sid = s => jar.gen = row[s].gen
          /\ \A s \in Sids : row[s].why = "none"
      <3>1. /\ NoCookie.sid = None /\ NoRow.why = "none" /\ NewRow.why = "none"
            /\ NewRow.st = "active" /\ NewRow.gen = 1
        BY DEF NoCookie, NoRow, NewRow
      <3>2. CASE row = [s \in Sids |-> NoRow] /\ jar = NoCookie
        BY <3>1, <3>2, WebAssumption
      <3>3. ASSUME NEW s \in Sids, row = [[u \in Sids |-> NoRow] EXCEPT ![s] = NewRow],
                   jar = [sid |-> s, gen |-> 1]
            PROVE  /\ row[jar.sid].st # "none" /\ jar.sid = s
                   /\ jar.gen = row[s].gen
                   /\ \A u \in Sids : row[u].why = "none"
        <4>1. row[s] = NewRow /\ \A u \in Sids \ {s} : row[u] = NoRow
          BY <3>3
        <4>2. jar.sid = s /\ jar.gen = 1
          BY <3>3
        <4>3. QED
          BY <3>1, <4>1, <4>2
      <3>4. QED
        BY <3>2, <3>3 DEF Init
    <2>6. KnownInv /\ CookieInv
      BY <2>2, <2>5 DEF KnownInv, CookieInv, SecretInv
    <2>7. EndInv
      BY <2>5 DEF Init, EndInv, EndedAsAsked, NoAct
    <2>8. QED
      BY <2>1, <2>3, <2>4, <2>6, <2>7 DEF WebInv
  <1>2. WebInv /\ [Next]_vars => WebInv'
    BY WebTypesKept, LockInvKept, RunInvKept, OutInvKept, KnownInvKept, CookieInvKept,
       EndInvKept DEF WebInv
  <1>3. QED
    BY <1>1, <1>2, PTL DEF Spec

\* A tab that signed out of a session the server has revoked never shows it again,
\* whatever refresh or sign-in was under way (authEpoch, applyAuthBundle).
THEOREM SignedOutIsFinal == Spec => []SignedOutStaysOut
  <1>1. WebInv => SignedOutStaysOut
    BY DEF WebInv, OutInv, SignedOutStaysOut
  <1>2. QED
    BY <1>1, WebInvariant, PTL

\* With Web Locks, tabs never have a session revoked for reuse among themselves:
\* some refresh of it was cut off from its answer (refreshAuthentication,
\* RefreshLoginSession).
THEOREM NoReuseAmongTabs == Spec => []NoFalseReuse
  <1>1. WebInv => NoFalseReuse
    BY DEF WebInv, CookieInv, SecretInv, NoFalseReuse
  <1>2. QED
    BY <1>1, WebInvariant, PTL

\* A session ends on request only if the page that asked showed it, or if it was
\* revoked from elsewhere: never because another tab's cookie came along with a
\* sign-out, first sent, sent again or left by an unloaded page (AuthLogout).
THEOREM SignOutsSpareOthers == Spec => []EndedAsAsked
  <1>1. WebInv => EndedAsAsked
    BY DEF WebInv, EndInv
  <1>2. QED
    BY <1>1, WebInvariant, PTL
=============================================================================
