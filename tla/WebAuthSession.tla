--------------------------- MODULE WebAuthSession ---------------------------
(***************************************************************************)
(* The login session as the tabs of one browser see it: the auth store of  *)
(* each tab, the refresh cookie they share, the refreshes they run one at  *)
(* a time under a Web Lock, sign-in, sign-out and API requests, and the    *)
(* events they broadcast (web/src/lib/auth-session.ts, http-client.ts,     *)
(* auth-session-sync.ts), against the refresh and logout endpoints.        *)
(*                                                                         *)
(* A tab's JavaScript runs between network answers; the server handles a   *)
(* request, and the browser applies an answer's cookie and hands it to the *)
(* page, at times of their own.  A page may be unloaded at any moment: its *)
(* requests may still reach the server, their answers reach nobody.        *)
(*                                                                         *)
(* authEpoch is represented by the one thing it is used for: whether the   *)
(* refresh in progress is still current.  Refresh secrets are derived from *)
(* each other and numbered by generation; as a replayed secret therefore   *)
(* has one successor, the server never answers AUTH_REFRESH_RACE.  A       *)
(* skipped public boot changes nothing, so the session hint it reads is    *)
(* not part of the state.                                                  *)
(***************************************************************************)
EXTENDS Naturals, Sequences, FiniteSets

CONSTANTS Tabs,     \* the tabs of one browser profile
          Sids,     \* sessions that can be created
          None,     \* no session, or nobody
          Locks,    \* whether the browser has navigator.locks
          Ops,      \* what users do besides refreshing: "logout", "call"
          MaxSteps, \* bound on what the users begin
          MaxGen,   \* bound on refresh rotations of a session
          MaxInbox, \* bound on undelivered events of a tab
          MaxOrphans \* bound on requests of unloaded pages

ASSUME WebAssumption ==
  /\ None \notin Sids /\ None \notin Tabs
  /\ Locks \in BOOLEAN
  /\ Ops \subseteq {"logout", "call"}
  /\ {MaxSteps, MaxGen, MaxInbox, MaxOrphans} \subseteq Nat

VARIABLES row,      \* the user_sessions row of each session
          jar,      \* the refresh cookie of the browser
          store,    \* the auth store of each tab
          run,      \* the refresh each tab has in progress
          act,      \* the sign-in or sign-out each tab has in progress
          call,     \* the API request each tab has in progress
          inbox,    \* events broadcast to each tab
          lock,     \* the holder of the Web Lock
          orphans,  \* requests of unloaded pages
          strayed,  \* sessions with a refresh whose answer did not come back
          out,      \* revoked sessions each tab has signed out of
          ending,   \* sessions asked to end, by a page showing them or elsewhere
          begun     \* how much the users have begun

vars == <<row, jar, store, run, act, call, inbox, lock, orphans, strayed, out,
          ending, begun>>
pages == <<store, run, act, call, inbox, lock>>

NoCookie == [sid |-> None, gen |-> 0]
Blank == [sid |-> None, tok |-> "none", boot |-> "idle"]
NoRun == [pc |-> "none", cur |-> FALSE, first |-> FALSE, sid |-> None,
          ck |-> NoCookie, ans |-> "none"]
NoAct == [op |-> "none", pc |-> "none", sid |-> None, tok |-> "none",
          ck |-> NoCookie, first |-> FALSE, ans |-> "none"]
NoCall == [pc |-> "none", sid |-> None, tok |-> "none", again |-> FALSE,
           ans |-> "none"]

SidOrNone == Sids \cup {None}
Cookies == [sid : SidOrNone, gen : Nat]
Tokens == {"none", "fresh", "expired"}
Answers == {"none", "ok", "kept", "cleared", "mismatch", "unauth", "blocked", "error"}
Outcomes == {"authenticated", "anonymous", "transient", "out_of_sync"}
Row == [st : {"none", "active", "revoked"}, gen : Nat, replay : BOOLEAN,
        why : {"none", "asked", "reuse"}]
Store == [sid : SidOrNone, tok : Tokens, boot : {"idle", "checking", "complete"}]
Run == [pc : {"none", "lock", "sent", "answered"}, cur : BOOLEAN,
        first : BOOLEAN, sid : SidOrNone, ck : Cookies, ans : Answers]
Act == [op : {"none", "login", "logout"},
        pc : {"none", "sent", "answered", "wait", "resume"},
        sid : SidOrNone, tok : Tokens, ck : Cookies, first : BOOLEAN,
        ans : Answers \cup Outcomes]
Call == [pc : {"none", "sent", "answered", "wait", "resume"}, sid : SidOrNone,
         tok : Tokens, again : BOOLEAN, ans : Answers \cup Outcomes]
Event == [kind : {"authenticated", "signed_out"}, sid : Sids]
Orphan == [op : {"refresh", "logout"}, sid : SidOrNone, tok : Tokens, ck : Cookies]

(* The pages, requests and rows keep their types. *)
WebTypeOK ==
  /\ row \in [Sids -> Row]
  /\ jar \in Cookies
  /\ store \in [Tabs -> Store]
  /\ run \in [Tabs -> Run]
  /\ act \in [Tabs -> Act]
  /\ call \in [Tabs -> Call]
  /\ inbox \in [Tabs -> Seq(Event)]
  /\ lock \in Tabs \cup {None}
  /\ orphans \subseteq Orphan
  /\ strayed \subseteq Sids
  /\ out \in [Tabs -> SUBSET Sids]
  /\ ending \subseteq Sids
  /\ begun \in Nat

NoRow == [st |-> "none", gen |-> 0, replay |-> FALSE, why |-> "none"]
NewRow == [NoRow EXCEPT !.st = "active", !.gen = 1]

(* Tabs are opened in a browser with or without a session from before. *)
Init ==
  /\ \/ /\ row = [s \in Sids |-> NoRow]
        /\ jar = NoCookie
     \/ \E s \in Sids :
          /\ row = [[u \in Sids |-> NoRow] EXCEPT ![s] = NewRow]
          /\ jar = [sid |-> s, gen |-> 1]
  /\ store = [t \in Tabs |-> Blank]
  /\ run = [t \in Tabs |-> NoRun]
  /\ act = [t \in Tabs |-> NoAct]
  /\ call = [t \in Tabs |-> NoCall]
  /\ inbox = [t \in Tabs |-> <<>>]
  /\ lock = None
  /\ orphans = {} /\ strayed = {} /\ ending = {}
  /\ out = [t \in Tabs |-> {}]
  /\ begun = 0

-----------------------------------------------------------------------------
(* The server: RefreshAuth and AuthLogout.  UserSessions has their detail. *)

Current(ck) == ck.gen = row[ck.sid].gen
Previous(ck) == ck.gen + 1 = row[ck.sid].gen
Live(ck) == ck.sid # None /\ row[ck.sid].st = "active"
(* Mutant: the X-Auth-Session header is not compared with the cookie. *)
ExpectedAny(sid, ck) == TRUE

Expected(sid, ck) == sid = None \/ sid = ck.sid

(* RefreshLoginSession: the current secret is rotated, the previous one    *)
(* gets the same successor inside the replay window.                       *)
Rotates(sid, ck) == /\ Live(ck) /\ Expected(sid, ck)
                    /\ Current(ck) \/ (Previous(ck) /\ row[ck.sid].replay)
(* The previous secret after the window revokes the session. *)
Reuses(sid, ck) == /\ Live(ck) /\ Expected(sid, ck)
                   /\ Previous(ck) /\ ~row[ck.sid].replay

(* A blocked account is refused before the secret is looked at. *)
RefreshAnswer(sid, ck) ==
  IF ck # NoCookie /\ ~Expected(sid, ck) THEN {"mismatch"}
  ELSE {IF Rotates(sid, ck) THEN "ok" ELSE "unauth"}
         \cup {b \in {"blocked"} : Live(ck)}

RefreshedRow(sid, ck, ans) ==
  IF ans = "ok" /\ Current(ck)
  THEN [row EXCEPT ![ck.sid].gen = @ + 1, ![ck.sid].replay = TRUE]
  ELSE IF ans = "unauth" /\ Reuses(sid, ck)
  THEN [row EXCEPT ![ck.sid].st = "revoked", ![ck.sid].why = "reuse"]
  ELSE row

Within(ans, ck) == ans = "ok" /\ Current(ck) => ck.gen < MaxGen

Revoked(s) == IF s # None /\ row[s].st = "active"
              THEN [row EXCEPT ![s].st = "revoked", ![s].why = "asked"]
              ELSE row

(* AuthLogout: a valid access token names the session, otherwise the       *)
(* refresh secret must; one it does not know is answered with success.     *)
LoggedOutRow(sid, tok, ck) ==
  IF tok = "fresh" THEN Revoked(sid)
  ELSE IF Live(ck) /\ (Current(ck) \/ (Previous(ck) /\ row[ck.sid].replay))
  THEN Revoked(ck.sid)
  ELSE row

(* The answer clears the cookie, unless the access token named the session *)
(* and the request had no cookie.                                          *)
LogoutAnswer(sid, tok, ck) ==
  IF ck # NoCookie /\ ~Expected(sid, ck) THEN "mismatch"
  ELSE IF tok = "fresh" /\ ck.sid # sid THEN "kept" ELSE "cleared"

-----------------------------------------------------------------------------
(* The page: applyAuthBundle, clearAuthentication, publishAuthSessionEvent *)

(* Continuations of a settled promise run before any other event of the tab. *)
Quiet(t) == call[t].pc # "resume" /\ act[t].pc # "resume"

(* What a user, or a navigation of theirs, begins. *)
UserBegins == begun < MaxSteps /\ begun' = begun + 1

Show(t, sid) == store' = [store EXCEPT ![t] = [sid |-> sid, tok |-> "fresh",
                                               boot |-> "complete"]]
Reset(t, boot) == store' = [store EXCEPT ![t] = [Blank EXCEPT !.boot = boot]]
Superseded(r) == [r EXCEPT !.cur = FALSE]
(* Mutant: the epoch is not raised. *)
SupersedeNothing(t) == UNCHANGED run

Supersede(t) == run' = [run EXCEPT ![t] = Superseded(@)]

(* An event reaches every other tab; a full inbox stands for one that is   *)
(* read too late to count.                                                 *)
Publish(t, kind, sid) ==
  inbox' = [u \in Tabs |->
     IF u # t /\ sid # None /\ Len(inbox[u]) < MaxInbox
     THEN Append(inbox[u], [kind |-> kind, sid |-> sid])
     ELSE inbox[u]]

Request(sid, first) == [pc |-> "sent", cur |-> TRUE, first |-> first,
                        sid |-> sid, ck |-> jar, ans |-> "none"]

(* Mutant: the request does not wait for the lock. *)
RefreshingUnlocked(t, r) == IF r.pc # "none" THEN r ELSE Request(store[t].sid, TRUE)

(* refreshAuthentication: one run per tab, queued on the lock if there is  *)
(* one; callers join the run in progress.                                  *)
Refreshing(t, r) ==
  IF r.pc # "none" THEN r
  ELSE IF Locks THEN [NoRun EXCEPT !.pc = "lock", !.cur = TRUE]
  ELSE Request(store[t].sid, TRUE)

(* Mutant: a sign-out that joined the run is not told. *)
SettleTellsCalls(t, outcome) ==
  /\ run' = [run EXCEPT ![t] = NoRun]
  /\ lock' = IF lock = t THEN None ELSE lock
  /\ UNCHANGED act
  /\ call' = [call EXCEPT ![t] = IF @.pc = "wait"
               THEN [@ EXCEPT !.pc = "resume", !.ans = outcome] ELSE @]

(* The run ends, and those who waited for it learn the outcome. *)
Settle(t, outcome) ==
  /\ run' = [run EXCEPT ![t] = NoRun]
  /\ lock' = IF lock = t THEN None ELSE lock
  /\ act' = [act EXCEPT ![t] = IF @.pc = "wait"
               THEN [@ EXCEPT !.pc = "resume", !.ans = outcome] ELSE @]
  /\ call' = [call EXCEPT ![t] = IF @.pc = "wait"
               THEN [@ EXCEPT !.pc = "resume", !.ans = outcome] ELSE @]

(* What an unloaded page leaves behind. *)
Abandoned(t) ==
  {[op |-> "refresh", sid |-> r.sid, tok |-> "none", ck |-> r.ck] :
     r \in {q \in {run[t]} : q.pc = "sent"}}
  \cup
  {[op |-> "logout", sid |-> a.sid, tok |-> a.tok, ck |-> a.ck] :
     a \in {b \in {act[t]} : b.pc = "sent" /\ b.op = "logout"}}

Unload(t) ==
  /\ store' = [store EXCEPT ![t] = Blank]
  /\ run' = [run EXCEPT ![t] = NoRun]
  /\ act' = [act EXCEPT ![t] = NoAct]
  /\ call' = [call EXCEPT ![t] = NoCall]
  /\ inbox' = [inbox EXCEPT ![t] = <<>>]
  /\ lock' = IF lock = t THEN None ELSE lock
  /\ orphans' = IF Cardinality(orphans \cup Abandoned(t)) <= MaxOrphans
                THEN orphans \cup Abandoned(t) ELSE orphans
  /\ strayed' = strayed \cup {s \in Sids : run[t].pc \in {"sent", "answered"}
                                           /\ run[t].ck.sid = s}

-----------------------------------------------------------------------------
(* Refreshing                                                              *)

(* resolveAuthentication: a tab with a usable token, or one that knows it  *)
(* is anonymous, asks nobody.                                              *)
ResolveAuthentication(t) ==
  /\ UserBegins
  /\ Quiet(t) /\ run[t].pc = "none"
  /\ store[t].tok # "fresh"
  /\ ~(store[t].boot = "complete" /\ store[t].sid = None)
  /\ store' = [store EXCEPT ![t].boot = "checking"]
  /\ run' = [run EXCEPT ![t] = Refreshing(t, @)]
  /\ UNCHANGED <<row, jar, act, call, inbox, lock, orphans, strayed, out, ending>>

(* getFreshAuthHeaders: a token about to expire is replaced first. *)
GetFreshAuthHeaders(t) ==
  /\ UserBegins
  /\ Quiet(t) /\ run[t].pc = "none"
  /\ run' = [run EXCEPT ![t] = Refreshing(t, @)]
  /\ UNCHANGED <<row, jar, store, act, call, inbox, lock, orphans, strayed, out, ending>>

(* The lock is granted: the run goes on if nothing superseded it. *)
GrantLock(t) ==
  /\ Quiet(t) /\ run[t].pc = "lock" /\ lock = None
  /\ IF run[t].cur
     THEN /\ run' = [run EXCEPT ![t] = Request(store[t].sid, TRUE)]
          /\ lock' = t
          /\ UNCHANGED <<act, call>>
     ELSE Settle(t, "transient")
  /\ UNCHANGED <<row, jar, store, inbox, orphans, strayed, out, ending, begun>>

ServeRefresh(t) ==
  /\ run[t].pc = "sent"
  /\ \E ans \in RefreshAnswer(run[t].sid, run[t].ck), lost \in BOOLEAN :
       /\ Within(ans, run[t].ck)
       /\ row' = RefreshedRow(run[t].sid, run[t].ck, ans)
       /\ run' = [run EXCEPT ![t].pc = "answered",
                             ![t].ans = IF lost THEN "error" ELSE ans]
       /\ strayed' = IF lost /\ ans = "ok" THEN strayed \cup {run[t].ck.sid}
                     ELSE strayed
  /\ UNCHANGED <<jar, store, act, call, inbox, lock, orphans, out, ending, begun>>

(* The request is lost, limited, or fails on the server.  A session that   *)
(* cannot be looked up is answered like one that does not exist.           *)
FailRefresh(t) ==
  /\ run[t].pc = "sent"
  /\ \/ run' = [run EXCEPT ![t].pc = "answered", ![t].ans = "error"]
     \/ /\ run[t].ck # NoCookie /\ Expected(run[t].sid, run[t].ck)
        /\ run' = [run EXCEPT ![t].pc = "answered", ![t].ans = "unauth"]
  /\ UNCHANGED <<row, jar, store, act, call, inbox, lock, orphans, strayed, out, ending, begun>>

Arrived(t, ans) == Quiet(t) /\ run[t].pc = "answered" /\ run[t].ans = ans

(* The browser applies the cookie of an answer whatever the page does. *)
ApplyCookie(r) ==
  jar' = CASE r.ans = "ok" -> [sid |-> r.ck.sid, gen |-> r.ck.gen + 1]
           [] r.ans \in {"unauth", "blocked"} -> NoCookie
           [] OTHER -> jar

(* A newer sign-in, sign-out or rotation superseded the run. *)
DropSuperseded(t) ==
  /\ Quiet(t) /\ run[t].pc = "answered" /\ ~run[t].cur
  /\ ApplyCookie(run[t])
  /\ Settle(t, "transient")
  /\ UNCHANGED <<row, store, inbox, orphans, strayed, out, ending, begun>>

AcceptBundle(t) ==
  /\ Arrived(t, "ok") /\ run[t].cur
  /\ ApplyCookie(run[t])
  /\ Show(t, run[t].ck.sid)
  /\ Settle(t, "authenticated")
  /\ UNCHANGED <<row, inbox, orphans, strayed, out, ending, begun>>

(* The cookie belongs to another session: forget this one, ask once more   *)
(* without naming it.  reset('idle') leaves the epoch alone.               *)
RetryMismatch(t) ==
  /\ Arrived(t, "mismatch") /\ run[t].cur /\ run[t].first
  /\ Reset(t, "idle")
  /\ run' = [run EXCEPT ![t] = Request(None, FALSE)]
  /\ UNCHANGED <<row, jar, act, call, inbox, lock, orphans, strayed, out, ending, begun>>

ConfirmAnonymous(t) ==
  /\ Arrived(t, "unauth") /\ run[t].cur
  /\ ApplyCookie(run[t])
  /\ Reset(t, "complete")
  /\ Publish(t, "signed_out", store[t].sid)
  /\ Settle(t, "anonymous")
  /\ UNCHANGED <<row, orphans, strayed, out, ending, begun>>

MarkTransient(t) ==
  /\ Arrived(t, "error") /\ run[t].cur
  /\ store' = [store EXCEPT ![t].boot = "idle"]
  /\ Settle(t, "transient")
  /\ UNCHANGED <<row, jar, inbox, orphans, strayed, out, ending, begun>>

(* Any other answer ends the local session without telling other tabs.     *)
(* (A second mismatch would too, but the retry names no session.)          *)
FallOutOfSync(t) ==
  /\ Arrived(t, "blocked") /\ run[t].cur
  /\ ApplyCookie(run[t])
  /\ Reset(t, "complete")
  /\ Settle(t, "out_of_sync")
  /\ UNCHANGED <<row, inbox, orphans, strayed, out, ending, begun>>

-----------------------------------------------------------------------------
(* Sign-in: the form is shown to a tab that knows no session.              *)

StartLogin(t) ==
  /\ UserBegins
  /\ Quiet(t) /\ act[t].pc = "none"
  /\ run[t].pc = "none" /\ store[t].sid = None
  /\ \E s \in Sids : row[s].st = "none"
  /\ act' = [act EXCEPT ![t] = [NoAct EXCEPT !.op = "login", !.pc = "sent"]]
  /\ UNCHANGED <<row, jar, store, run, call, inbox, lock, orphans, strayed, out, ending>>

ServeLogin(t) ==
  /\ act[t].op = "login" /\ act[t].pc = "sent"
  /\ \/ \E s \in Sids :
          /\ row[s].st = "none"
          /\ row' = [row EXCEPT ![s] = NewRow]
          /\ act' = [act EXCEPT ![t].pc = "answered", ![t].ans = "ok",
                                ![t].ck = [sid |-> s, gen |-> 1]]
     \/ /\ act' = [act EXCEPT ![t].pc = "answered", ![t].ans = "error"]
        /\ UNCHANGED row
  /\ UNCHANGED <<jar, store, run, call, inbox, lock, orphans, strayed, out, ending, begun>>

(* handleLoginSuccess: applyAuthBundle, announced to the other tabs. *)
HandleLogin(t) ==
  /\ Quiet(t) /\ act[t].op = "login" /\ act[t].pc = "answered"
  /\ act' = [act EXCEPT ![t] = NoAct]
  /\ IF act[t].ans = "ok"
     THEN /\ jar' = act[t].ck
          /\ Show(t, act[t].ck.sid)
          /\ Supersede(t)
          /\ Publish(t, "authenticated", act[t].ck.sid)
     ELSE UNCHANGED <<jar, store, run, inbox>>
  /\ UNCHANGED <<row, call, lock, orphans, strayed, out, ending, begun>>

-----------------------------------------------------------------------------
(* Sign-out: executeLogout and handleSignOut                               *)

Logout(t, first) == [op |-> "logout", pc |-> "sent", sid |-> store[t].sid,
                     tok |-> store[t].tok, ck |-> jar, first |-> first,
                     ans |-> "none"]

(* A sign-out is meant for the session the page shows when it is sent. *)
Ends(sid) == ending' = ending \cup ({sid} \cap Sids)

StartLogout(t) ==
  /\ UserBegins
  /\ "logout" \in Ops
  /\ Quiet(t) /\ act[t].pc = "none" /\ store[t].sid # None
  /\ act' = [act EXCEPT ![t] = Logout(t, TRUE)]
  /\ Ends(store[t].sid)
  /\ UNCHANGED <<row, jar, store, run, call, inbox, lock, orphans, strayed, out>>

(* The request, or only its answer, may fail or be lost. *)
ServeLogout(t) ==
  /\ act[t].op = "logout" /\ act[t].pc = "sent"
  /\ LET a == act[t]
         ans == LogoutAnswer(a.sid, a.tok, a.ck) IN
       \E served, heard \in BOOLEAN :
         /\ heard => served
         /\ row' = IF ans = "mismatch" \/ ~served THEN row
                   ELSE LoggedOutRow(a.sid, a.tok, a.ck)
         /\ act' = [act EXCEPT ![t] = [NoAct EXCEPT !.op = "logout",
                      !.pc = "answered", !.first = a.first,
                      !.ans = IF heard THEN ans ELSE "error"]]
  /\ UNCHANGED <<jar, store, run, call, inbox, lock, orphans, strayed, out, ending, begun>>

SignedOut(t) ==
  /\ Reset(t, "complete")
  /\ Supersede(t)
  /\ Publish(t, "signed_out", store[t].sid)
  /\ out' = [out EXCEPT ![t] = @ \cup {s \in Sids : s = store[t].sid
                                                /\ row[s].st = "revoked"}]

CompleteLogout(t) ==
  /\ Quiet(t) /\ act[t].op = "logout" /\ act[t].pc = "answered"
  /\ act[t].ans \in {"kept", "cleared"}
  /\ jar' = IF act[t].ans = "cleared" THEN NoCookie ELSE jar
  /\ SignedOut(t)
  /\ act' = [act EXCEPT ![t] = NoAct]
  /\ UNCHANGED <<row, call, lock, orphans, strayed, ending, begun>>

(* A mismatch is recovered from once, by a refresh; anything else is       *)
(* reported and changes nothing.                                           *)
RecoverLogout(t) ==
  /\ Quiet(t) /\ act[t].op = "logout" /\ act[t].pc = "answered"
  /\ act[t].ans \in {"mismatch", "error"}
  /\ IF act[t].ans = "mismatch" /\ act[t].first
     THEN /\ act' = [act EXCEPT ![t].pc = "wait"]
          /\ run' = [run EXCEPT ![t] = Refreshing(t, @)]
     ELSE act' = [act EXCEPT ![t] = NoAct] /\ UNCHANGED run
  /\ UNCHANGED <<row, jar, store, call, inbox, lock, orphans, strayed, out, ending, begun>>

ResumeLogout(t) ==
  /\ act[t].pc = "resume"
  /\ CASE act[t].ans = "authenticated" ->
             /\ act' = [act EXCEPT ![t] = Logout(t, FALSE)]
             /\ Ends(store[t].sid)
             /\ UNCHANGED <<store, run, inbox, out>>
       [] act[t].ans = "anonymous" ->
             /\ act' = [act EXCEPT ![t] = NoAct]
             /\ SignedOut(t)
             /\ UNCHANGED ending
       [] OTHER -> /\ act' = [act EXCEPT ![t] = NoAct]
                   /\ UNCHANGED <<store, run, inbox, out, ending>>
  /\ UNCHANGED <<row, jar, call, lock, orphans, strayed, begun>>

-----------------------------------------------------------------------------
(* API requests: the interceptors of http-client.ts                        *)

StartCall(t) ==
  /\ UserBegins
  /\ "call" \in Ops
  /\ Quiet(t) /\ call[t].pc = "none"
  /\ call' = [call EXCEPT ![t] = [pc |-> "sent", sid |-> store[t].sid,
                 tok |-> store[t].tok, again |-> FALSE, ans |-> "none"]]
  /\ UNCHANGED <<row, jar, store, run, act, inbox, lock, orphans, strayed, out, ending>>

Authorized(c) == c.tok = "fresh" /\ row[c.sid].st = "active"

ServeCall(t) ==
  /\ call[t].pc = "sent"
  /\ call' = [call EXCEPT ![t] =
       IF Authorized(@) THEN [@ EXCEPT !.pc = "answered", !.ans = "ok"]
       ELSE [NoCall EXCEPT !.pc = "answered", !.ans = "unauth", !.again = call[t].again]]
  /\ UNCHANGED <<row, jar, store, run, act, inbox, lock, orphans, strayed, out, ending, begun>>

(* An answer may carry a new access token of the session it was asked      *)
(* under: applyAuthRotation.                                               *)
CompleteCall(t) ==
  /\ Quiet(t) /\ call[t].pc = "answered" /\ call[t].ans = "ok"
  /\ call' = [call EXCEPT ![t] = NoCall]
  /\ \/ store[t].sid = call[t].sid /\ Show(t, call[t].sid) /\ Supersede(t)
     \/ UNCHANGED <<store, run>>
  /\ UNCHANGED <<row, jar, act, inbox, lock, orphans, strayed, out, ending, begun>>

(* The first 401 waits for a refresh, the second ends the local session    *)
(* and leaves for /sign-in.                                                *)
RefuseCall(t) ==
  /\ Quiet(t) /\ call[t].pc = "answered" /\ call[t].ans = "unauth"
  /\ ~call[t].again
  /\ call' = [call EXCEPT ![t].pc = "wait", ![t].again = TRUE]
  /\ run' = [run EXCEPT ![t] = Refreshing(t, @)]
  /\ UNCHANGED <<row, jar, store, act, inbox, lock, orphans, strayed, out, ending, begun>>

RedirectRefused(t) ==
  /\ Quiet(t) /\ call[t].pc = "answered" /\ call[t].ans = "unauth"
  /\ call[t].again
  /\ Unload(t)
  /\ UNCHANGED <<row, jar, out, ending, begun>>

(* The same on the sign-in page itself, where nothing is left to load. *)
ClearRefused(t) ==
  /\ Quiet(t) /\ call[t].pc = "answered" /\ call[t].ans = "unauth"
  /\ call[t].again
  /\ Reset(t, "complete") /\ Supersede(t)
  /\ call' = [call EXCEPT ![t] = NoCall]
  /\ UNCHANGED <<row, jar, act, inbox, lock, orphans, strayed, out, ending, begun>>

(* The request is sent again under whatever session the refresh restored. *)
ResumeCall(t) ==
  /\ call[t].pc = "resume"
  /\ \/ /\ call[t].ans = "authenticated"
        /\ call' = [call EXCEPT ![t] = [@ EXCEPT !.pc = "sent", !.ans = "none",
                                  !.sid = store[t].sid, !.tok = store[t].tok]]
        /\ UNCHANGED <<store, run, act, inbox, lock, orphans, strayed>>
     \/ /\ call[t].ans # "authenticated"
        /\ call' = [call EXCEPT ![t] = NoCall]
        /\ UNCHANGED <<store, run, act, inbox, lock, orphans, strayed>>
     \/ call[t].ans \in {"anonymous", "out_of_sync"} /\ Unload(t)
  /\ UNCHANGED <<row, jar, out, ending, begun>>

-----------------------------------------------------------------------------
(* Events, page loads, and what happens elsewhere                          *)

(* The listener of the root route. *)
DeliverSignedOut(t) ==
  /\ Quiet(t) /\ inbox[t] # <<>>
  /\ Head(inbox[t]).kind = "signed_out"
  /\ inbox' = [inbox EXCEPT ![t] = Tail(@)]
  /\ IF Head(inbox[t]).sid = store[t].sid
     THEN Reset(t, "complete") /\ Supersede(t)
     ELSE UNCHANGED <<store, run>>
  /\ UNCHANGED <<row, jar, act, call, lock, orphans, strayed, out, ending, begun>>

(* Another session than the tab's own: the page is loaded anew. *)
DeliverAuthenticated(t) ==
  /\ Quiet(t) /\ inbox[t] # <<>>
  /\ Head(inbox[t]).kind = "authenticated"
  /\ IF Head(inbox[t]).sid = store[t].sid
     THEN /\ inbox' = [inbox EXCEPT ![t] = Tail(@)]
          /\ UNCHANGED <<store, run, act, call, lock, orphans, strayed>>
     ELSE Unload(t)
  /\ UNCHANGED <<row, jar, out, ending, begun>>

(* A tab that was frozen for a minute ignores what it missed. *)
DropStaleEvent(t) ==
  /\ inbox[t] # <<>>
  /\ inbox' = [inbox EXCEPT ![t] = Tail(@)]
  /\ UNCHANGED <<row, jar, store, run, act, call, lock, orphans, strayed, out, ending, begun>>

Reload(t) == UserBegins /\ Unload(t) /\ UNCHANGED <<row, jar, out, ending>>

(* The server handles, or never gets, what an unloaded page had sent. *)
ServeOrphan ==
  /\ \E o \in orphans :
       /\ orphans' = orphans \ {o}
       /\ \/ /\ o.op = "refresh"
             /\ \E ans \in RefreshAnswer(o.sid, o.ck) :
                  /\ Within(ans, o.ck)
                  /\ row' = RefreshedRow(o.sid, o.ck, ans)
          \/ /\ o.op = "logout" /\ LogoutAnswer(o.sid, o.tok, o.ck) # "mismatch"
             /\ row' = LoggedOutRow(o.sid, o.tok, o.ck)
          \/ UNCHANGED row
  /\ UNCHANGED <<jar, strayed, out, ending, begun>> /\ UNCHANGED pages

Expire(t) ==
  /\ store[t].tok = "fresh"
  /\ store' = [store EXCEPT ![t].tok = "expired"]
  /\ UNCHANGED <<row, jar, run, act, call, inbox, lock, orphans, strayed, out, ending, begun>>

(* The replay window of a rotation closes. *)
CloseReplayWindow(s) ==
  /\ row[s].replay
  /\ row' = [row EXCEPT ![s].replay = FALSE]
  /\ UNCHANGED <<jar, orphans, strayed, out, ending, begun>> /\ UNCHANGED pages

(* An administrator, another device or a security change revokes it. *)
RevokeElsewhere(s) ==
  /\ UserBegins
  /\ row[s].st = "active"
  /\ row' = Revoked(s)
  /\ Ends(s)
  /\ UNCHANGED <<jar, orphans, strayed, out>> /\ UNCHANGED pages

Handle(t) == \/ DropSuperseded(t) \/ AcceptBundle(t) \/ RetryMismatch(t)
             \/ ConfirmAnonymous(t) \/ MarkTransient(t) \/ FallOutOfSync(t)
FinishAct(t) == \/ HandleLogin(t) \/ CompleteLogout(t) \/ RecoverLogout(t)
                \/ ResumeLogout(t)
FinishCall(t) == \/ CompleteCall(t) \/ RefuseCall(t) \/ RedirectRefused(t)
                 \/ ClearRefused(t) \/ ResumeCall(t)

Next ==
  \/ \E t \in Tabs :
       \/ ResolveAuthentication(t) \/ GetFreshAuthHeaders(t) \/ GrantLock(t)
       \/ ServeRefresh(t) \/ FailRefresh(t) \/ Handle(t)
       \/ StartLogin(t) \/ ServeLogin(t)
       \/ StartLogout(t) \/ ServeLogout(t)
       \/ FinishAct(t)
       \/ StartCall(t) \/ ServeCall(t) \/ FinishCall(t)
       \/ DeliverSignedOut(t) \/ DeliverAuthenticated(t) \/ DropStaleEvent(t)
       \/ Reload(t) \/ Expire(t)
  \/ ServeOrphan
  \/ \E s \in Sids : CloseReplayWindow(s) \/ RevokeElsewhere(s)

(* Answers arrive or fail and callbacks run; the browser grants a lock in  *)
(* the order it was asked for.                                             *)
Fairness ==
  \A t \in Tabs :
    /\ WF_vars(ServeRefresh(t) \/ FailRefresh(t)) /\ WF_vars(Handle(t))
    /\ SF_vars(GrantLock(t))
    /\ WF_vars(ServeLogin(t) \/ ServeLogout(t)) /\ WF_vars(FinishAct(t))
    /\ WF_vars(ServeCall(t)) /\ WF_vars(FinishCall(t))

Spec == Init /\ [][Next]_vars /\ Fairness

-----------------------------------------------------------------------------
(* Properties                                                              *)

(* Tabs with different sessions share one cookie, and a sign-out is known  *)
(* by the cookie when its access token has expired.  A session ends on     *)
(* request only if it is the one the page showed when it sent the request, *)
(* at first or again after a mismatch, or was revoked from elsewhere: the  *)
(* X-Auth-Session header holds for retries and for unloaded pages too.     *)
EndedAsAsked ==
  \A s \in Sids : row[s].why = "asked" => s \in ending

(* A tab that signed out of a session the server has revoked never shows   *)
(* it again, whatever refresh was under way (authEpoch).                   *)
SignedOutStaysOut ==
  \A t \in Tabs : store[t].sid \notin out[t]

(* With Web Locks a session is revoked for reuse only if some refresh of   *)
(* it was cut off from its answer, by the network or by a page load: tabs  *)
(* never trip the detection among themselves.                              *)
NoFalseReuse ==
  Locks => \A s \in Sids : row[s].why = "reuse" => s \in strayed

(* Nobody waits for ever: refreshes, sign-ins, sign-outs and requests that *)
(* join each other and queue on one lock all end.                          *)
WaitsEnd ==
  \A t \in Tabs :
    /\ (run[t].pc # "none") ~> (run[t].pc = "none")
    /\ (act[t].pc # "none") ~> (act[t].pc = "none")
    /\ (call[t].pc # "none") ~> (call[t].pc = "none")

=============================================================================
