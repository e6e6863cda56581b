---------------------------- MODULE UserSessions ----------------------------
(***************************************************************************)
(* One login session of the gateway: its row in user_sessions, its         *)
(* snapshot in Redis, and the request handlers that validate, refresh,     *)
(* advance and revoke it (model/user_session.go, service/auth_session.go). *)
(*                                                                         *)
(* Every handler runs between database and Redis calls that other handlers *)
(* interleave with; the clock moves between any two of them.  A handler is *)
(* a program counter and the few values it carries from one call to the    *)
(* next.  Redis instances are the set Caches, CacheOf says which one the   *)
(* node of a handler uses: one instance for all is the shared topology of  *)
(* docs/authentication.md, one per handler the separate one.               *)
(*                                                                         *)
(* A session's Version and UserAuthVersion change together, in             *)
(* AdvanceUserSessionAuthVersion only, and are one number here; refresh    *)
(* secrets are derived from each other and are numbered by generation.     *)
(***************************************************************************)
EXTENDS Naturals

CONSTANTS Procs,      \* request handlers
          Caches,     \* Redis instances
          CacheOf,    \* the instance of each handler's node
          TTL,        \* userCacheTTLSeconds: SYNC_FREQUENCY
          Grace,      \* RefreshReplayWindow
          Retention,  \* UserSessionRevokedRetentionDays
          ExpiresAt,  \* the session's expires_at
          Ops,        \* the operations of this instance
          MaxTime,    \* bound on the clock
          MaxVersion, \* bound on the user's auth version
          MaxGen,     \* bound on refresh rotations
          NoOne       \* no handler

ASSUME SessionAssumption ==
  /\ CacheOf \in [Procs -> Caches]
  /\ NoOne \notin Procs
  /\ Ops \subseteq {"validate", "refresh", "advance", "logout", "revoke", "revokeAll"}
  /\ TTL \in Nat \ {0}
  /\ Grace \in Nat /\ Retention \in Nat /\ ExpiresAt \in Nat
  /\ MaxTime \in Nat /\ MaxVersion \in Nat /\ MaxGen \in Nat

VARIABLES now,        \* the clock
          userVer,    \* users.auth_version
          db,         \* the row
          revokedAt,  \* when its revocation was committed, 0 before
          lock,       \* the handler holding the row FOR UPDATE
          cache,      \* the snapshot in each Redis
          proc,       \* each handler's program counter and locals
          start,      \* when each handler's request began
          verdict,    \* each handler's answer: were credentials accepted?
          era         \* "before" or "after" the final tombstone reached Redis

vars == <<now, userVer, db, revokedAt, lock, cache, proc, start, verdict, era>>

NoEntry == [st |-> "none", ver |-> 0, exp |-> 0]
Idle == [op |-> "none", pc |-> "idle", ver |-> 0, tok |-> 0, deadline |-> 0,
         tries |-> 0, era |-> "before"]

Eras == {"before", "after"}
Replies == {"answered", "cut off", "lost"}  \* of a call to Redis: an error may come
                                            \* before or after the call took effect
Denying == {"revoking", "revoked"}
Row == [st : {"none", "active", "revoked"}, ver : Nat, gen : Nat,
        prevUntil : Nat, reason : {"none", "asked", "reuse", "security"}]
CacheEntry == [st : {"none", "active"} \cup Denying, ver : Nat, exp : Nat]
PCs == {"idle", "lookup", "select", "fill", "filled", "confirm",
        "tomb", "userCheck", "rotRead", "rotSwap", "candidate", "fence",
        "commit", "seal", "hashLock", "hashFence", "hashCommit", "bump",
        "advance"}
Handler == [op : {"none", "create", "rotated", "security", "reuse"} \cup Ops, pc : PCs, ver : Nat, tok : Nat,
            deadline : Nat, tries : Nat, era : Eras]

(* The row, its snapshots and the handlers keep their types. *)
TypeOK ==
  /\ now \in Nat /\ userVer \in Nat
  /\ db \in Row
  /\ revokedAt \in Nat
  /\ lock \in Procs \cup {NoOne}
  /\ cache \in [Caches -> CacheEntry]
  /\ proc \in [Procs -> Handler]
  /\ start \in [Procs -> Nat]
  /\ verdict \in [Procs -> {"none", "admit", "deny"}]
  /\ era \in Eras

Init ==
  /\ now = 1 /\ userVer = 1
  /\ db = [st |-> "none", ver |-> 0, gen |-> 0, prevUntil |-> 0, reason |-> "none"]
  /\ revokedAt = 0 /\ lock = NoOne
  /\ cache = [c \in Caches |-> NoEntry]
  /\ proc = [p \in Procs |-> Idle]
  /\ start = [p \in Procs |-> 0]
  /\ verdict = [p \in Procs |-> "none"]
  /\ era = "before"

-----------------------------------------------------------------------------
(* Redis: the script of writeUserSessionCache.  Tick drops entries whose   *)
(* expiry has passed.                                                      *)

(* Mutant: only the version is compared. *)
AcceptsOverDeny(c, st, ver) == cache[c].ver <= ver

(* The script refuses an active snapshot over a deny state, and any        *)
(* snapshot older than the one stored.                                     *)
Accepts(c, st, ver) ==
  /\ ~(st = "active" /\ cache[c].st \in Denying)
  /\ cache[c].ver <= ver

(* Mutant: a snapshot lives TTL from the time it is written. *)
ActiveExpiryAtFill(deadline) == IF ExpiresAt < now + TTL THEN ExpiresAt ELSE now + TTL

(* An active snapshot inherits the deadline captured before its read; a    *)
(* deny state lives TTL from now, never past the session by more than a    *)
(* second.                                                                 *)
ActiveExpiry(deadline) == IF ExpiresAt < deadline THEN ExpiresAt ELSE deadline
DenyExpiry == IF ExpiresAt <= now THEN now + 1
              ELSE IF ExpiresAt < now + TTL THEN ExpiresAt ELSE now + TTL

Store(c, st, ver, exp) ==
  cache' = [cache EXCEPT ![c] = [st |-> st, ver |-> ver, exp |-> exp]]

(* A deny state is written, refused by the script, or lost with Redis. *)
DenyWrite(p, st, ver, reply) ==
  IF reply # "lost" /\ Accepts(CacheOf[p], st, ver)
  THEN Store(CacheOf[p], st, ver, DenyExpiry)
  ELSE UNCHANGED cache

-----------------------------------------------------------------------------
(* Bookkeeping of a handler.                                               *)

Step(p, h) == /\ proc' = [proc EXCEPT ![p] = h]
              /\ UNCHANGED <<start, verdict>>
Goto(p, pc) == Step(p, [proc[p] EXCEPT !.pc = pc])
Answer(p, v) == /\ start' = [start EXCEPT ![p] = 0]
                /\ proc' = [proc EXCEPT ![p] = Idle]
                /\ verdict' = [verdict EXCEPT ![p] = v]
Active == db.st = "active" /\ now < ExpiresAt
(* CAS statements and checks compare expires_at with the time the call     *)
(* began.                                                                  *)
ActiveAt(t) == db.st = "active" /\ t < ExpiresAt
Unlocked == lock = NoOne

First(op) == CASE op \in {"validate", "refresh"} -> "lookup"
               [] op = "advance" -> "bump"
               [] op = "logout" -> "hashLock"
               [] op \in {"revoke", "revokeAll"} -> "candidate"

(* What a request presents: a validation the version of its access token,  *)
(* a refresh or a logout the generation of its refresh secret, a change of *)
(* security settings the identity its own request was validated with.      *)
Presented(op) == CASE op = "validate" -> 1..userVer
                   [] op \in {"refresh", "logout"} -> 1..db.gen
                   [] op = "advance" -> {v \in {db.ver} : userVer < MaxVersion}
                   [] op \in {"revoke", "revokeAll"} -> {0}

Begin(p, op, tok) ==
  /\ proc[p].pc = "idle"
  /\ db.gen > 0
  /\ tok \in Presented(op)
  /\ proc' = [proc EXCEPT ![p] = [Idle EXCEPT !.op = op, !.pc = First(op),
                                              !.tok = tok, !.era = era]]
  /\ start' = [start EXCEPT ![p] = now]
  /\ verdict' = [verdict EXCEPT ![p] = "none"]
  /\ UNCHANGED <<now, userVer, db, revokedAt, lock, cache, era>>

(* CreateUserSession: the row, and on to its first snapshot. *)
CreateUserSession(p) ==
  /\ proc[p].pc = "idle"
  /\ db.gen = 0 /\ now < ExpiresAt
  /\ db' = [db EXCEPT !.st = "active", !.ver = userVer, !.gen = 1]
  /\ proc' = [proc EXCEPT ![p] = [Idle EXCEPT !.op = "create", !.pc = "fill",
                                     !.ver = userVer, !.deadline = now + TTL]]
  /\ start' = [start EXCEPT ![p] = now]
  /\ verdict' = [verdict EXCEPT ![p] = "none"]
  /\ UNCHANGED <<now, userVer, revokedAt, lock, cache, era>>

-----------------------------------------------------------------------------
(* GetUserSessionCached                                                    *)

(* The session was found active at version ver: a validation compares it   *)
(* with the token and the user, a refresh goes on to check the user.       *)
Found(p, ver) ==
  IF proc[p].op = "refresh"
  THEN Step(p, [proc[p] EXCEPT !.pc = "userCheck", !.ver = ver])
  ELSE Answer(p, IF proc[p].op = "validate" => proc[p].tok = ver /\ ver = userVer
                 THEN "admit" ELSE "deny")

(* getUserSessionCache: an active snapshot is used as it is, a deny state  *)
(* never falls back to the database.                                       *)
CacheHit(p) ==
  /\ proc[p].pc = "lookup"
  /\ LET e == cache[CacheOf[p]] IN
       /\ e.st # "none"
       /\ IF e.st = "active" /\ now < ExpiresAt THEN Found(p, e.ver)
          ELSE Answer(p, "deny")
  /\ UNCHANGED <<now, userVer, db, revokedAt, lock, cache, era>>

(* A miss, or Redis cannot be read: the deadline of the snapshot to come   *)
(* is captured before the row is read.                                     *)
CacheMiss(p) ==
  /\ proc[p].pc = "lookup"
  /\ Step(p, [proc[p] EXCEPT !.pc = "select", !.deadline = now + TTL])
  /\ UNCHANGED <<now, userVer, db, revokedAt, lock, cache, era>>

SelectRow(p) ==
  /\ proc[p].pc = "select"
  /\ IF Active THEN Step(p, [proc[p] EXCEPT !.pc = "fill", !.ver = db.ver])
     ELSE IF db.st = "none" THEN Answer(p, "deny")
     ELSE Step(p, [proc[p] EXCEPT !.pc = "tomb", !.ver = db.ver])
  /\ UNCHANGED <<now, userVer, db, revokedAt, lock, cache, era>>

(* An inactive row is published as revoked; the result is ignored. *)
PublishInactive(p) ==
  /\ proc[p].pc = "tomb"
  /\ \E reply \in Replies : DenyWrite(p, "revoked", proc[p].ver, reply)
  /\ Answer(p, "deny")
  /\ UNCHANGED <<now, userVer, db, revokedAt, lock, era>>

(* writeUserSessionCache of an active snapshot: an overdue one is not      *)
(* written but confirmed, a refused one means the session is inactive.     *)
FillCache(p) ==
  /\ proc[p].pc = "fill"
  /\ LET c == CacheOf[p] d == proc[p].deadline IN
       IF now >= ActiveExpiry(d)
       THEN /\ IF now >= d THEN Goto(p, "confirm")
               ELSE Answer(p, "deny")
            /\ UNCHANGED cache
       ELSE IF Accepts(c, "active", proc[p].ver)
       THEN /\ Store(c, "active", proc[p].ver, ActiveExpiry(d))
            /\ Goto(p, "filled")
       ELSE Answer(p, "deny") /\ UNCHANGED cache
  /\ UNCHANGED <<now, userVer, db, revokedAt, lock, era>>

(* The script may have taken longer than the deadline allows. *)
FillCompleted(p) ==
  /\ proc[p].pc = "filled"
  /\ IF now >= proc[p].deadline THEN Goto(p, "confirm")
     ELSE IF now >= ExpiresAt THEN Answer(p, "deny")
     ELSE Found(p, proc[p].ver)
  /\ UNCHANGED <<now, userVer, db, revokedAt, lock, cache, era>>

(* Redis reports an error: logged, except when a new version was to be     *)
(* published.  The snapshot may have been stored all the same.             *)
FillLost(p) ==
  /\ proc[p].pc = "fill"
  /\ \/ UNCHANGED cache
     \/ /\ now < ActiveExpiry(proc[p].deadline)
        /\ Accepts(CacheOf[p], "active", proc[p].ver)
        /\ Store(CacheOf[p], "active", proc[p].ver, ActiveExpiry(proc[p].deadline))
  /\ IF proc[p].op = "advance" THEN Answer(p, "deny") ELSE Found(p, proc[p].ver)
  /\ UNCHANGED <<now, userVer, db, revokedAt, lock, era>>

(* confirmUserSessionActiveSnapshot *)
ConfirmSnapshot(p) ==
  /\ proc[p].pc = "confirm"
  /\ IF Active /\ db.ver = proc[p].ver THEN Found(p, proc[p].ver)
     ELSE Answer(p, "deny")
  /\ UNCHANGED <<now, userVer, db, revokedAt, lock, cache, era>>

-----------------------------------------------------------------------------
(* RefreshLoginSession after the session was found                         *)

(* A session of another auth version than the user's is revoked. *)
CheckUser(p) ==
  /\ proc[p].pc = "userCheck"
  /\ Step(p, [proc[p] EXCEPT
       !.pc = IF proc[p].ver = userVer THEN "rotRead" ELSE "candidate",
       !.op = IF proc[p].ver = userVer THEN @ ELSE "security"])
  /\ UNCHANGED <<now, userVer, db, revokedAt, lock, cache, era>>

(* RotateUserSessionRefresh reads the row: the current secret is swapped,  *)
(* the previous one is answered with the same successor inside the replay  *)
(* window and revokes the session after it, any other is refused.          *)
RotateRead(p) ==
  /\ proc[p].pc = "rotRead"
  /\ IF ~ActiveAt(start[p]) THEN Answer(p, "deny")
     ELSE IF proc[p].tok = db.gen
     THEN Step(p, [proc[p] EXCEPT !.pc = "rotSwap", !.ver = db.ver,
                                  !.deadline = now + TTL])
     ELSE IF proc[p].tok + 1 # db.gen THEN Answer(p, "deny")
     ELSE IF start[p] <= db.prevUntil THEN Answer(p, "admit")
     ELSE Step(p, [proc[p] EXCEPT !.pc = "fence", !.op = "reuse",
                                  !.ver = db.ver])
  /\ UNCHANGED <<now, userVer, db, revokedAt, lock, cache, era>>

(* The compare-and-swap on refresh_hash; the loser reads again, at most    *)
(* three times.                                                            *)
RotateSwap(p) ==
  /\ proc[p].pc = "rotSwap" /\ Unlocked
  /\ IF ActiveAt(start[p]) /\ db.gen = proc[p].tok
     THEN /\ db.gen < MaxGen
          /\ db' = [db EXCEPT !.gen = db.gen + 1, !.prevUntil = start[p] + Grace]
          /\ Step(p, [proc[p] EXCEPT !.pc = "fill", !.op = "rotated"])
     ELSE /\ IF proc[p].tries < 2
             THEN Step(p, [proc[p] EXCEPT !.pc = "rotRead", !.tries = @ + 1])
             ELSE Answer(p, "deny")
          /\ UNCHANGED db
  /\ UNCHANGED <<now, userVer, revokedAt, lock, cache, era>>

-----------------------------------------------------------------------------
(* Revocation: RevokeUserSession, revokeUserSessions, the reuse branch of  *)
(* RotateUserSessionRefresh, and RevokeUserSessionByRefreshHash            *)

ReadCandidate(p) ==
  /\ proc[p].pc = "candidate"
  /\ IF Active THEN Step(p, [proc[p] EXCEPT !.pc = "fence", !.ver = db.ver])
     ELSE Answer(p, "deny")
  /\ UNCHANGED <<now, userVer, db, revokedAt, lock, cache, era>>

(* The deny fence comes first; without it nothing is revoked. *)
WriteFence(p) ==
  /\ proc[p].pc = "fence"
  /\ \E reply \in Replies :
       /\ DenyWrite(p, "revoking", proc[p].ver, reply)
       /\ IF reply = "answered" /\ Accepts(CacheOf[p], "revoking", proc[p].ver)
          THEN Goto(p, "commit")
          ELSE Answer(p, "deny")
  /\ UNCHANGED <<now, userVer, db, revokedAt, lock, era>>

Reason(p) == IF proc[p].op \in {"security", "reuse"} THEN proc[p].op ELSE "asked"

(* The bulk variant publishes the version it reads under the lock. *)
CommitRevocation(p) ==
  /\ proc[p].pc = "commit" /\ Unlocked
  /\ IF ActiveAt(start[p])
     THEN /\ db' = [db EXCEPT !.st = "revoked", !.reason = Reason(p)]
          /\ revokedAt' = now
          /\ Step(p, [proc[p] EXCEPT !.pc = "seal",
                        !.ver = IF proc[p].op = "revokeAll" THEN db.ver ELSE @])
     ELSE Answer(p, "deny") /\ UNCHANGED <<db, revokedAt>>
  /\ UNCHANGED <<now, userVer, lock, cache, era>>

(* The final tombstone; a failure is only logged. *)
WriteTombstone(p) ==
  /\ proc[p].pc = "seal"
  /\ \E reply \in Replies :
       /\ DenyWrite(p, "revoked", proc[p].ver, reply)
       /\ era' = IF reply # "lost" /\ Accepts(CacheOf[p], "revoked", proc[p].ver)
                 THEN "after" ELSE era
  /\ Answer(p, "deny")
  /\ UNCHANGED <<now, userVer, db, revokedAt, lock>>

(* Logout by refresh secret holds the row from its check to its commit. *)
LockByHash(p) ==
  /\ proc[p].pc = "hashLock" /\ Unlocked
  /\ IF /\ ActiveAt(start[p])
        /\ \/ proc[p].tok = db.gen
           \/ proc[p].tok + 1 = db.gen /\ start[p] <= db.prevUntil
     THEN /\ lock' = p
          /\ Step(p, [proc[p] EXCEPT !.pc = "hashFence", !.ver = db.ver])
     ELSE Answer(p, "deny") /\ UNCHANGED lock
  /\ UNCHANGED <<now, userVer, db, revokedAt, cache, era>>

HashFence(p) ==
  /\ proc[p].pc = "hashFence"
  /\ \E reply \in Replies :
       /\ DenyWrite(p, "revoking", proc[p].ver, reply)
       /\ IF reply = "answered" /\ Accepts(CacheOf[p], "revoking", proc[p].ver)
          THEN Goto(p, "hashCommit") /\ UNCHANGED lock
          ELSE Answer(p, "deny") /\ lock' = NoOne
  /\ UNCHANGED <<now, userVer, db, revokedAt, era>>

HashCommit(p) ==
  /\ proc[p].pc = "hashCommit"
  /\ db' = [db EXCEPT !.st = "revoked", !.reason = "asked"]
  /\ revokedAt' = now
  /\ lock' = NoOne
  /\ Goto(p, "seal")
  /\ UNCHANGED <<now, userVer, cache, era>>

-----------------------------------------------------------------------------
(* AdvanceCurrentSessionSecurity                                           *)

(* The user's version is committed in a transaction of its own ... *)
BumpUserAuthVersion(p) ==
  /\ proc[p].pc = "bump"
  /\ userVer < MaxVersion
  /\ userVer' = userVer + 1
  /\ Step(p, [proc[p] EXCEPT !.pc = "advance", !.ver = userVer + 1,
                             !.deadline = now + TTL])
  /\ UNCHANGED <<now, db, revokedAt, lock, cache, era>>

(* ... and the session follows in the next. *)
AdvanceUserSessionAuthVersion(p) ==
  /\ proc[p].pc = "advance" /\ Unlocked
  /\ IF Active /\ db.ver = proc[p].tok
     THEN /\ db' = [db EXCEPT !.ver = proc[p].ver]
          /\ Step(p, [proc[p] EXCEPT !.pc = "fill"])
     ELSE Answer(p, "deny") /\ UNCHANGED db
  /\ UNCHANGED <<now, userVer, revokedAt, lock, cache, era>>

-----------------------------------------------------------------------------
(* The hourly deletion of rows that expired or were revoked long ago. *)
DeleteOldSession ==
  /\ db.st # "none" /\ Unlocked
  /\ \/ ExpiresAt < now /\ (revokedAt = 0 \/ revokedAt + Retention < now)
     \/ revokedAt > 0 /\ revokedAt + Retention < now
  /\ db' = [db EXCEPT !.st = "none"]
  /\ UNCHANGED <<now, userVer, revokedAt, lock, cache, proc, start, verdict, era>>

Tick ==
  /\ now < MaxTime /\ db.gen > 0
  /\ now' = now + 1
  /\ cache' = [c \in Caches |-> IF cache[c].exp <= now + 1 THEN NoEntry ELSE cache[c]]
  /\ UNCHANGED <<userVer, db, revokedAt, lock, proc, start, verdict, era>>

Next ==
  \/ \E p \in Procs :
       \/ \E op \in Ops : \E tok \in Presented(op) : Begin(p, op, tok)
       \/ CreateUserSession(p)
       \/ CacheHit(p) \/ CacheMiss(p) \/ SelectRow(p) \/ PublishInactive(p)
       \/ FillCache(p) \/ FillCompleted(p) \/ FillLost(p) \/ ConfirmSnapshot(p)
       \/ CheckUser(p) \/ RotateRead(p) \/ RotateSwap(p)
       \/ ReadCandidate(p) \/ WriteFence(p) \/ CommitRevocation(p)
       \/ WriteTombstone(p)
       \/ LockByHash(p) \/ HashFence(p) \/ HashCommit(p)
       \/ BumpUserAuthVersion(p) \/ AdvanceUserSessionAuthVersion(p)
  \/ DeleteOldSession
  \/ Tick

Spec == Init /\ [][Next]_vars

-----------------------------------------------------------------------------
(* The abstract promise, and the properties.                               *)

Gate == INSTANCE SessionGate WITH Window <- TTL

(* With any topology, any delay and any loss of Redis, the detailed        *)
(* handlers implement SessionGate: a request that begins TTL or more after *)
(* a revocation was committed is refused.                                  *)
ImplementsGate == Gate!Spec

SharedRedis == \A c, d \in Caches : c = d

(* With one shared Redis a revocation whose final tombstone was stored is  *)
(* immediate and final: no request that begins afterwards is admitted,     *)
(* neither while the tombstone lives nor by a delayed fill after it.       *)
SealedIsFinal ==
  [][\A p \in Procs :
       SharedRedis /\ proc[p].era = "after" /\ verdict'[p] # verdict[p]
         => verdict'[p] # "admit"]_vars

=============================================================================
