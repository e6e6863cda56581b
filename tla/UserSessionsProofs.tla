------------------------- MODULE UserSessionsProofs -------------------------
(***************************************************************************)
(* UserSessions implements SessionGate for every topology, every delay and *)
(* every loss of Redis.  The inductive invariant says that whatever still  *)
(* vouches for the session, a stored snapshot or a handler about to store  *)
(* or use one, goes back to a moment at which the row was active.          *)
(*                                                                         *)
(* With one shared Redis more holds: the tombstone seals the session.  The *)
(* second invariant says that Redis denies for as long as a snapshot from  *)
(* before the revocation could still be stored, so that a request that     *)
(* begins afterwards never leaves the calls that end in a refusal.         *)
(***************************************************************************)
EXTENDS UserSessions, TLAPS

(* The latest moment at which the row could be seen active. *)
LastActive == IF revokedAt = 0 THEN now ELSE revokedAt

(* Handlers that act on a row they have seen active. *)
HasSnapshot(p) == proc[p].pc \in {"fill", "filled"}

(* A revocation happens once, to a row nobody else holds. *)
RowInv ==
  /\ now > 0 /\ revokedAt <= now
  /\ db.st = "active" => revokedAt = 0 /\ db.gen > 0
  /\ revokedAt > 0 => db.gen > 0
  /\ lock # NoOne => db.st = "active"
  /\ \A p \in Procs : proc[p].pc \in {"hashFence", "hashCommit"} => lock = p

(* Stored snapshots end TTL after the row was last active. *)
CacheInv ==
  \A c \in Caches : cache[c].st # "none" =>
    /\ now < cache[c].exp
    /\ cache[c].st = "active" => cache[c].exp <= LastActive + TTL

(* So do those on their way, and their handlers began before. *)
SnapshotInv ==
  \A p \in Procs :
    /\ proc[p].deadline <= now + TTL
    /\ HasSnapshot(p) => /\ proc[p].deadline <= LastActive + TTL
                         /\ start[p] <= LastActive

StartInv ==
  \A p \in Procs :
    /\ start[p] <= now
    /\ (start[p] = 0) <=> (proc[p].pc = "idle")

GateInv == TypeOK /\ RowInv /\ CacheInv /\ SnapshotInv /\ StartInv

(* What a handler may become by a step that is not its last. *)
GoodStep(p, h) ==
  /\ h \in Handler
  /\ h.pc # "idle"
  /\ h.deadline <= now + TTL
  /\ h.pc \in {"fill", "filled"} => /\ h.deadline <= LastActive + TTL
                                    /\ start[p] <= LastActive

HandlerTypes == /\ proc \in [Procs -> Handler]
                /\ start \in [Procs -> Nat]
                /\ verdict \in [Procs -> {"none", "admit", "deny"}]
DataTypes == /\ now \in Nat /\ userVer \in Nat
             /\ db \in Row
             /\ revokedAt \in Nat
             /\ lock \in Procs \cup {NoOne}
             /\ cache \in [Caches -> CacheEntry]
             /\ era \in Eras
HashHolders == \A p \in Procs : proc[p].pc \in {"hashFence", "hashCommit"} => lock = p
RowFacts ==
  /\ now > 0 /\ revokedAt <= now
  /\ db.st = "active" => revokedAt = 0 /\ db.gen > 0
  /\ revokedAt > 0 => db.gen > 0
  /\ lock # NoOne => db.st = "active"

-----------------------------------------------------------------------------
(* The constants, and the invariant by the parts that steps change. *)

\* What is assumed of periods and times.
LEMMA Times == /\ TTL \in Nat /\ TTL > 0 /\ ExpiresAt \in Nat /\ Grace \in Nat
               /\ Retention \in Nat
  BY SessionAssumption

\* What is assumed of handlers and the Redis of their nodes.
LEMMA Nodes == NoOne \notin Procs /\ \A p \in Procs : CacheOf[p] \in Caches
  BY SessionAssumption

\* The type invariant and RowInv, split by who changes them.
LEMMA Parts == /\ TypeOK <=> DataTypes /\ HandlerTypes
               /\ RowInv <=> RowFacts /\ HashHolders
  BY DEF TypeOK, DataTypes, HandlerTypes, RowInv, RowFacts, HashHolders

\* The same in the next state.
LEMMA PartsNext == /\ TypeOK' <=> DataTypes' /\ HandlerTypes'
                   /\ RowInv' <=> RowFacts' /\ HashHolders'
  BY DEF TypeOK, DataTypes, HandlerTypes, RowInv, RowFacts, HashHolders

\* Before the first request nothing vouches for the session.
LEMMA InitGate == Init => GateInv
<1> SUFFICES ASSUME Init PROVE GateInv
  OBVIOUS
<1>1. TypeOK
  BY DEF Init, NoEntry, Idle, TypeOK, Row, CacheEntry, Handler, PCs, Denying, Eras
<1>2. /\ now = 1 /\ \A p \in Procs : start[p] = 0
      /\ \A p \in Procs : proc[p].pc = "idle" /\ proc[p].deadline = 0
  BY DEF Init, Idle
<1>3. RowInv
  BY DEF Init, Idle, RowInv
<1>4. CacheInv
  <2>1. \A c \in Caches : cache[c].st = "none"
    BY DEF Init, NoEntry
  <2> QED
    BY <2>1 DEF CacheInv
<1>5. SnapshotInv
  <2>1. 0 <= now + TTL
    BY <1>2, Times
  <2> QED
    BY <1>2, <2>1 DEF SnapshotInv, HasSnapshot
<1>6. StartInv
  <2>1. 0 <= now
    BY <1>2
  <2> QED
    BY <1>2, <2>1 DEF StartInv
<1> QED
  BY <1>1, <1>3, <1>4, <1>5, <1>6 DEF GateInv

-----------------------------------------------------------------------------
(* A handler steps or answers while the clock and LastActive stand still. *)

\* A handler that goes on keeps what is known of handlers.
LEMMA HandlerSteps ==
  ASSUME GateInv, NEW p \in Procs, NEW h, GoodStep(p, h), Step(p, h),
         proc[p].pc # "idle", now' = now, LastActive' = LastActive
  PROVE  HandlerTypes' /\ SnapshotInv' /\ StartInv'
<1> USE DEF GateInv, TypeOK, Step, GoodStep
<1>1. HandlerTypes'
  BY DEF HandlerTypes
<1>2. SnapshotInv'
  BY DEF SnapshotInv, HasSnapshot
<1>3. StartInv'
  BY DEF StartInv, Handler
<1> QED
  BY <1>1, <1>2, <1>3

\* So does one that answers.
LEMMA HandlerAnswers ==
  ASSUME GateInv, NEW p \in Procs, NEW v \in {"admit", "deny"}, Answer(p, v),
         now' = now, LastActive' = LastActive
  PROVE  HandlerTypes' /\ SnapshotInv' /\ StartInv'
<1> USE DEF GateInv, TypeOK, Answer, Idle
<1>1. HandlerTypes'
  BY DEF HandlerTypes, Handler, PCs, Eras
<1>2. SnapshotInv'
  BY Times DEF SnapshotInv, HasSnapshot
<1>3. StartInv'
  BY DEF StartInv
<1> QED
  BY <1>1, <1>2, <1>3

-----------------------------------------------------------------------------
(* Steps and answers that touch nothing but the handler. *)

Same == UNCHANGED <<now, userVer, db, revokedAt, lock, cache, era>>

\* What is known of row and snapshots stays while they stay.
LEMMA SameData ==
  ASSUME GateInv, Same
  PROVE  DataTypes' /\ RowFacts' /\ CacheInv' /\ now' = now /\ LastActive' = LastActive
  BY DEF GateInv, Same, TypeOK, DataTypes, RowInv, RowFacts, CacheInv, LastActive

\* A handler that only goes on keeps the invariant.
LEMMA QuietStep ==
  ASSUME GateInv, Same, NEW p \in Procs, NEW h, GoodStep(p, h), Step(p, h),
         proc[p].pc # "idle", h.pc \notin {"hashFence", "hashCommit"}
  PROVE  GateInv'
<1>1. DataTypes' /\ RowFacts' /\ CacheInv' /\ now' = now /\ LastActive' = LastActive
  BY SameData
<1>2. HandlerTypes' /\ SnapshotInv' /\ StartInv'
  BY <1>1, HandlerSteps
<1>3. HashHolders'
  BY DEF GateInv, TypeOK, Same, Step, RowInv, HashHolders
<1> QED
  BY <1>1, <1>2, <1>3, PartsNext DEF GateInv

\* So does one that only answers.
LEMMA QuietAnswer ==
  ASSUME GateInv, Same, NEW p \in Procs, NEW v \in {"admit", "deny"}, Answer(p, v)
  PROVE  GateInv'
<1>1. DataTypes' /\ RowFacts' /\ CacheInv' /\ now' = now /\ LastActive' = LastActive
  BY SameData
<1>2. HandlerTypes' /\ SnapshotInv' /\ StartInv'
  BY <1>1, HandlerAnswers
<1>3. HashHolders'
  BY DEF GateInv, TypeOK, Same, Answer, Idle, RowInv, HashHolders
<1> QED
  BY <1>1, <1>2, <1>3, PartsNext DEF GateInv

(* Redis: a deny state is stored, or nothing changes. *)
LEMMA DenyStored ==
  ASSUME GateInv, NEW p \in Procs, NEW st \in Denying, NEW ver \in Nat, NEW reply,
         DenyWrite(p, st, ver, reply),
         UNCHANGED <<now, revokedAt>>
  PROVE  cache' \in [Caches -> CacheEntry] /\ CacheInv'
<1>1. CASE UNCHANGED cache
  BY <1>1 DEF GateInv, TypeOK, CacheInv, LastActive
<1>2. CASE Store(CacheOf[p], st, ver, DenyExpiry)
  <2>1. DenyExpiry \in Nat /\ now < DenyExpiry
    BY Times DEF GateInv, TypeOK, DenyExpiry
  <2>2. cache' = [cache EXCEPT ![CacheOf[p]] = [st |-> st, ver |-> ver, exp |-> DenyExpiry]]
    BY <1>2 DEF Store
  <2>3. st # "none" /\ st # "active"
    BY DEF Denying
  <2>4. cache' \in [Caches -> CacheEntry]
    BY <2>1, <2>2, Nodes DEF GateInv, TypeOK, CacheEntry
  <2>5. CacheInv'
    BY <2>1, <2>2, <2>3, Nodes DEF GateInv, TypeOK, CacheInv, LastActive
  <2> QED
    BY <2>4, <2>5
<1> QED
  BY <1>1, <1>2 DEF DenyWrite

-----------------------------------------------------------------------------
(* Looking the session up. *)

\* What the invariant says of one handler now.
LEMMA HandlerNow ==
  ASSUME GateInv, NEW p \in Procs
  PROVE  /\ proc[p] \in Handler /\ start[p] \in Nat /\ start[p] <= now
         /\ now \in Nat /\ now > 0 /\ LastActive \in Nat /\ LastActive <= now
         /\ proc[p].deadline \in Nat /\ proc[p].deadline <= now + TTL
         /\ proc[p].ver \in Nat /\ db.ver \in Nat /\ db.gen \in Nat
         /\ db.st = "active" => revokedAt = 0 /\ LastActive = now
  BY DEF GateInv, TypeOK, Handler, Row, StartInv, RowInv, LastActive, SnapshotInv

(* The session was found active: the handler goes on or answers. *)
LEMMA FoundStep ==
  ASSUME GateInv, Same, NEW p \in Procs, proc[p].pc # "idle",
         NEW ver \in Nat, Found(p, ver)
  PROVE  GateInv'
<1>1. CASE proc[p].op = "refresh"
  <2> DEFINE h == [proc[p] EXCEPT !.pc = "userCheck", !.ver = ver]
  <2>1. Step(p, h)
    BY <1>1 DEF Found
  <2>2. GoodStep(p, h) /\ h.pc = "userCheck"
    BY HandlerNow DEF GoodStep, Handler, PCs
  <2> QED
    BY <2>1, <2>2, QuietStep
<1>2. CASE proc[p].op # "refresh"
  <2>1. \E v \in {"admit", "deny"} : Answer(p, v)
    BY <1>2 DEF Found
  <2> QED
    BY <2>1, QuietAnswer
<1> QED
  BY <1>1, <1>2

\* Answering from a snapshot keeps the invariant (getUserSessionCache).
LEMMA GateCacheHit ==
  ASSUME GateInv, NEW p \in Procs, CacheHit(p)
  PROVE  GateInv'
<1>1. Same /\ proc[p].pc = "lookup"
  BY DEF CacheHit, Same
<1>2. CacheOf[p] \in Caches /\ cache[CacheOf[p]].ver \in Nat
  BY Nodes DEF GateInv, TypeOK, CacheEntry
<1>3. Found(p, cache[CacheOf[p]].ver) \/ Answer(p, "deny")
  BY DEF CacheHit
<1> QED
  BY <1>1, <1>2, <1>3, FoundStep, QuietAnswer

\* A miss captures a deadline no later than TTL from now.
LEMMA GateCacheMiss ==
  ASSUME GateInv, NEW p \in Procs, CacheMiss(p)
  PROVE  GateInv'
<1> DEFINE h == [proc[p] EXCEPT !.pc = "select", !.deadline = now + TTL]
<1>1. Same /\ proc[p].pc = "lookup" /\ Step(p, h)
  BY DEF CacheMiss, Same
<1>2. now + TTL \in Nat /\ now + TTL <= now + TTL
  BY HandlerNow, Times
<1>3. GoodStep(p, h) /\ h.pc = "select"
  BY <1>2, HandlerNow DEF GoodStep, Handler, PCs
<1> QED
  BY <1>1, <1>3, QuietStep

\* A row read active is active now, after the deadline was captured.
LEMMA GateSelectRow ==
  ASSUME GateInv, NEW p \in Procs, SelectRow(p)
  PROVE  GateInv'
<1> DEFINE f == [proc[p] EXCEPT !.pc = "fill", !.ver = db.ver]
           g == [proc[p] EXCEPT !.pc = "tomb", !.ver = db.ver]
<1>1. Same /\ proc[p].pc = "select"
  BY DEF SelectRow, Same
<1>2. \/ db.st = "active" /\ Step(p, f)
      \/ Answer(p, "deny")
      \/ Step(p, g)
  BY DEF SelectRow, Active
<1>3. GoodStep(p, g) /\ g.pc = "tomb"
  BY HandlerNow DEF GoodStep, Handler, PCs
<1>4. ASSUME db.st = "active" PROVE GoodStep(p, f) /\ f.pc = "fill"
  BY <1>4, HandlerNow DEF GoodStep, Handler, PCs
<1> QED
  BY <1>1, <1>2, <1>3, <1>4, QuietStep, QuietAnswer

\* A fill that took too long is confirmed instead of used.
LEMMA GateFillCompleted ==
  ASSUME GateInv, NEW p \in Procs, FillCompleted(p)
  PROVE  GateInv'
<1> DEFINE h == [proc[p] EXCEPT !.pc = "confirm"]
<1>1. Same /\ proc[p].pc = "filled"
  BY DEF FillCompleted, Same
<1>2. Step(p, h) \/ Answer(p, "deny") \/ Found(p, proc[p].ver)
  BY DEF FillCompleted, Goto
<1>3. GoodStep(p, h) /\ h.pc = "confirm"
  BY HandlerNow DEF GoodStep, Handler, PCs
<1> QED
  BY <1>1, <1>2, <1>3, HandlerNow, QuietStep, QuietAnswer, FoundStep

\* Reading the row again changes nothing (confirmUserSessionActiveSnapshot).
LEMMA GateConfirmSnapshot ==
  ASSUME GateInv, NEW p \in Procs, ConfirmSnapshot(p)
  PROVE  GateInv'
<1>1. Same /\ proc[p].pc = "confirm"
  BY DEF ConfirmSnapshot, Same
<1>2. Answer(p, "deny") \/ Found(p, proc[p].ver)
  BY DEF ConfirmSnapshot
<1> QED
  BY <1>1, <1>2, HandlerNow, QuietAnswer, FoundStep

-----------------------------------------------------------------------------
(* Writing snapshots. *)

\* A write to Redis that keeps CacheInv, by a handler that goes on.
LEMMA WriteStep ==
  ASSUME GateInv, NEW p \in Procs, NEW h, GoodStep(p, h), Step(p, h),
         proc[p].pc # "idle", h.pc \notin {"hashFence", "hashCommit"},
         UNCHANGED <<now, userVer, db, revokedAt, lock>>, era' \in Eras,
         cache' \in [Caches -> CacheEntry], CacheInv'
  PROVE  GateInv'
<1>1. now' = now /\ LastActive' = LastActive /\ DataTypes' /\ RowFacts'
  BY DEF GateInv, TypeOK, DataTypes, RowInv, RowFacts, LastActive
<1>2. HandlerTypes' /\ SnapshotInv' /\ StartInv'
  BY <1>1, HandlerSteps
<1>3. HashHolders'
  BY DEF GateInv, TypeOK, Step, RowInv, HashHolders
<1> QED
  BY <1>1, <1>2, <1>3, PartsNext DEF GateInv

\* A write to Redis that keeps CacheInv, by a handler that answers.
LEMMA WriteAnswer ==
  ASSUME GateInv, NEW p \in Procs, NEW v \in {"admit", "deny"}, Answer(p, v),
         UNCHANGED <<now, userVer, db, revokedAt, lock>>, era' \in Eras,
         cache' \in [Caches -> CacheEntry], CacheInv'
  PROVE  GateInv'
<1>1. now' = now /\ LastActive' = LastActive /\ DataTypes' /\ RowFacts'
  BY DEF GateInv, TypeOK, DataTypes, RowInv, RowFacts, LastActive
<1>2. HandlerTypes' /\ SnapshotInv' /\ StartInv'
  BY <1>1, HandlerAnswers
<1>3. HashHolders'
  BY DEF GateInv, TypeOK, Answer, Idle, RowInv, HashHolders
<1> QED
  BY <1>1, <1>2, <1>3, PartsNext DEF GateInv

\* Publishing an inactive row writes a deny state or nothing.
LEMMA GatePublishInactive ==
  ASSUME GateInv, NEW p \in Procs, PublishInactive(p)
  PROVE  GateInv'
<1>1. UNCHANGED <<now, userVer, db, revokedAt, lock>> /\ era' \in Eras /\ Answer(p, "deny")
  BY DEF PublishInactive, GateInv, TypeOK
<1>2. PICK reply \in Replies : DenyWrite(p, "revoked", proc[p].ver, reply)
  BY DEF PublishInactive
<1>3. cache' \in [Caches -> CacheEntry] /\ CacheInv'
  BY <1>1, <1>2, HandlerNow, DenyStored DEF Denying
<1> QED
  BY <1>1, <1>3, WriteAnswer

\* So does the final tombstone.
LEMMA GateWriteTombstone ==
  ASSUME GateInv, NEW p \in Procs, WriteTombstone(p)
  PROVE  GateInv'
<1>1. UNCHANGED <<now, userVer, db, revokedAt, lock>> /\ Answer(p, "deny")
  BY DEF WriteTombstone
<1>2. era' \in Eras
  BY DEF WriteTombstone, GateInv, TypeOK, Eras
<1>3. PICK reply \in Replies : DenyWrite(p, "revoked", proc[p].ver, reply)
  BY DEF WriteTombstone
<1>4. cache' \in [Caches -> CacheEntry] /\ CacheInv'
  BY <1>1, <1>3, HandlerNow, DenyStored DEF Denying
<1> QED
  BY <1>1, <1>2, <1>4, WriteAnswer

\* So does the fence before a revocation.
LEMMA GateWriteFence ==
  ASSUME GateInv, NEW p \in Procs, WriteFence(p)
  PROVE  GateInv'
<1> DEFINE h == [proc[p] EXCEPT !.pc = "commit"]
<1>1. /\ UNCHANGED <<now, userVer, db, revokedAt, lock>> /\ era' \in Eras
      /\ proc[p].pc = "fence"
  BY DEF WriteFence, GateInv, TypeOK
<1>2. PICK reply \in Replies :
        /\ DenyWrite(p, "revoking", proc[p].ver, reply)
        /\ Step(p, h) \/ Answer(p, "deny")
  BY DEF WriteFence, Goto
<1>3. cache' \in [Caches -> CacheEntry] /\ CacheInv'
  BY <1>1, <1>2, HandlerNow, DenyStored DEF Denying
<1>4. GoodStep(p, h) /\ h.pc = "commit"
  BY HandlerNow DEF GoodStep, Handler, PCs
<1> QED
  BY <1>1, <1>2, <1>3, <1>4, WriteStep, WriteAnswer

\* A snapshot stored with the deadline of its handler is one Redis may hold.
LEMMA SnapshotStored ==
  ASSUME GateInv, NEW p \in Procs, proc[p].pc = "fill",
         now < ActiveExpiry(proc[p].deadline), UNCHANGED <<now, revokedAt>>,
         Store(CacheOf[p], "active", proc[p].ver, ActiveExpiry(proc[p].deadline))
  PROVE  cache' \in [Caches -> CacheEntry] /\ CacheInv'
<1> DEFINE d == proc[p].deadline
           e == ActiveExpiry(d)
<1>1. d \in Nat /\ d <= LastActive + TTL
  BY HandlerNow DEF GateInv, SnapshotInv, HasSnapshot
<1>2. e \in Nat /\ e <= LastActive + TTL
  <2>1. e \in Nat /\ e <= d
    BY <1>1, Times DEF ActiveExpiry
  <2> QED
    BY <2>1, <1>1, HandlerNow, Times
<1>3. cache' = [cache EXCEPT ![CacheOf[p]] = [st |-> "active", ver |-> proc[p].ver, exp |-> e]]
  BY DEF Store
<1>4. cache' \in [Caches -> CacheEntry]
  BY <1>2, <1>3, HandlerNow, Nodes DEF GateInv, TypeOK, CacheEntry
<1>5. now' = now /\ LastActive' = LastActive
  BY DEF LastActive
<1>6. CacheInv'
  BY <1>2, <1>3, <1>5, Nodes DEF GateInv, TypeOK, CacheInv
<1> QED
  BY <1>4, <1>6

(* An active snapshot is stored up to the deadline its handler carries. *)
LEMMA GateFillCache ==
  ASSUME GateInv, NEW p \in Procs, FillCache(p)
  PROVE  GateInv'
<1> DEFINE d == proc[p].deadline
           e == ActiveExpiry(d)
           f == [proc[p] EXCEPT !.pc = "confirm"]
           g == [proc[p] EXCEPT !.pc = "filled"]
<1>1. /\ UNCHANGED <<now, userVer, db, revokedAt, lock>> /\ era' \in Eras
      /\ proc[p].pc = "fill"
  BY DEF FillCache, GateInv, TypeOK
<1>2. /\ d \in Nat /\ d <= LastActive + TTL /\ start[p] <= LastActive
      /\ proc[p] \in Handler
  BY <1>1, HandlerNow DEF GateInv, SnapshotInv, HasSnapshot
<1>3. e \in Nat /\ e <= LastActive + TTL
  <2>1. e \in Nat /\ e <= d
    BY <1>2, Times DEF ActiveExpiry
  <2> QED
    BY <2>1, <1>2, HandlerNow, Times
<1>4. GoodStep(p, f) /\ f.pc = "confirm"
  BY <1>2, HandlerNow DEF GoodStep, Handler, PCs
<1>5. GoodStep(p, g) /\ g.pc = "filled"
  BY <1>2, HandlerNow DEF GoodStep, Handler, PCs
<1>6. CASE UNCHANGED cache /\ (Step(p, f) \/ Answer(p, "deny"))
  <2>1. Same
    BY <1>6 DEF Same, FillCache
  <2> QED
    BY <2>1, <1>6, <1>1, <1>4, QuietStep, QuietAnswer
<1>7. CASE Store(CacheOf[p], "active", proc[p].ver, e) /\ Step(p, g) /\ now < e
  BY <1>1, <1>5, <1>7, SnapshotStored, WriteStep
<1>8. now < e \/ now >= e
  BY <1>3, HandlerNow
<1> QED
  BY <1>6, <1>7, <1>8, <1>3, HandlerNow DEF FillCache, Goto

\* A fill that is reported lost stored its snapshot or left Redis as it is.
LEMMA GateFillLost ==
  ASSUME GateInv, NEW p \in Procs, FillLost(p)
  PROVE  GateInv'
<1>1. /\ UNCHANGED <<now, userVer, db, revokedAt, lock, era>> /\ era' \in Eras
      /\ proc[p].pc = "fill"
  BY DEF FillLost, GateInv, TypeOK
<1>2. Answer(p, "deny") \/ Found(p, proc[p].ver)
  BY DEF FillLost
<1>3. CASE UNCHANGED cache
  <2>1. Same
    BY <1>1, <1>3 DEF Same
  <2> QED
    BY <2>1, <1>1, <1>2, HandlerNow, QuietAnswer, FoundStep
<1>4. CASE ~UNCHANGED cache
  <2>1. cache' \in [Caches -> CacheEntry] /\ CacheInv'
    BY <1>1, <1>4, SnapshotStored DEF FillLost
  <2>2. ASSUME NEW v \in {"admit", "deny"}, Answer(p, v)
        PROVE  GateInv'
    BY <1>1, <2>1, <2>2, WriteAnswer
  <2>3. CASE proc[p].op = "refresh" /\ Found(p, proc[p].ver)
    <3> DEFINE h == [proc[p] EXCEPT !.pc = "userCheck", !.ver = proc[p].ver]
    <3>1. Step(p, h)
      BY <2>3 DEF Found
    <3>2. GoodStep(p, h) /\ h.pc = "userCheck"
      BY HandlerNow DEF GoodStep, Handler, PCs
    <3> QED
      BY <1>1, <2>1, <3>1, <3>2, WriteStep
  <2> QED
    BY <1>2, <2>2, <2>3 DEF Found
<1> QED
  BY <1>3, <1>4

-----------------------------------------------------------------------------
(* Requests arrive; the row and the user's version are read and changed.   *)

\* A handler that begins has the time of its request and no old deadline.
LEMMA HandlerBegins ==
  ASSUME GateInv, NEW p \in Procs, NEW h \in Handler, h.pc # "idle",
         h.deadline <= now + TTL, h.pc = "fill" => LastActive = now,
         h.pc # "filled",
         proc' = [proc EXCEPT ![p] = h],
         start' = [start EXCEPT ![p] = now],
         verdict' = [verdict EXCEPT ![p] = "none"],
         now' = now, LastActive' = LastActive
  PROVE  HandlerTypes' /\ SnapshotInv' /\ StartInv'
<1> USE DEF GateInv, TypeOK
<1>1. HandlerTypes'
  BY DEF HandlerTypes
<1>2. now \in Nat /\ now > 0 /\ now <= now
  BY DEF RowInv
<1>3. SnapshotInv'
  BY <1>2 DEF SnapshotInv, HasSnapshot
<1>4. StartInv'
  BY <1>2 DEF StartInv
<1> QED
  BY <1>1, <1>3, <1>4

\* Every operation begins that way.
LEMMA GateBegin ==
  ASSUME GateInv, NEW p \in Procs, NEW op \in Ops, NEW tok \in Presented(op),
         Begin(p, op, tok)
  PROVE  GateInv'
<1> DEFINE h == [Idle EXCEPT !.op = op, !.pc = First(op), !.tok = tok, !.era = era]
<1>1. /\ Same /\ proc' = [proc EXCEPT ![p] = h]
      /\ start' = [start EXCEPT ![p] = now]
      /\ verdict' = [verdict EXCEPT ![p] = "none"]
  BY DEF Begin, Same
<1>2. First(op) \in {"lookup", "bump", "hashLock", "candidate"}
  BY SessionAssumption DEF First
<1>3. tok \in Nat
  <2>1. op \in {"validate", "refresh", "logout", "advance", "revoke", "revokeAll"}
    BY SessionAssumption
  <2>2. userVer \in Nat /\ db.gen \in Nat /\ db.ver \in Nat
    BY DEF GateInv, TypeOK, Row
  <2> QED
    BY <2>1, <2>2 DEF Presented
<1>4. era \in Eras
  BY DEF GateInv, TypeOK
<1>5. h \in Handler
  BY <1>2, <1>3, <1>4 DEF Idle, Handler, PCs
<1>6. 0 <= now + TTL
  BY Times, HandlerNow
<1>7. h.pc = First(op) /\ h.deadline = 0
  BY DEF Idle
<1>8. DataTypes' /\ RowFacts' /\ CacheInv' /\ now' = now /\ LastActive' = LastActive
  BY <1>1, SameData
<1>9. HandlerTypes' /\ SnapshotInv' /\ StartInv'
  BY <1>1, <1>2, <1>5, <1>6, <1>7, <1>8, HandlerBegins
<1>10. HashHolders'
  BY <1>1, <1>2, <1>7 DEF GateInv, TypeOK, Same, RowInv, HashHolders
<1> QED
  BY <1>8, <1>9, <1>10, PartsNext DEF GateInv

\* Creation begins with a row that is active now (CreateUserSession).
LEMMA GateCreate ==
  ASSUME GateInv, NEW p \in Procs, CreateUserSession(p)
  PROVE  GateInv'
<1> DEFINE h == [Idle EXCEPT !.op = "create", !.pc = "fill",
                             !.ver = userVer, !.deadline = now + TTL]
<1>1. /\ proc' = [proc EXCEPT ![p] = h]
      /\ start' = [start EXCEPT ![p] = now]
      /\ verdict' = [verdict EXCEPT ![p] = "none"]
      /\ db' = [db EXCEPT !.st = "active", !.ver = userVer, !.gen = 1]
      /\ UNCHANGED <<now, userVer, revokedAt, lock, cache, era>>
      /\ db.gen = 0
  BY DEF CreateUserSession
<1>2. now \in Nat /\ now + TTL \in Nat /\ now + TTL <= now + TTL /\ userVer \in Nat
  BY HandlerNow, Times DEF GateInv, TypeOK
<1>3. revokedAt = 0 /\ LastActive = now /\ LastActive' = LastActive
  BY <1>1 DEF GateInv, TypeOK, RowInv, LastActive
<1>4. h \in Handler
  BY <1>2 DEF Idle, Handler, PCs, Eras
<1>5. h.pc = "fill" /\ h.deadline = now + TTL
  BY DEF Idle
<1>6. HandlerTypes' /\ SnapshotInv' /\ StartInv'
  BY <1>1, <1>2, <1>3, <1>4, <1>5, HandlerBegins
<1>7. DataTypes'
  BY <1>1 DEF GateInv, TypeOK, DataTypes, Row
<1>8. RowFacts'
  BY <1>1, <1>3 DEF GateInv, TypeOK, Row, RowInv, RowFacts
<1>9. CacheInv'
  BY <1>1, <1>3 DEF GateInv, CacheInv
<1>10. HashHolders'
  BY <1>1, <1>5 DEF GateInv, TypeOK, RowInv, HashHolders
<1> QED
  BY <1>6, <1>7, <1>8, <1>9, <1>10, PartsNext DEF GateInv

\* Comparing the versions of session and user changes nothing stored.
LEMMA GateCheckUser ==
  ASSUME GateInv, NEW p \in Procs, CheckUser(p)
  PROVE  GateInv'
<1> DEFINE f == [proc[p] EXCEPT !.pc = "rotRead", !.op = @]
           g == [proc[p] EXCEPT !.pc = "candidate", !.op = "security"]
<1>1. Same /\ proc[p].pc = "userCheck"
  BY DEF CheckUser, Same
<1>2. Step(p, f) \/ Step(p, g)
  BY DEF CheckUser
<1>3. GoodStep(p, f) /\ f.pc = "rotRead"
  BY HandlerNow DEF GoodStep, Handler, PCs
<1>4. GoodStep(p, g) /\ g.pc = "candidate"
  BY HandlerNow DEF GoodStep, Handler, PCs
<1> QED
  BY <1>1, <1>2, <1>3, <1>4, QuietStep

\* A rotation reads the row and captures a deadline or turns to revocation.
LEMMA GateRotateRead ==
  ASSUME GateInv, NEW p \in Procs, RotateRead(p)
  PROVE  GateInv'
<1> DEFINE f == [proc[p] EXCEPT !.pc = "rotSwap", !.ver = db.ver, !.deadline = now + TTL]
           g == [proc[p] EXCEPT !.pc = "fence", !.op = "reuse", !.ver = db.ver]
<1>1. Same /\ proc[p].pc = "rotRead"
  BY DEF RotateRead, Same
<1>2. Step(p, f) \/ Step(p, g) \/ Answer(p, "admit") \/ Answer(p, "deny")
  BY DEF RotateRead
<1>3. now + TTL \in Nat /\ now + TTL <= now + TTL
  BY HandlerNow, Times
<1>4. GoodStep(p, f) /\ f.pc = "rotSwap"
  BY <1>3, HandlerNow DEF GoodStep, Handler, PCs
<1>5. GoodStep(p, g) /\ g.pc = "fence"
  BY HandlerNow DEF GoodStep, Handler, PCs
<1> QED
  BY <1>1, <1>2, <1>4, <1>5, QuietStep, QuietAnswer

\* A revocation reads its row before it writes anything.
LEMMA GateReadCandidate ==
  ASSUME GateInv, NEW p \in Procs, ReadCandidate(p)
  PROVE  GateInv'
<1> DEFINE h == [proc[p] EXCEPT !.pc = "fence", !.ver = db.ver]
<1>1. Same /\ proc[p].pc = "candidate"
  BY DEF ReadCandidate, Same
<1>2. Step(p, h) \/ Answer(p, "deny")
  BY DEF ReadCandidate
<1>3. GoodStep(p, h) /\ h.pc = "fence"
  BY HandlerNow DEF GoodStep, Handler, PCs
<1> QED
  BY <1>1, <1>2, <1>3, QuietStep, QuietAnswer

(* A row that stays as active as it was, or is revoked now. *)
LEMMA RowStep ==
  ASSUME GateInv, NEW p \in Procs, NEW h, GoodStep(p, h), Step(p, h),
         proc[p].pc # "idle", h.pc \notin {"hashFence", "hashCommit"},
         UNCHANGED <<now, cache, era>>, LastActive' = LastActive,
         DataTypes', RowFacts', \A q \in Procs \ {p} : lock = q => lock' = q
  PROVE  GateInv'
<1>1. HandlerTypes' /\ SnapshotInv' /\ StartInv'
  BY HandlerSteps
<1>2. HashHolders'
  BY DEF GateInv, TypeOK, Step, RowInv, HashHolders
<1>3. CacheInv'
  BY DEF GateInv, CacheInv
<1> QED
  BY <1>1, <1>2, <1>3, PartsNext DEF GateInv

\* The compare-and-swap of the refresh secret finds the row active.
LEMMA GateRotateSwap ==
  ASSUME GateInv, NEW p \in Procs, RotateSwap(p)
  PROVE  GateInv'
<1> DEFINE f == [proc[p] EXCEPT !.pc = "fill", !.op = "rotated"]
           g == [proc[p] EXCEPT !.pc = "rotRead", !.tries = @ + 1]
<1>1. proc[p].pc = "rotSwap" /\ UNCHANGED <<now, userVer, revokedAt, lock, cache, era>>
  BY DEF RotateSwap
<1>2. \/ /\ db.st = "active" /\ Step(p, f)
         /\ db' = [db EXCEPT !.gen = db.gen + 1, !.prevUntil = start[p] + Grace]
      \/ UNCHANGED db /\ (Step(p, g) \/ Answer(p, "deny"))
  BY DEF RotateSwap, ActiveAt
<1>3. CASE UNCHANGED db /\ (Step(p, g) \/ Answer(p, "deny"))
  <2>1. Same
    BY <1>1, <1>3 DEF Same
  <2>2. proc[p].tries + 1 \in Nat
    BY HandlerNow DEF Handler
  <2>3. GoodStep(p, g) /\ g.pc = "rotRead"
    BY <2>2, HandlerNow DEF GoodStep, Handler, PCs
  <2> QED
    BY <1>1, <1>3, <2>1, <2>3, QuietStep, QuietAnswer
<1>4. CASE /\ db.st = "active" /\ Step(p, f)
           /\ db' = [db EXCEPT !.gen = db.gen + 1, !.prevUntil = start[p] + Grace]
  <2>1. LastActive' = LastActive /\ LastActive = now
    BY <1>1, <1>4, HandlerNow DEF LastActive
  <2>2. GoodStep(p, f) /\ f.pc = "fill"
    BY <2>1, HandlerNow DEF GoodStep, Handler, PCs
  <2>3. db.gen + 1 \in Nat /\ db.gen + 1 > 0 /\ start[p] + Grace \in Nat
    BY HandlerNow, Times
  <2>4. DataTypes'
    BY <1>1, <1>4, <2>3 DEF GateInv, TypeOK, DataTypes, Row
  <2>5. db'.st = db.st /\ db'.gen > 0
    BY <1>4, <2>3 DEF GateInv, TypeOK, Row
  <2>6. RowFacts'
    BY <1>1, <2>5 DEF GateInv, RowInv, RowFacts
  <2> QED
    BY <1>1, <1>4, <2>1, <2>2, <2>4, <2>6, RowStep
<1> QED
  BY <1>2, <1>3, <1>4

\* Raising the user's version leaves row and snapshots alone.
LEMMA GateBump ==
  ASSUME GateInv, NEW p \in Procs, BumpUserAuthVersion(p)
  PROVE  GateInv'
<1> DEFINE h == [proc[p] EXCEPT !.pc = "advance", !.ver = userVer + 1,
                                !.deadline = now + TTL]
<1>1. /\ proc[p].pc = "bump" /\ userVer' = userVer + 1 /\ Step(p, h)
      /\ UNCHANGED <<now, db, revokedAt, lock, cache, era>>
  BY DEF BumpUserAuthVersion
<1>2. /\ now + TTL \in Nat /\ now + TTL <= now + TTL
      /\ userVer + 1 \in Nat
  BY HandlerNow, Times DEF GateInv, TypeOK
<1>3. GoodStep(p, h) /\ h.pc = "advance"
  BY <1>2, HandlerNow DEF GoodStep, Handler, PCs
<1>4. DataTypes' /\ RowFacts' /\ LastActive' = LastActive
  BY <1>1, <1>2 DEF GateInv, TypeOK, DataTypes, RowInv, RowFacts, LastActive
<1> QED
  BY <1>1, <1>3, <1>4, RowStep

\* The session follows the user only while its row is active.
LEMMA GateAdvance ==
  ASSUME GateInv, NEW p \in Procs, AdvanceUserSessionAuthVersion(p)
  PROVE  GateInv'
<1> DEFINE h == [proc[p] EXCEPT !.pc = "fill"]
<1>1. /\ proc[p].pc = "advance"
      /\ UNCHANGED <<now, userVer, revokedAt, lock, cache, era>>
  BY DEF AdvanceUserSessionAuthVersion
<1>2. \/ db.st = "active" /\ db' = [db EXCEPT !.ver = proc[p].ver] /\ Step(p, h)
      \/ UNCHANGED db /\ Answer(p, "deny")
  BY DEF AdvanceUserSessionAuthVersion, Active
<1>3. CASE UNCHANGED db /\ Answer(p, "deny")
  BY <1>1, <1>3, QuietAnswer DEF Same
<1>4. CASE db.st = "active" /\ db' = [db EXCEPT !.ver = proc[p].ver] /\ Step(p, h)
  <2>1. LastActive' = LastActive /\ LastActive = now
    BY <1>1, <1>4, HandlerNow DEF LastActive
  <2>2. GoodStep(p, h) /\ h.pc = "fill"
    BY <2>1, HandlerNow DEF GoodStep, Handler, PCs
  <2>3. DataTypes'
    BY <1>1, <1>4, HandlerNow DEF GateInv, TypeOK, DataTypes, Row
  <2>4. db'.st = db.st /\ db'.gen = db.gen
    BY <1>4 DEF GateInv, TypeOK, Row
  <2>5. RowFacts'
    BY <1>1, <2>4 DEF GateInv, RowInv, RowFacts
  <2> QED
    BY <1>1, <1>4, <2>1, <2>2, <2>3, <2>5, RowStep
<1> QED
  BY <1>2, <1>3, <1>4

-----------------------------------------------------------------------------
(* Revoking. *)

(* The row is revoked by the handler that found it free or holds it. *)
LEMMA RevokeStep ==
  ASSUME GateInv, NEW p \in Procs, NEW h, GoodStep(p, h), Step(p, h), h.pc = "seal",
         proc[p].pc # "idle", db.st = "active",
         NEW reason \in {"asked", "reuse", "security"},
         db' = [db EXCEPT !.st = "revoked", !.reason = reason],
         revokedAt' = now, UNCHANGED <<now, userVer, cache, era>>,
         lock \in {NoOne, p}, lock' = NoOne
  PROVE  GateInv'
<1>1. LastActive' = LastActive
  BY HandlerNow DEF LastActive
<1>2. DataTypes'
  BY DEF GateInv, TypeOK, DataTypes, Row
<1>3. db'.st = "revoked" /\ db'.gen = db.gen
  BY DEF GateInv, TypeOK, Row
<1>4. RowFacts'
  BY <1>3, HandlerNow DEF GateInv, RowInv, RowFacts
<1>5. \A q \in Procs \ {p} : lock = q => lock' = q
  BY Nodes
<1> QED
  BY <1>1, <1>2, <1>4, <1>5, RowStep

\* The commit of a revocation by id finds the row active and is the only one.
LEMMA GateCommitRevocation ==
  ASSUME GateInv, NEW p \in Procs, CommitRevocation(p)
  PROVE  GateInv'
<1> DEFINE v == IF proc[p].op = "revokeAll" THEN db.ver ELSE proc[p].ver
           h == [proc[p] EXCEPT !.pc = "seal", !.ver = v]
<1>1. /\ proc[p].pc = "commit" /\ lock = NoOne
      /\ UNCHANGED <<now, userVer, lock, cache, era>>
  BY DEF CommitRevocation, Unlocked
<1>2. \/ /\ db.st = "active" /\ revokedAt' = now /\ Step(p, h)
         /\ db' = [db EXCEPT !.st = "revoked", !.reason = Reason(p)]
      \/ UNCHANGED <<db, revokedAt>> /\ Answer(p, "deny")
  BY DEF CommitRevocation, ActiveAt
<1>3. CASE UNCHANGED <<db, revokedAt>> /\ Answer(p, "deny")
  BY <1>1, <1>3, QuietAnswer DEF Same
<1>4. CASE /\ db.st = "active" /\ revokedAt' = now /\ Step(p, h)
           /\ db' = [db EXCEPT !.st = "revoked", !.reason = Reason(p)]
  <2>1. v \in Nat /\ Reason(p) \in {"asked", "reuse", "security"}
    BY HandlerNow DEF Reason
  <2>2. GoodStep(p, h) /\ h.pc = "seal"
    BY <2>1, HandlerNow DEF GoodStep, Handler, PCs
  <2> QED
    BY <1>1, <1>4, <2>1, <2>2, RevokeStep
<1> QED
  BY <1>2, <1>3, <1>4

\* So does that of a logout, which holds the row.
LEMMA GateHashCommit ==
  ASSUME GateInv, NEW p \in Procs, HashCommit(p)
  PROVE  GateInv'
<1> DEFINE h == [proc[p] EXCEPT !.pc = "seal"]
<1>1. /\ proc[p].pc = "hashCommit" /\ Step(p, h) /\ revokedAt' = now /\ lock' = NoOne
      /\ db' = [db EXCEPT !.st = "revoked", !.reason = "asked"]
      /\ UNCHANGED <<now, userVer, cache, era>>
  BY DEF HashCommit, Goto
<1>2. lock = p /\ db.st = "active"
  BY <1>1, Nodes DEF GateInv, RowInv
<1>3. GoodStep(p, h) /\ h.pc = "seal"
  BY HandlerNow DEF GoodStep, Handler, PCs
<1> QED
  BY <1>1, <1>2, <1>3, RevokeStep

\* A logout takes the lock on an active row that nobody holds.
LEMMA GateLockByHash ==
  ASSUME GateInv, NEW p \in Procs, LockByHash(p)
  PROVE  GateInv'
<1> DEFINE h == [proc[p] EXCEPT !.pc = "hashFence", !.ver = db.ver]
<1>1. /\ proc[p].pc = "hashLock" /\ lock = NoOne
      /\ UNCHANGED <<now, userVer, db, revokedAt, cache, era>>
  BY DEF LockByHash, Unlocked
<1>2. \/ db.st = "active" /\ lock' = p /\ Step(p, h)
      \/ UNCHANGED lock /\ Answer(p, "deny")
  BY DEF LockByHash, ActiveAt
<1>3. CASE UNCHANGED lock /\ Answer(p, "deny")
  BY <1>1, <1>3, QuietAnswer DEF Same
<1>4. CASE db.st = "active" /\ lock' = p /\ Step(p, h)
  <2>1. GoodStep(p, h) /\ h.pc = "hashFence"
    BY HandlerNow DEF GoodStep, Handler, PCs
  <2>2. LastActive' = LastActive /\ DataTypes' /\ RowFacts' /\ CacheInv'
    BY <1>1, <1>4 DEF GateInv, TypeOK, DataTypes, RowInv, RowFacts, CacheInv, LastActive
  <2>3. HandlerTypes' /\ SnapshotInv' /\ StartInv'
    BY <1>1, <1>4, <2>1, <2>2, HandlerSteps
  <2>4. \A q \in Procs : proc[q].pc \notin {"hashFence", "hashCommit"}
    BY <1>1, Nodes DEF GateInv, RowInv
  <2>5. HashHolders'
    BY <1>4, <2>4 DEF GateInv, TypeOK, Step, HashHolders
  <2> QED
    BY <2>2, <2>3, <2>5, PartsNext DEF GateInv
<1> QED
  BY <1>2, <1>3, <1>4

\* The fence of a logout keeps the lock, or gives it back when it fails.
LEMMA GateHashFence ==
  ASSUME GateInv, NEW p \in Procs, HashFence(p)
  PROVE  GateInv'
<1> DEFINE h == [proc[p] EXCEPT !.pc = "hashCommit"]
<1>1. /\ proc[p].pc = "hashFence"
      /\ UNCHANGED <<now, userVer, db, revokedAt, era>>
  BY DEF HashFence
<1>2. PICK reply \in Replies :
        /\ DenyWrite(p, "revoking", proc[p].ver, reply)
        /\ \/ Step(p, h) /\ UNCHANGED lock
           \/ Answer(p, "deny") /\ lock' = NoOne
  BY DEF HashFence, Goto
<1>3. cache' \in [Caches -> CacheEntry] /\ CacheInv'
  BY <1>1, <1>2, HandlerNow, DenyStored DEF Denying
<1>4. lock = p /\ db.st = "active"
  BY <1>1, Nodes DEF GateInv, RowInv
<1>5. LastActive' = LastActive /\ DataTypes' /\ RowFacts'
  BY <1>1, <1>2, <1>3 DEF GateInv, TypeOK, DataTypes, RowInv, RowFacts, LastActive
<1>6. GoodStep(p, h) /\ h.pc = "hashCommit"
  BY HandlerNow DEF GoodStep, Handler, PCs
<1>7. HandlerTypes' /\ SnapshotInv' /\ StartInv'
  BY <1>1, <1>2, <1>5, <1>6, HandlerSteps, HandlerAnswers
<1>8. \A q \in Procs \ {p} : proc[q].pc \notin {"hashFence", "hashCommit"}
  BY <1>4 DEF GateInv, RowInv
<1>9. HashHolders'
  <2>1. CASE Step(p, h) /\ UNCHANGED lock
    BY <2>1, <1>4, <1>8 DEF GateInv, TypeOK, Step, HashHolders
  <2>2. CASE Answer(p, "deny")
    BY <2>2, <1>8 DEF GateInv, TypeOK, Answer, Idle, HashHolders
  <2> QED
    BY <1>2, <2>1, <2>2
<1> QED
  BY <1>3, <1>5, <1>7, <1>9, PartsNext DEF GateInv

-----------------------------------------------------------------------------
(* The row is deleted, the clock moves. *)

\* Deletion finds the row unlocked and leaves the time of its revocation.
LEMMA GateDelete ==
  ASSUME GateInv, DeleteOldSession
  PROVE  GateInv'
<1>1. /\ UNCHANGED <<now, userVer, revokedAt, lock, cache, proc, start, verdict, era>>
      /\ db' = [db EXCEPT !.st = "none"] /\ lock = NoOne
  BY DEF DeleteOldSession, Unlocked
<1>2. db' \in Row /\ db'.st = "none" /\ db'.gen = db.gen
  BY <1>1 DEF GateInv, TypeOK, Row
<1>3. TypeOK'
  BY <1>1, <1>2 DEF GateInv, TypeOK
<1>4. RowInv'
  BY <1>1, <1>2 DEF GateInv, RowInv
<1>5. CacheInv' /\ SnapshotInv' /\ StartInv'
  BY <1>1 DEF GateInv, CacheInv, SnapshotInv, StartInv, HasSnapshot, LastActive
<1> QED
  BY <1>3, <1>4, <1>5 DEF GateInv

\* When time passes, expired snapshots go and the others still end in time.
LEMMA GateTick ==
  ASSUME GateInv, Tick
  PROVE  GateInv'
<1>1. /\ now' = now + 1
      /\ cache' = [c \in Caches |-> IF cache[c].exp <= now + 1 THEN NoEntry ELSE cache[c]]
      /\ UNCHANGED <<userVer, db, revokedAt, lock, proc, start, verdict, era>>
  BY DEF Tick
<1>2. /\ now \in Nat /\ now' \in Nat /\ LastActive \in Nat /\ LastActive' \in Nat
      /\ LastActive <= LastActive'
  BY <1>1 DEF GateInv, TypeOK, LastActive
<1>3. NoEntry \in CacheEntry /\ NoEntry.st = "none"
  BY DEF NoEntry, CacheEntry
<1>4. TypeOK'
  BY <1>1, <1>2, <1>3 DEF GateInv, TypeOK
<1>5. RowInv'
  BY <1>1, <1>2 DEF GateInv, TypeOK, RowInv
<1>6. CacheInv'
  <2> SUFFICES ASSUME NEW c \in Caches, cache'[c].st # "none"
               PROVE  /\ now' < cache'[c].exp
                      /\ cache'[c].st = "active" => cache'[c].exp <= LastActive' + TTL
    BY DEF CacheInv
  <2>1. cache'[c] = cache[c] /\ ~(cache[c].exp <= now + 1)
    BY <1>1, <1>3
  <2>2. cache[c].exp \in Nat
    BY DEF GateInv, TypeOK, CacheEntry
  <2>3. cache[c].st = "active" => cache[c].exp <= LastActive + TTL
    BY <2>1 DEF GateInv, CacheInv
  <2> QED
    BY <1>1, <1>2, <2>1, <2>2, <2>3, Times
<1>7. SnapshotInv'
  <2> SUFFICES ASSUME NEW p \in Procs
               PROVE  /\ proc[p].deadline <= now' + TTL
                      /\ HasSnapshot(p) => /\ proc[p].deadline <= LastActive' + TTL
                                           /\ start[p] <= LastActive'
    BY <1>1 DEF SnapshotInv, HasSnapshot
  <2>1. proc[p].deadline \in Nat /\ start[p] \in Nat
    BY HandlerNow
  <2>2. /\ proc[p].deadline <= now + TTL
        /\ HasSnapshot(p) => /\ proc[p].deadline <= LastActive + TTL
                             /\ start[p] <= LastActive
    BY DEF GateInv, SnapshotInv
  <2> QED
    BY <1>1, <1>2, <2>1, <2>2, Times
<1>8. StartInv'
  BY <1>1, <1>2 DEF GateInv, TypeOK, StartInv
<1> QED
  BY <1>4, <1>5, <1>6, <1>7, <1>8 DEF GateInv

-----------------------------------------------------------------------------
\* Every step keeps the invariant.
LEMMA GateStep == GateInv /\ [Next]_vars => GateInv'
<1> SUFFICES ASSUME GateInv, [Next]_vars PROVE GateInv'
  OBVIOUS
<1>1. ASSUME NEW p \in Procs, NEW op \in Ops, NEW tok \in Presented(op),
             Begin(p, op, tok)
      PROVE  GateInv'
  BY <1>1, GateBegin
<1>2. ASSUME NEW p \in Procs,
             \/ CreateUserSession(p)
             \/ CacheHit(p) \/ CacheMiss(p) \/ SelectRow(p) \/ PublishInactive(p)
             \/ FillCache(p) \/ FillCompleted(p) \/ FillLost(p) \/ ConfirmSnapshot(p)
      PROVE  GateInv'
  BY <1>2, GateCreate, GateCacheHit, GateCacheMiss, GateSelectRow, GatePublishInactive,
     GateFillCache, GateFillCompleted, GateFillLost, GateConfirmSnapshot
<1>3. ASSUME NEW p \in Procs,
             \/ CheckUser(p) \/ RotateRead(p) \/ RotateSwap(p)
             \/ BumpUserAuthVersion(p) \/ AdvanceUserSessionAuthVersion(p)
      PROVE  GateInv'
  BY <1>3, GateCheckUser, GateRotateRead, GateRotateSwap, GateBump, GateAdvance
<1>4. ASSUME NEW p \in Procs,
             \/ ReadCandidate(p) \/ WriteFence(p) \/ CommitRevocation(p)
             \/ WriteTombstone(p)
             \/ LockByHash(p) \/ HashFence(p) \/ HashCommit(p)
      PROVE  GateInv'
  BY <1>4, GateReadCandidate, GateWriteFence, GateCommitRevocation,
     GateWriteTombstone, GateLockByHash, GateHashFence, GateHashCommit
<1>5. CASE UNCHANGED vars
  BY <1>5 DEF vars, GateInv, TypeOK, RowInv, CacheInv, SnapshotInv, StartInv,
     HasSnapshot, LastActive
<1> QED
  BY <1>1, <1>2, <1>3, <1>4, <1>5, GateDelete, GateTick DEF Next

(* Whatever still vouches for a session goes back to a moment at which its *)
(* row was active: the inductive invariant of the cache protocol of        *)
(* GetUserSessionCached and writeUserSessionCache.                         *)
THEOREM GateInvariant == Spec => []GateInv
  BY InitGate, GateStep, PTL DEF Spec

(* The rows, snapshots and handlers stay within their types. *)
THEOREM TypeCorrect == Spec => []TypeOK
<1>1. GateInv => TypeOK
  BY DEF GateInv
<1> QED
  BY <1>1, GateInvariant, PTL

-----------------------------------------------------------------------------
(* The refinement.  Requests are asked when a handler leaves "idle" and    *)
(* answered when it returns there.                                         *)

\* A refusal is a step of SessionGate at any time.
LEMMA DenyIsGate ==
  ASSUME GateInv, NEW p \in Procs, proc[p].pc # "idle", Answer(p, "deny"),
         UNCHANGED <<now, revokedAt>>
  PROVE  Gate!Next
<1>1. start[p] > 0
  BY HandlerNow DEF GateInv, StartInv
<1>2. Gate!Deny(p)
  BY <1>1 DEF Answer, Gate!Deny
<1> QED
  BY <1>2 DEF Gate!Next

\* An admission is one while the request began early enough.
LEMMA AdmitIsGate ==
  ASSUME GateInv, NEW p \in Procs, proc[p].pc # "idle", Answer(p, "admit"),
         UNCHANGED <<now, revokedAt>>, revokedAt = 0 \/ start[p] < revokedAt + TTL
  PROVE  Gate!Next
<1>1. start[p] > 0
  BY HandlerNow DEF GateInv, StartInv
<1>2. Gate!Admit(p)
  BY <1>1 DEF Answer, Gate!Admit, Gate!MayAdmit
<1> QED
  BY <1>2 DEF Gate!Next

\* So is finding the session active.
LEMMA FoundIsGate ==
  ASSUME GateInv, NEW p \in Procs, proc[p].pc # "idle", NEW ver, Found(p, ver),
         UNCHANGED <<now, revokedAt>>, revokedAt = 0 \/ start[p] < revokedAt + TTL
  PROVE  [Gate!Next]_(Gate!gateVars)
<1>1. CASE proc[p].op = "refresh"
  BY <1>1 DEF Found, Step, Gate!gateVars
<1>2. CASE proc[p].op # "refresh"
  <2>1. Answer(p, "admit") \/ Answer(p, "deny")
    BY <1>2 DEF Found
  <2> QED
    BY <2>1, AdmitIsGate, DenyIsGate
<1> QED
  BY <1>1, <1>2

(* A handler that has a snapshot, or sees a stored one or the active row,  *)
(* began less than TTL after the revocation.                               *)
LEMMA SnapshotAdmits ==
  ASSUME GateInv, NEW p \in Procs, HasSnapshot(p)
  PROVE  revokedAt = 0 \/ start[p] < revokedAt + TTL
<1>1. start[p] <= LastActive
  BY DEF GateInv, SnapshotInv
<1>2. revokedAt \in Nat
  BY DEF GateInv, TypeOK
<1> QED
  BY <1>1, <1>2, HandlerNow, Times DEF LastActive

\* An active snapshot in Redis only meets requests that began early enough.
LEMMA EntryAdmits ==
  ASSUME GateInv, NEW p \in Procs, cache[CacheOf[p]].st = "active"
  PROVE  revokedAt = 0 \/ start[p] < revokedAt + TTL
<1> DEFINE c == CacheOf[p]
<1>1. now < cache[c].exp /\ cache[c].exp <= LastActive + TTL
  BY Nodes DEF GateInv, CacheInv
<1>2. cache[c].exp \in Nat /\ revokedAt \in Nat
  BY Nodes DEF GateInv, TypeOK, CacheEntry
<1> QED
  BY <1>1, <1>2, HandlerNow, Times DEF LastActive

\* The lookup of a session implements SessionGate (GetUserSessionCached).
LEMMA LookupIsGate ==
  ASSUME GateInv, NEW p \in Procs,
         \/ CacheHit(p) \/ CacheMiss(p) \/ SelectRow(p) \/ PublishInactive(p)
         \/ FillCache(p) \/ FillCompleted(p) \/ FillLost(p) \/ ConfirmSnapshot(p)
  PROVE  [Gate!Next]_(Gate!gateVars)
<1>1. CASE CacheHit(p)
  <2>1. UNCHANGED <<now, revokedAt>> /\ proc[p].pc # "idle"
    BY <1>1 DEF CacheHit
  <2>2. \/ cache[CacheOf[p]].st = "active" /\ Found(p, cache[CacheOf[p]].ver)
        \/ Answer(p, "deny")
    BY <1>1 DEF CacheHit
  <2> QED
    BY <2>1, <2>2, EntryAdmits, FoundIsGate, DenyIsGate
<1>2. CASE CacheMiss(p)
  BY <1>2 DEF CacheMiss, Step, Gate!gateVars
<1>3. CASE SelectRow(p)
  <2>1. UNCHANGED <<now, revokedAt>> /\ proc[p].pc # "idle"
    BY <1>3 DEF SelectRow
  <2>2. UNCHANGED <<start, verdict>> \/ Answer(p, "deny")
    BY <1>3 DEF SelectRow, Step
  <2> QED
    BY <2>1, <2>2, DenyIsGate DEF Gate!gateVars
<1>4. CASE PublishInactive(p)
  BY <1>4, DenyIsGate DEF PublishInactive
<1>5. CASE FillCache(p)
  <2>1. UNCHANGED <<now, revokedAt>> /\ proc[p].pc # "idle"
    BY <1>5 DEF FillCache
  <2>2. UNCHANGED <<start, verdict>> \/ Answer(p, "deny")
    BY <1>5 DEF FillCache, Goto, Step
  <2> QED
    BY <2>1, <2>2, DenyIsGate DEF Gate!gateVars
<1>6. CASE FillCompleted(p)
  <2>1. UNCHANGED <<now, revokedAt>> /\ proc[p].pc # "idle" /\ HasSnapshot(p)
    BY <1>6 DEF FillCompleted, HasSnapshot
  <2>2. UNCHANGED <<start, verdict>> \/ Answer(p, "deny") \/ Found(p, proc[p].ver)
    BY <1>6 DEF FillCompleted, Goto, Step
  <2> QED
    BY <2>1, <2>2, SnapshotAdmits, FoundIsGate, DenyIsGate DEF Gate!gateVars
<1>7. CASE FillLost(p)
  <2>1. UNCHANGED <<now, revokedAt>> /\ proc[p].pc # "idle" /\ HasSnapshot(p)
    BY <1>7 DEF FillLost, HasSnapshot
  <2>2. Answer(p, "deny") \/ Found(p, proc[p].ver)
    BY <1>7 DEF FillLost
  <2> QED
    BY <2>1, <2>2, SnapshotAdmits, FoundIsGate, DenyIsGate
<1>8. CASE ConfirmSnapshot(p)
  <2>1. UNCHANGED <<now, revokedAt>> /\ proc[p].pc # "idle"
    BY <1>8 DEF ConfirmSnapshot
  <2>2. CASE Active /\ db.ver = proc[p].ver
    <3>1. Found(p, proc[p].ver)
      BY <1>8, <2>2 DEF ConfirmSnapshot
    <3>2. revokedAt = 0
      BY <2>2, HandlerNow DEF Active
    <3> QED
      BY <2>1, <3>1, <3>2, FoundIsGate
  <2>3. CASE ~(Active /\ db.ver = proc[p].ver)
    BY <1>8, <2>1, <2>3, DenyIsGate DEF ConfirmSnapshot
  <2> QED
    BY <2>2, <2>3
<1> QED
  BY <1>1, <1>2, <1>3, <1>4, <1>5, <1>6, <1>7, <1>8

\* So do rotation and advance; a replay is admitted on an active row only.
LEMMA RotationIsGate ==
  ASSUME GateInv, NEW p \in Procs,
         \/ CheckUser(p) \/ RotateRead(p) \/ RotateSwap(p)
         \/ BumpUserAuthVersion(p) \/ AdvanceUserSessionAuthVersion(p)
  PROVE  [Gate!Next]_(Gate!gateVars)
<1>1. UNCHANGED <<now, revokedAt>> /\ proc[p].pc # "idle"
  BY DEF CheckUser, RotateRead, RotateSwap, BumpUserAuthVersion,
     AdvanceUserSessionAuthVersion
<1>2. \/ UNCHANGED <<start, verdict>>
      \/ Answer(p, "deny")
      \/ db.st = "active" /\ Answer(p, "admit")
  BY DEF CheckUser, RotateRead, RotateSwap, BumpUserAuthVersion,
     AdvanceUserSessionAuthVersion, Step, ActiveAt
<1> QED
  BY <1>1, <1>2, HandlerNow, AdmitIsGate, DenyIsGate DEF Gate!gateVars

\* So does revocation: its commit is SessionGate's one revocation.
LEMMA RevocationIsGate ==
  ASSUME GateInv, NEW p \in Procs,
         \/ ReadCandidate(p) \/ WriteFence(p) \/ CommitRevocation(p)
         \/ WriteTombstone(p)
         \/ LockByHash(p) \/ HashFence(p) \/ HashCommit(p)
  PROVE  [Gate!Next]_(Gate!gateVars)
<1>1. now' = now /\ proc[p].pc # "idle"
  BY DEF ReadCandidate, WriteFence, CommitRevocation, WriteTombstone, LockByHash,
     HashFence, HashCommit
<1>2. CASE UNCHANGED revokedAt /\ (UNCHANGED <<start, verdict>> \/ Answer(p, "deny"))
  BY <1>1, <1>2, DenyIsGate DEF Gate!gateVars
<1>3. CASE revokedAt' = now /\ UNCHANGED <<start, verdict>> /\ db.st = "active"
  <2>1. Gate!Revoke
    BY <1>1, <1>3, HandlerNow DEF Gate!Revoke
  <2> QED
    BY <2>1 DEF Gate!Next
<1>4. CASE \/ ReadCandidate(p) \/ WriteFence(p) \/ WriteTombstone(p)
           \/ LockByHash(p) \/ HashFence(p)
  BY <1>4, <1>2 DEF ReadCandidate, WriteFence, WriteTombstone, LockByHash, HashFence,
     Goto, Step
<1>5. CASE CommitRevocation(p)
  BY <1>5, <1>2, <1>3 DEF CommitRevocation, Step, ActiveAt
<1>6. CASE HashCommit(p)
  <2>1. db.st = "active"
    BY <1>6, Nodes DEF HashCommit, GateInv, RowInv
  <2> QED
    BY <1>6, <1>3, <2>1 DEF HashCommit, Goto, Step
<1> QED
  BY <1>4, <1>5, <1>6

\* The initial states agree.
LEMMA GateInit == Init => Gate!Init
  BY DEF Init, Gate!Init

\* Every step is a step of SessionGate or changes nothing it can see.
LEMMA GateNext == GateInv /\ [Next]_vars => [Gate!Next]_(Gate!gateVars)
<1> SUFFICES ASSUME GateInv, [Next]_vars PROVE [Gate!Next]_(Gate!gateVars)
  OBVIOUS
<1>1. ASSUME NEW p \in Procs,
             \/ \E op \in Ops : \E tok \in Presented(op) : Begin(p, op, tok)
             \/ CreateUserSession(p)
      PROVE  Gate!Next
  <2>1. /\ UNCHANGED <<now, revokedAt>> /\ proc[p].pc = "idle"
        /\ start' = [start EXCEPT ![p] = now]
        /\ verdict' = [verdict EXCEPT ![p] = "none"]
    BY <1>1 DEF Begin, CreateUserSession
  <2>2. start[p] = 0
    BY <2>1 DEF GateInv, StartInv
  <2>3. Gate!Ask(p)
    BY <2>1, <2>2 DEF Gate!Ask
  <2> QED
    BY <2>3 DEF Gate!Next
<1>2. CASE Tick
  <2>1. Gate!Tick
    BY <1>2 DEF Tick, Gate!Tick
  <2> QED
    BY <2>1 DEF Gate!Next
<1>3. CASE DeleteOldSession \/ UNCHANGED vars
  BY <1>3 DEF DeleteOldSession, vars, Gate!gateVars
<1> QED
  BY <1>1, <1>2, <1>3, LookupIsGate, RotationIsGate, RevocationIsGate DEF Next

(* The handlers implement SessionGate: with any number of Redis instances, *)
(* any delay between the calls of a handler and any lost call, a request   *)
(* that begins TTL (SYNC_FREQUENCY) or more after its session's revocation *)
(* was committed is refused.                                               *)
THEOREM SessionsImplementGate == Spec => ImplementsGate
  BY GateInvariant, GateInit, GateNext, PTL DEF Spec, ImplementsGate, Gate!Spec

-----------------------------------------------------------------------------
(* One shared Redis: what the tombstone leaves behind.                     *)

\* Where a request that begins after the tombstone can be.
Fruitless == {"idle", "lookup", "select", "tomb", "candidate", "hashLock", "bump", "advance"}

\* The fill of a snapshot from before the revocation would still be in time.
FillInTime == now < ExpiresAt /\ now < revokedAt + TTL

\* Redis c shows no active snapshot, and denies as long as one could be stored.
Sealed(c) ==
  /\ cache[c].st # "active"
  /\ FillInTime => /\ cache[c].st \in Denying
                   /\ cache[c].exp >= ExpiresAt \/ cache[c].exp >= revokedAt + TTL

\* A tombstone follows a commit, and a request that began after the tombstone
\* is where nothing admits it.
SealedHandlers ==
  \A p \in Procs :
    /\ proc[p].pc = "seal" => revokedAt > 0
    /\ proc[p].era = "after" => era = "after"
    /\ SharedRedis /\ proc[p].era = "after" => proc[p].pc \in Fruitless

\* After the tombstone the session is revoked and the one Redis sealed.
SealedData ==
  era = "after" => /\ revokedAt > 0
                   /\ SharedRedis => \A c \in Caches : Sealed(c)

\* A sealed session stays sealed while nothing it rests on changes.
LEMMA SealStands ==
  ASSUME SealedData, UNCHANGED <<now, revokedAt, cache, era>>
  PROVE  SealedData'
  BY DEF SealedData, Sealed, FillInTime

\* A stored deny state seals Redis for as long as an older snapshot could be
\* stored (the tombstone's ttl in writeUserSessionCache).
LEMMA DenySeals ==
  ASSUME GateInv, NEW p \in Procs, NEW st \in Denying, NEW ver,
         Store(CacheOf[p], st, ver, DenyExpiry), SharedRedis,
         UNCHANGED <<now, revokedAt>>, NEW c \in Caches
  PROVE  Sealed(c)'
<1>1. c = CacheOf[p] /\ CacheOf[p] \in Caches
  BY Nodes DEF SharedRedis
<1>2. cache'[c].st = st /\ cache'[c].exp = DenyExpiry
  BY <1>1 DEF Store, GateInv, TypeOK
<1>3. now \in Nat /\ revokedAt \in Nat /\ revokedAt <= now
  BY DEF GateInv, TypeOK, RowInv
<1>4. now < ExpiresAt => DenyExpiry >= ExpiresAt \/ DenyExpiry >= revokedAt + TTL
  BY <1>3, Times DEF DenyExpiry
<1>5. st # "active"
  BY DEF Denying
<1> QED
  BY <1>2, <1>4, <1>5 DEF Sealed, FillInTime, DenyExpiry

\* So writing one, or failing to, keeps what is sealed.
LEMMA SealDenied ==
  ASSUME GateInv, SealedData, NEW p \in Procs, NEW st \in Denying, NEW ver, NEW reply,
         DenyWrite(p, st, ver, reply), UNCHANGED <<now, revokedAt, era>>
  PROVE  SealedData'
<1>1. CASE UNCHANGED cache
  BY <1>1, SealStands
<1>2. CASE Store(CacheOf[p], st, ver, DenyExpiry)
  BY <1>2, DenySeals DEF SealedData
<1> QED
  BY <1>1, <1>2 DEF DenyWrite

\* An overdue snapshot is not written, and one in time is refused by the deny
\* state (FillCache after the tombstone, answered or not).
LEMMA SealRefusesFill ==
  ASSUME GateInv, SealedData, NEW p \in Procs, FillCache(p) \/ FillLost(p)
  PROVE  SealedData'
<1>1. UNCHANGED <<now, revokedAt, era>>
  BY DEF FillCache, FillLost
<1>2. CASE UNCHANGED cache
  BY <1>1, <1>2, SealStands
<1>3. CASE ~UNCHANGED cache
  <2>0. ActiveExpiry(proc[p].deadline) \in Nat /\ now \in Nat
    BY HandlerNow, Times DEF ActiveExpiry
  <2>1. ~(now >= ActiveExpiry(proc[p].deadline)) /\ Accepts(CacheOf[p], "active", proc[p].ver)
        /\ proc[p].pc = "fill"
    BY <1>3, <2>0 DEF FillCache, FillLost
  <2>2. ASSUME era = "after", SharedRedis
        PROVE  FALSE
    <3>1. revokedAt > 0 /\ Sealed(CacheOf[p])
      BY <2>2, Nodes DEF SealedData
    <3>2. now \in Nat /\ revokedAt \in Nat /\ proc[p].deadline \in Nat
      BY DEF GateInv, TypeOK, Handler
    <3>3. proc[p].deadline <= revokedAt + TTL
      BY <2>1, <3>1, <3>2 DEF GateInv, SnapshotInv, HasSnapshot, LastActive
    <3>4. now < ExpiresAt /\ now < proc[p].deadline
      BY <2>1, <3>2, Times DEF ActiveExpiry
    <3>5. FillInTime
      BY <3>2, <3>3, <3>4, Times DEF FillInTime
    <3> QED
      BY <2>1, <3>1, <3>5 DEF Sealed, Accepts
  <2> QED
    BY <1>1, <2>2 DEF SealedData
<1> QED
  BY <1>2, <1>3

\* The tombstone outlives the time for older snapshots.
LEMMA SealOutlives ==
  ASSUME GateInv, SealedData, Tick
  PROVE  SealedData'
<1> SUFFICES ASSUME era = "after", SharedRedis, NEW c \in Caches
             PROVE  Sealed(c)'
  BY DEF SealedData, Tick
<1>1. /\ now' = now + 1 /\ revokedAt' = revokedAt
      /\ cache'[c] = IF cache[c].exp <= now + 1 THEN NoEntry ELSE cache[c]
  BY DEF Tick
<1>2. now \in Nat /\ revokedAt \in Nat /\ cache[c].exp \in Nat
  BY DEF GateInv, TypeOK, CacheEntry
<1>3. Sealed(c)
  BY DEF SealedData
<1>4. NoEntry.st = "none"
  BY DEF NoEntry
<1>5. FillInTime' => FillInTime /\ ~(cache[c].exp <= now + 1)
  BY <1>1, <1>2, <1>3, Times DEF FillInTime, Sealed
<1>6. cache'[c].st # "active"
  BY <1>1, <1>3, <1>4 DEF Sealed
<1> QED
  BY <1>1, <1>3, <1>5, <1>6 DEF Sealed

\* A handler that goes on, answers or begins keeps what is known of handlers.
LEMMA SealedHandler ==
  ASSUME GateInv, SealedHandlers, NEW p \in Procs, NEW h, proc' = [proc EXCEPT ![p] = h],
         h.pc = "seal" => revokedAt' > 0, h.era = "after" => era' = "after",
         SharedRedis /\ h.era = "after" => h.pc \in Fruitless,
         revokedAt > 0 => revokedAt' > 0, era = "after" => era' = "after"
  PROVE  SealedHandlers'
<1>1. proc'[p] = h /\ \A q \in Procs \ {p} : proc'[q] = proc[q]
  BY DEF GateInv, TypeOK
<1>2. SharedRedis' <=> SharedRedis
  BY DEF SharedRedis
<1> QED
  BY <1>1, <1>2 DEF SealedHandlers

\* An answered handler is idle.
LEMMA SealedAnswer ==
  ASSUME GateInv, SealedHandlers, NEW p \in Procs, NEW v, Answer(p, v),
         revokedAt > 0 => revokedAt' > 0, era = "after" => era' = "after"
  PROVE  SealedHandlers'
<1>1. Idle.pc = "idle" /\ Idle.era = "before"
  BY DEF Idle
<1> QED
  BY <1>1, SealedHandler DEF Answer

\* A handler that goes on keeps the era it began in.
LEMMA SealedStep ==
  ASSUME GateInv, SealedHandlers, NEW p \in Procs, NEW h, Step(p, h),
         h.era = proc[p].era, h.pc = "seal" => revokedAt' > 0,
         SharedRedis /\ proc[p].era = "after" /\ proc[p].pc \in Fruitless => h.pc \in Fruitless,
         revokedAt > 0 => revokedAt' > 0, era = "after" => era' = "after"
  PROVE  SealedHandlers'
<1>1. /\ proc[p].era = "after" => era = "after"
      /\ SharedRedis /\ proc[p].era = "after" => proc[p].pc \in Fruitless
  BY DEF SealedHandlers
<1> QED
  BY <1>1, SealedHandler DEF Step

\* Finding the session active answers, or takes a refresh on.
LEMMA SealedFound ==
  ASSUME GateInv, SealedHandlers, NEW p \in Procs, NEW ver, Found(p, ver),
         SharedRedis /\ proc[p].era = "after" => proc[p].pc \notin Fruitless,
         UNCHANGED <<revokedAt, era>>
  PROVE  SealedHandlers'
<1>1. CASE proc[p].op = "refresh"
  <2> DEFINE h == [proc[p] EXCEPT !.pc = "userCheck", !.ver = ver]
  <2>1. h.pc = "userCheck" /\ h.era = proc[p].era
    BY DEF GateInv, TypeOK, Handler
  <2>2. Step(p, h)
    BY <1>1 DEF Found
  <2> HIDE DEF h
  <2> QED
    BY <2>1, <2>2, SealedStep
<1>2. CASE proc[p].op # "refresh"
  BY <1>2, SealedAnswer DEF Found
<1> QED
  BY <1>1, <1>2

\* With one shared Redis, requests that begin after the tombstone find no active
\* snapshot and no active row.
LEMMA SealedFindNothing ==
  ASSUME GateInv, SealedHandlers, SealedData, NEW p \in Procs, SharedRedis, proc[p].era = "after"
  PROVE  /\ proc[p].pc \in Fruitless
         /\ cache[CacheOf[p]].st # "active"
         /\ db.st # "active"
<1>1. era = "after" /\ proc[p].pc \in Fruitless
  BY DEF SealedHandlers
<1>2. revokedAt > 0 /\ Sealed(CacheOf[p])
  BY <1>1, Nodes DEF SealedData
<1>3. db.st # "active"
  BY <1>2 DEF GateInv, TypeOK, RowInv
<1> QED
  BY <1>1, <1>2, <1>3 DEF Sealed

\* The lookup of a session keeps the seal (GetUserSessionCached).
LEMMA SealLookup ==
  ASSUME GateInv, SealedHandlers, SealedData, NEW p \in Procs,
         \/ CacheHit(p) \/ CacheMiss(p) \/ SelectRow(p) \/ PublishInactive(p)
         \/ FillCache(p) \/ FillCompleted(p) \/ FillLost(p) \/ ConfirmSnapshot(p)
  PROVE  SealedHandlers' /\ SealedData'
<1>h. proc[p] \in Handler
  BY DEF GateInv, TypeOK
<1>a. ASSUME UNCHANGED <<now, revokedAt, cache, era>>, SealedHandlers'
      PROVE  SealedHandlers' /\ SealedData'
  BY <1>a, SealStands
<1>1. CASE CacheHit(p)
  <2>1. UNCHANGED <<now, revokedAt, cache, era>> /\ proc[p].pc = "lookup"
    BY <1>1 DEF CacheHit
  <2>2. CASE cache[CacheOf[p]].st = "active" /\ now < ExpiresAt
    <3>1. Found(p, cache[CacheOf[p]].ver)
      BY <1>1, <2>2 DEF CacheHit
    <3>2. SealedHandlers'
      BY <2>1, <2>2, <3>1, SealedFindNothing, SealedFound
    <3> QED
      BY <2>1, <3>2, <1>a
  <2>3. CASE ~(cache[CacheOf[p]].st = "active" /\ now < ExpiresAt)
    BY <1>1, <2>1, <2>3, <1>a, SealedAnswer DEF CacheHit
  <2> QED
    BY <2>2, <2>3
<1>2. CASE CacheMiss(p)
  <2> DEFINE h == [proc[p] EXCEPT !.pc = "select", !.deadline = now + TTL]
  <2>1. h.pc = "select" /\ h.era = proc[p].era
    BY <1>h DEF Handler
  <2>2. Step(p, h) /\ UNCHANGED <<now, revokedAt, cache, era>>
    BY <1>2 DEF CacheMiss
  <2> HIDE DEF h
  <2>3. SealedHandlers'
    BY <2>1, <2>2, SealedStep DEF Fruitless
  <2> QED
    BY <2>2, <2>3, <1>a
<1>3. CASE SelectRow(p)
  <2>1. UNCHANGED <<now, revokedAt, cache, era>> /\ proc[p].pc = "select"
    BY <1>3 DEF SelectRow
  <2>2. CASE Active
    <3> DEFINE h == [proc[p] EXCEPT !.pc = "fill", !.ver = db.ver]
    <3>1. h.pc = "fill" /\ h.era = proc[p].era
      BY <1>h DEF Handler
    <3>2. Step(p, h)
      BY <1>3, <2>2 DEF SelectRow
    <3>3. ~(SharedRedis /\ proc[p].era = "after")
      BY <2>2, SealedFindNothing DEF Active
    <3> HIDE DEF h
    <3>4. SealedHandlers'
      BY <2>1, <3>1, <3>2, <3>3, SealedStep
    <3> QED
      BY <2>1, <3>4, <1>a
  <2>3. CASE ~Active /\ db.st = "none"
    BY <1>3, <2>1, <2>3, <1>a, SealedAnswer DEF SelectRow
  <2>4. CASE ~Active /\ db.st # "none"
    <3> DEFINE h == [proc[p] EXCEPT !.pc = "tomb", !.ver = db.ver]
    <3>1. h.pc = "tomb" /\ h.era = proc[p].era
      BY <1>h DEF Handler
    <3>2. Step(p, h)
      BY <1>3, <2>4 DEF SelectRow
    <3> HIDE DEF h
    <3>3. SealedHandlers'
      BY <2>1, <3>1, <3>2, SealedStep DEF Fruitless
    <3> QED
      BY <2>1, <3>3, <1>a
  <2> QED
    BY <2>2, <2>3, <2>4
<1>4. CASE PublishInactive(p)
  <2>1. Answer(p, "deny") /\ UNCHANGED <<now, revokedAt, era>>
    BY <1>4 DEF PublishInactive
  <2>2. PICK reply : DenyWrite(p, "revoked", proc[p].ver, reply)
    BY <1>4 DEF PublishInactive
  <2> QED
    BY <2>1, <2>2, SealDenied, SealedAnswer DEF Denying
<1>5. CASE FillCache(p)
  <2>1. SealedData' /\ UNCHANGED <<revokedAt, era>> /\ proc[p].pc = "fill"
    BY <1>5, SealRefusesFill DEF FillCache
  <2>2. \/ Answer(p, "deny")
        \/ \E pc \in {"confirm", "filled"} : Step(p, [proc[p] EXCEPT !.pc = pc])
    BY <1>5 DEF FillCache, Goto
  <2>3. ASSUME NEW pc \in {"confirm", "filled"}, Step(p, [proc[p] EXCEPT !.pc = pc])
        PROVE  SealedHandlers'
    <3> DEFINE h == [proc[p] EXCEPT !.pc = pc]
    <3>1. h.pc = pc /\ h.era = proc[p].era /\ Step(p, h)
      BY <1>h, <2>3 DEF Handler
    <3> HIDE DEF h
    <3> QED
      BY <2>1, <3>1, SealedStep DEF Fruitless
  <2> QED
    BY <2>1, <2>2, <2>3, SealedAnswer
<1>6. CASE FillCompleted(p) \/ ConfirmSnapshot(p)
  <2>1. UNCHANGED <<now, revokedAt, cache, era>> /\ proc[p].pc \in {"filled", "confirm"}
    BY <1>6 DEF FillCompleted, ConfirmSnapshot
  <2>2. \/ Answer(p, "deny") \/ Found(p, proc[p].ver)
        \/ Step(p, [proc[p] EXCEPT !.pc = "confirm"])
    BY <1>6 DEF FillCompleted, ConfirmSnapshot, Goto
  <2>3. CASE Step(p, [proc[p] EXCEPT !.pc = "confirm"])
    <3> DEFINE h == [proc[p] EXCEPT !.pc = "confirm"]
    <3>1. h.pc = "confirm" /\ h.era = proc[p].era /\ Step(p, h)
      BY <1>h, <2>3 DEF Handler
    <3> HIDE DEF h
    <3>2. SealedHandlers'
      BY <2>1, <3>1, SealedStep DEF Fruitless
    <3> QED
      BY <2>1, <3>2, <1>a
  <2>4. CASE Found(p, proc[p].ver)
    BY <2>1, <2>4, <1>a, SealedFound DEF Fruitless
  <2>5. CASE Answer(p, "deny")
    BY <2>1, <2>5, <1>a, SealedAnswer
  <2> QED
    BY <2>2, <2>3, <2>4, <2>5
<1>7. CASE FillLost(p)
  <2>1. SealedData' /\ UNCHANGED <<revokedAt, era>> /\ proc[p].pc = "fill"
    BY <1>7, SealRefusesFill DEF FillLost
  <2>2. Answer(p, "deny") \/ Found(p, proc[p].ver)
    BY <1>7 DEF FillLost
  <2> QED
    BY <2>1, <2>2, SealedAnswer, SealedFound DEF Fruitless
<1> QED
  BY <1>1, <1>2, <1>3, <1>4, <1>5, <1>6, <1>7

\* So does the rotation of the refresh secret (RotateUserSessionRefresh).
LEMMA SealRotation ==
  ASSUME GateInv, SealedHandlers, SealedData, NEW p \in Procs,
         CheckUser(p) \/ RotateRead(p) \/ RotateSwap(p)
  PROVE  SealedHandlers' /\ SealedData'
<1>h. proc[p] \in Handler
  BY DEF GateInv, TypeOK
<1>1. UNCHANGED <<now, revokedAt, cache, era>> /\ proc[p].pc \in {"userCheck", "rotRead", "rotSwap"}
  BY DEF CheckUser, RotateRead, RotateSwap
<1>2. ASSUME NEW h, Step(p, h), h.era = proc[p].era, h.pc # "seal"
      PROVE  SealedHandlers'
  BY <1>1, <1>2, SealedStep DEF Fruitless
<1>3. CASE CheckUser(p)
  <2> DEFINE h == [proc[p] EXCEPT
       !.pc = IF proc[p].ver = userVer THEN "rotRead" ELSE "candidate",
       !.op = IF proc[p].ver = userVer THEN @ ELSE "security"]
  <2>1. h.pc # "seal" /\ h.era = proc[p].era
    BY <1>h DEF Handler
  <2>2. Step(p, h)
    BY <1>3 DEF CheckUser
  <2> HIDE DEF h
  <2> QED
    BY <1>1, <1>2, <2>1, <2>2, SealStands
<1>4. CASE RotateRead(p)
  <2> DEFINE f == [proc[p] EXCEPT !.pc = "rotSwap", !.ver = db.ver, !.deadline = now + TTL]
  <2> DEFINE g == [proc[p] EXCEPT !.pc = "fence", !.op = "reuse", !.ver = db.ver]
  <2>1. f.pc # "seal" /\ f.era = proc[p].era /\ g.pc # "seal" /\ g.era = proc[p].era
    BY <1>h DEF Handler
  <2>2. Answer(p, "deny") \/ Answer(p, "admit") \/ Step(p, f) \/ Step(p, g)
    BY <1>4 DEF RotateRead
  <2> HIDE DEF f, g
  <2>3. SealedHandlers'
    BY <1>1, <1>2, <2>1, <2>2, SealedAnswer
  <2> QED
    BY <1>1, <2>3, SealStands
<1>5. CASE RotateSwap(p)
  <2> DEFINE f == [proc[p] EXCEPT !.pc = "fill", !.op = "rotated"]
  <2> DEFINE g == [proc[p] EXCEPT !.pc = "rotRead", !.tries = @ + 1]
  <2>1. f.pc # "seal" /\ f.era = proc[p].era /\ g.pc # "seal" /\ g.era = proc[p].era
    BY <1>h DEF Handler
  <2>2. Answer(p, "deny") \/ Step(p, f) \/ Step(p, g)
    BY <1>5 DEF RotateSwap
  <2> HIDE DEF f, g
  <2>3. SealedHandlers'
    BY <1>1, <1>2, <2>1, <2>2, SealedAnswer
  <2> QED
    BY <1>1, <2>3, SealStands
<1> QED
  BY <1>3, <1>4, <1>5

\* A handler past its check of the row, with nothing new in Redis or the row,
\* goes on with any step but the last of a revocation, or answers.
LEMMA SealedOnward ==
  ASSUME GateInv, SealedHandlers, NEW p \in Procs, UNCHANGED <<revokedAt, era>>,
         proc[p].pc \notin Fruitless \/ ~(SharedRedis /\ proc[p].era = "after")
  PROVE  /\ \A h : Step(p, h) /\ h.era = proc[p].era /\ h.pc # "seal" => SealedHandlers'
         /\ Answer(p, "deny") => SealedHandlers'
<1>1. ASSUME NEW h, Step(p, h), h.era = proc[p].era, h.pc # "seal"
      PROVE  SealedHandlers'
  BY <1>1, SealedStep
<1>2. ASSUME Answer(p, "deny")
      PROVE  SealedHandlers'
  BY <1>2, SealedAnswer
<1> QED
  BY <1>1, <1>2

\* The row is revoked once, before any tombstone.
LEMMA SealedRevoke ==
  ASSUME GateInv, SealedHandlers, SealedData, NEW p \in Procs, db.st = "active",
         revokedAt' = now, UNCHANGED era, proc[p].pc \notin Fruitless,
         NEW h, Step(p, h), h.era = proc[p].era
  PROVE  SealedHandlers' /\ SealedData'
<1>1. revokedAt = 0 /\ now > 0
  BY DEF GateInv, RowInv
<1>2. era # "after"
  BY <1>1 DEF SealedData
<1>3. SealedHandlers'
  BY <1>1, SealedStep
<1> QED
  BY <1>2, <1>3 DEF SealedData

\* The revocation by id keeps the seal up to its commit (RevokeUserSession).
LEMMA SealRevocation ==
  ASSUME GateInv, SealedHandlers, SealedData, NEW p \in Procs,
         ReadCandidate(p) \/ WriteFence(p) \/ CommitRevocation(p)
  PROVE  SealedHandlers' /\ SealedData'
<1>h. proc[p] \in Handler
  BY DEF GateInv, TypeOK
<1>1. CASE ReadCandidate(p)
  <2> DEFINE h == [proc[p] EXCEPT !.pc = "fence", !.ver = db.ver]
  <2>1. h.pc # "seal" /\ h.era = proc[p].era
    BY <1>h DEF Handler
  <2>2. UNCHANGED <<now, revokedAt, cache, era>>
    BY <1>1 DEF ReadCandidate
  <2>3. (Active /\ Step(p, h)) \/ Answer(p, "deny")
    BY <1>1 DEF ReadCandidate
  <2> HIDE DEF h
  <2>4. CASE Active /\ Step(p, h)
    <3>1. ~(SharedRedis /\ proc[p].era = "after")
      BY <2>4, SealedFindNothing DEF Active
    <3> QED
      BY <2>1, <2>2, <2>4, <3>1, SealedOnward, SealStands
  <2>5. CASE Answer(p, "deny")
    BY <2>2, <2>5, SealedAnswer, SealStands
  <2> QED
    BY <2>3, <2>4, <2>5
<1>2. CASE WriteFence(p)
  <2> DEFINE h == [proc[p] EXCEPT !.pc = "commit"]
  <2>1. h.pc # "seal" /\ h.era = proc[p].era
    BY <1>h DEF Handler
  <2>2. UNCHANGED <<now, revokedAt, era>> /\ proc[p].pc \notin Fruitless
    BY <1>2 DEF WriteFence, Fruitless
  <2>3. PICK reply : /\ DenyWrite(p, "revoking", proc[p].ver, reply)
                     /\ Step(p, h) \/ Answer(p, "deny")
    BY <1>2 DEF WriteFence, Goto
  <2> HIDE DEF h
  <2>4. SealedHandlers'
    BY <2>1, <2>2, <2>3, SealedOnward
  <2> QED
    BY <2>2, <2>3, <2>4, SealDenied DEF Denying
<1>3. CASE CommitRevocation(p)
  <2> DEFINE h == [proc[p] EXCEPT !.pc = "seal",
                        !.ver = IF proc[p].op = "revokeAll" THEN db.ver ELSE @]
  <2>1. h.era = proc[p].era
    BY <1>h DEF Handler
  <2>2. UNCHANGED <<now, cache, era>> /\ proc[p].pc \notin Fruitless
    BY <1>3 DEF CommitRevocation, Fruitless
  <2>3. \/ ActiveAt(start[p]) /\ revokedAt' = now /\ Step(p, h)
        \/ Answer(p, "deny") /\ UNCHANGED revokedAt
    BY <1>3 DEF CommitRevocation
  <2> HIDE DEF h
  <2>4. CASE ActiveAt(start[p]) /\ revokedAt' = now /\ Step(p, h)
    BY <2>1, <2>2, <2>4, SealedRevoke DEF ActiveAt
  <2>5. CASE Answer(p, "deny") /\ UNCHANGED revokedAt
    BY <2>2, <2>5, SealedAnswer, SealStands
  <2> QED
    BY <2>3, <2>4, <2>5
<1> QED
  BY <1>1, <1>2, <1>3

\* So does the logout by refresh secret (RevokeUserSessionByRefreshHash).
LEMMA SealLogout ==
  ASSUME GateInv, SealedHandlers, SealedData, NEW p \in Procs,
         LockByHash(p) \/ HashFence(p) \/ HashCommit(p)
  PROVE  SealedHandlers' /\ SealedData'
<1>h. proc[p] \in Handler
  BY DEF GateInv, TypeOK
<1>1. CASE LockByHash(p)
  <2> DEFINE h == [proc[p] EXCEPT !.pc = "hashFence", !.ver = db.ver]
  <2>1. h.pc # "seal" /\ h.era = proc[p].era
    BY <1>h DEF Handler
  <2>2. UNCHANGED <<now, revokedAt, cache, era>>
    BY <1>1 DEF LockByHash
  <2>3. (ActiveAt(start[p]) /\ Step(p, h)) \/ Answer(p, "deny")
    BY <1>1 DEF LockByHash
  <2> HIDE DEF h
  <2>4. CASE ActiveAt(start[p]) /\ Step(p, h)
    <3>1. ~(SharedRedis /\ proc[p].era = "after")
      BY <2>4, SealedFindNothing DEF ActiveAt
    <3> QED
      BY <2>1, <2>2, <2>4, <3>1, SealedOnward, SealStands
  <2>5. CASE Answer(p, "deny")
    BY <2>2, <2>5, SealedAnswer, SealStands
  <2> QED
    BY <2>3, <2>4, <2>5
<1>2. CASE HashFence(p)
  <2> DEFINE h == [proc[p] EXCEPT !.pc = "hashCommit"]
  <2>1. h.pc # "seal" /\ h.era = proc[p].era
    BY <1>h DEF Handler
  <2>2. UNCHANGED <<now, revokedAt, era>> /\ proc[p].pc \notin Fruitless
    BY <1>2 DEF HashFence, Fruitless
  <2>3. PICK reply : /\ DenyWrite(p, "revoking", proc[p].ver, reply)
                     /\ Step(p, h) \/ Answer(p, "deny")
    BY <1>2 DEF HashFence, Goto
  <2> HIDE DEF h
  <2>4. SealedHandlers'
    BY <2>1, <2>2, <2>3, SealedOnward
  <2> QED
    BY <2>2, <2>3, <2>4, SealDenied DEF Denying
<1>3. CASE HashCommit(p)
  <2> DEFINE h == [proc[p] EXCEPT !.pc = "seal"]
  <2>1. h.era = proc[p].era
    BY <1>h DEF Handler
  <2>2. /\ revokedAt' = now /\ UNCHANGED era /\ Step(p, h)
        /\ proc[p].pc = "hashCommit" /\ proc[p].pc \notin Fruitless
    BY <1>3 DEF HashCommit, Goto, Fruitless
  <2>3. db.st = "active"
    BY <2>2, Nodes DEF GateInv, RowInv
  <2> HIDE DEF h
  <2> QED
    BY <2>1, <2>2, <2>3, SealedRevoke
<1> QED
  BY <1>1, <1>2, <1>3

\* The tombstone that Redis stores is the seal; one that is lost or refused
\* changes nothing.
LEMMA SealTombstone ==
  ASSUME GateInv, SealedHandlers, SealedData, NEW p \in Procs, WriteTombstone(p)
  PROVE  SealedHandlers' /\ SealedData'
<1>1. /\ proc[p].pc = "seal" /\ Answer(p, "deny") /\ UNCHANGED <<now, revokedAt>>
      /\ revokedAt > 0
  BY DEF WriteTombstone, SealedHandlers
<1>2. \/ UNCHANGED <<cache, era>>
      \/ era' = "after" /\ Store(CacheOf[p], "revoked", proc[p].ver, DenyExpiry)
  BY DEF WriteTombstone, DenyWrite
<1>3. SealedHandlers'
  BY <1>1, <1>2, SealedAnswer
<1>4. CASE UNCHANGED <<cache, era>>
  BY <1>1, <1>3, <1>4, SealStands
<1>5. CASE era' = "after" /\ Store(CacheOf[p], "revoked", proc[p].ver, DenyExpiry)
  <2>1. ASSUME SharedRedis, NEW c \in Caches
        PROVE  Sealed(c)'
    BY <1>1, <1>5, <2>1, DenySeals DEF Denying
  <2> QED
    BY <1>1, <1>3, <2>1 DEF SealedData, SharedRedis
<1> QED
  BY <1>2, <1>4, <1>5

\* A change of security settings finds no row to follow it
\* (AdvanceCurrentSessionSecurity).
LEMMA SealAdvance ==
  ASSUME GateInv, SealedHandlers, SealedData, NEW p \in Procs,
         BumpUserAuthVersion(p) \/ AdvanceUserSessionAuthVersion(p)
  PROVE  SealedHandlers' /\ SealedData'
<1>h. proc[p] \in Handler
  BY DEF GateInv, TypeOK
<1>0. UNCHANGED <<now, revokedAt, cache, era>>
  BY DEF BumpUserAuthVersion, AdvanceUserSessionAuthVersion
<1>1. CASE BumpUserAuthVersion(p)
  <2> DEFINE h == [proc[p] EXCEPT !.pc = "advance", !.ver = userVer + 1,
                             !.deadline = now + TTL]
  <2>1. h.pc = "advance" /\ h.era = proc[p].era
    BY <1>h DEF Handler
  <2>2. Step(p, h)
    BY <1>1 DEF BumpUserAuthVersion
  <2> HIDE DEF h
  <2>3. SealedHandlers'
    BY <1>0, <2>1, <2>2, SealedStep DEF Fruitless
  <2> QED
    BY <1>0, <2>3, SealStands
<1>2. CASE AdvanceUserSessionAuthVersion(p)
  <2> DEFINE h == [proc[p] EXCEPT !.pc = "fill"]
  <2>1. h.pc # "seal" /\ h.era = proc[p].era
    BY <1>h DEF Handler
  <2>2. (Active /\ Step(p, h)) \/ Answer(p, "deny")
    BY <1>2 DEF AdvanceUserSessionAuthVersion
  <2> HIDE DEF h
  <2>3. CASE Active /\ Step(p, h)
    <3>1. ~(SharedRedis /\ proc[p].era = "after")
      BY <2>3, SealedFindNothing DEF Active
    <3> QED
      BY <1>0, <2>1, <2>3, <3>1, SealedOnward, SealStands
  <2>4. CASE Answer(p, "deny")
    BY <1>0, <2>4, SealedAnswer, SealStands
  <2> QED
    BY <2>2, <2>3, <2>4
<1> QED
  BY <1>1, <1>2

\* A request begins at the first call of its operation and remembers the era.
LEMMA SealBegin ==
  ASSUME GateInv, SealedHandlers, SealedData, NEW p \in Procs,
         \/ \E op \in Ops : \E tok \in Presented(op) : Begin(p, op, tok)
         \/ CreateUserSession(p)
  PROVE  SealedHandlers' /\ SealedData'
<1>0. UNCHANGED <<now, revokedAt, cache, era>>
  BY DEF Begin, CreateUserSession
<1>1. ASSUME NEW op \in Ops, NEW tok, Begin(p, op, tok)
      PROVE  SealedHandlers'
  <2> DEFINE h == [Idle EXCEPT !.op = op, !.pc = First(op), !.tok = tok, !.era = era]
  <2>1. h.pc = First(op) /\ h.era = era
    BY DEF Idle
  <2>2. First(op) \in {"lookup", "bump", "hashLock", "candidate"}
    BY SessionAssumption DEF First
  <2>3. proc' = [proc EXCEPT ![p] = h]
    BY <1>1 DEF Begin
  <2> HIDE DEF h
  <2>4. h.pc \in Fruitless /\ h.pc # "seal"
    BY <2>1, <2>2 DEF Fruitless
  <2> QED
    BY <1>0, <2>1, <2>3, <2>4, SealedHandler
<1>2. ASSUME CreateUserSession(p)
      PROVE  SealedHandlers'
  <2> DEFINE h == [Idle EXCEPT !.op = "create", !.pc = "fill",
                               !.ver = userVer, !.deadline = now + TTL]
  <2>1. h.pc = "fill" /\ h.era = "before"
    BY DEF Idle
  <2>2. proc' = [proc EXCEPT ![p] = h]
    BY <1>2 DEF CreateUserSession
  <2> HIDE DEF h
  <2> QED
    BY <1>0, <2>1, <2>2, SealedHandler
<1> QED
  BY <1>0, <1>1, <1>2, SealStands

\* Before the first request nothing is sealed.
LEMMA SealInit == Init => SealedHandlers /\ SealedData
<1>1. Idle.pc = "idle" /\ Idle.era = "before"
  BY DEF Idle
<1> QED
  BY <1>1 DEF Init, SealedHandlers, SealedData

\* Every step keeps the seal.
LEMMA SealStep == GateInv /\ SealedHandlers /\ SealedData /\ [Next]_vars
                    => SealedHandlers' /\ SealedData'
<1> SUFFICES ASSUME GateInv, SealedHandlers, SealedData, [Next]_vars
             PROVE  SealedHandlers' /\ SealedData'
  OBVIOUS
<1>1. CASE UNCHANGED vars \/ DeleteOldSession
  <2>1. UNCHANGED <<now, revokedAt, cache, era, proc>>
    BY <1>1 DEF vars, DeleteOldSession
  <2> QED
    BY <2>1, SealStands DEF SealedHandlers, SharedRedis
<1>2. CASE Tick
  <2>1. UNCHANGED <<revokedAt, era, proc>>
    BY <1>2 DEF Tick
  <2> QED
    BY <1>2, <2>1, SealOutlives DEF SealedHandlers, SharedRedis
<1> QED
  BY <1>1, <1>2, SealBegin, SealLookup, SealRotation, SealRevocation, SealTombstone,
     SealLogout, SealAdvance DEF Next

(* Once the final tombstone has reached the one Redis, no active snapshot  *)
(* is stored there, and a deny state is, for as long as a snapshot read    *)
(* before the revocation could still be filled in.                         *)
THEOREM SealInvariant == Spec => [](GateInv /\ SealedHandlers /\ SealedData)
  BY InitGate, GateStep, SealInit, SealStep, PTL DEF Spec

\* Only a session found active, or a rotation still open, admits.
LEMMA AdmitsOnlyFound ==
  ASSUME GateInv, [Next]_vars, NEW p \in Procs, verdict'[p] = "admit", verdict[p] # "admit"
  PROVE  proc[p].pc \notin Fruitless \/ (proc[p].pc = "lookup" /\ cache[CacheOf[p]].st = "active")
<1>v. verdict \in [Procs -> {"none", "admit", "deny"}]
  BY DEF GateInv, TypeOK
<1>1. ASSUME NEW q \in Procs, NEW v, Answer(q, v)
      PROVE  p = q /\ v = "admit"
  BY <1>1, <1>v DEF Answer
<1>2. ASSUME NEW q \in Procs, verdict' = [verdict EXCEPT ![q] = "none"]
      PROVE  FALSE
  BY <1>2, <1>v
<1>3. ~UNCHANGED verdict
  OBVIOUS
<1>4. ASSUME NEW q \in Procs,
             \/ \E op \in Ops : \E tok \in Presented(op) : Begin(q, op, tok)
             \/ CreateUserSession(q)
      PROVE  FALSE
  BY <1>2, <1>4 DEF Begin, CreateUserSession
<1>5. ASSUME NEW q \in Procs,
             \/ CacheMiss(q) \/ SelectRow(q) \/ PublishInactive(q) \/ FillCache(q)
             \/ CheckUser(q) \/ RotateSwap(q) \/ ReadCandidate(q) \/ WriteFence(q)
             \/ CommitRevocation(q) \/ WriteTombstone(q) \/ LockByHash(q) \/ HashFence(q)
             \/ HashCommit(q) \/ BumpUserAuthVersion(q) \/ AdvanceUserSessionAuthVersion(q)
      PROVE  FALSE
  <2>1. UNCHANGED verdict \/ Answer(q, "deny")
    BY <1>5 DEF CacheMiss, SelectRow, PublishInactive, FillCache, CheckUser, RotateSwap,
       ReadCandidate, WriteFence, CommitRevocation, WriteTombstone, LockByHash, HashFence,
       HashCommit, BumpUserAuthVersion, AdvanceUserSessionAuthVersion, Goto, Step
  <2> QED
    BY <2>1, <1>1, <1>3
<1>6. ASSUME NEW q \in Procs,
             FillCompleted(q) \/ FillLost(q) \/ ConfirmSnapshot(q) \/ RotateRead(q)
      PROVE  p = q /\ proc[q].pc \notin Fruitless
  <2>1. UNCHANGED verdict \/ \E v : Answer(q, v)
    BY <1>6 DEF FillCompleted, FillLost, ConfirmSnapshot, RotateRead, Found, Goto, Step
  <2>2. proc[q].pc \in {"filled", "fill", "confirm", "rotRead"}
    BY <1>6 DEF FillCompleted, FillLost, ConfirmSnapshot, RotateRead
  <2> QED
    BY <2>1, <2>2, <1>1, <1>3 DEF Fruitless
<1>7. ASSUME NEW q \in Procs, CacheHit(q)
      PROVE  p = q /\ proc[q].pc = "lookup" /\ cache[CacheOf[q]].st = "active"
  <2>1. CASE cache[CacheOf[q]].st = "active"
    <3>1. UNCHANGED verdict \/ \E v : Answer(q, v)
      BY <1>7 DEF CacheHit, Found, Step
    <3> QED
      BY <1>7, <2>1, <3>1, <1>1, <1>3 DEF CacheHit
  <2>2. CASE cache[CacheOf[q]].st # "active"
    <3>1. Answer(q, "deny")
      BY <1>7, <2>2 DEF CacheHit
    <3> QED
      BY <3>1, <1>1
  <2> QED
    BY <2>1, <2>2
<1>8. CASE DeleteOldSession \/ Tick \/ UNCHANGED vars
  BY <1>8, <1>3 DEF DeleteOldSession, Tick, vars
<1> QED
  BY <1>4, <1>5, <1>6, <1>7, <1>8 DEF Next

(* With one shared Redis a revocation whose final tombstone was stored is  *)
(* immediate and final: no request that begins afterwards is admitted,     *)
(* neither while the tombstone lives nor by a delayed fill after it        *)
(* (writeUserSessionCache, GetUserSessionCached).                          *)
THEOREM SealFinal == Spec => SealedIsFinal
<1> DEFINE Final == \A p \in Procs :
             SharedRedis /\ proc[p].era = "after" /\ verdict'[p] # verdict[p]
               => verdict'[p] # "admit"
<1>1. GateInv /\ SealedHandlers /\ SealedData /\ [Next]_vars => [Final]_vars
  <2> SUFFICES ASSUME GateInv, SealedHandlers, SealedData, [Next]_vars, NEW p \in Procs,
                      SharedRedis, proc[p].era = "after", verdict'[p] # verdict[p],
                      verdict'[p] = "admit"
               PROVE  FALSE
    OBVIOUS
  <2> QED
    BY SealedFindNothing, AdmitsOnlyFound
<1> QED
  BY <1>1, SealInvariant, PTL DEF Spec, SealedIsFinal
=============================================================================
