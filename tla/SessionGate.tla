---------------------------- MODULE SessionGate ----------------------------
(***************************************************************************)
(* What the login session control plane promises to the rest of the        *)
(* server, whatever caches stand between a request and the user_sessions   *)
(* table: the row decides, a revocation is final, and a request that       *)
(* starts Window or more after the revocation was committed is refused.    *)
(***************************************************************************)
EXTENDS Naturals

CONSTANTS Procs,    \* request handlers
          Window    \* how long a revocation may take to reach everybody

VARIABLES now,       \* the clock
          revokedAt, \* when the revocation was committed, 0 while it was not
          start,     \* when each open request began, 0 for a handler without one
          verdict    \* what each handler answered: "none", "admit", "deny"

gateVars == <<now, revokedAt, start, verdict>>

Init == /\ now = 1
        /\ revokedAt = 0
        /\ start = [p \in Procs |-> 0]
        /\ verdict = [p \in Procs |-> "none"]

(* A request that began before the revocation had settled may be admitted. *)
MayAdmit(p) == revokedAt = 0 \/ start[p] < revokedAt + Window

Tick == now' = now + 1 /\ UNCHANGED <<revokedAt, start, verdict>>

Revoke == /\ revokedAt = 0
          /\ revokedAt' = now
          /\ UNCHANGED <<now, start, verdict>>

Ask(p) == /\ start[p] = 0
          /\ start' = [start EXCEPT ![p] = now]
          /\ verdict' = [verdict EXCEPT ![p] = "none"]
          /\ UNCHANGED <<now, revokedAt>>

Admit(p) == /\ start[p] > 0 /\ MayAdmit(p)
            /\ verdict' = [verdict EXCEPT ![p] = "admit"]
            /\ start' = [start EXCEPT ![p] = 0]
            /\ UNCHANGED <<now, revokedAt>>

Deny(p) == /\ start[p] > 0
           /\ verdict' = [verdict EXCEPT ![p] = "deny"]
           /\ start' = [start EXCEPT ![p] = 0]
           /\ UNCHANGED <<now, revokedAt>>

Next == \/ Tick
        \/ Revoke
        \/ \E p \in Procs : Ask(p) \/ Admit(p) \/ Deny(p)

Spec == Init /\ [][Next]_gateVars

=============================================================================
