--------------------------- MODULE MCUserSessions ---------------------------
(* Handlers p1 and p2 on nodes that share one Redis; UserSessionsProofs     *)
(* covers every topology.                                                   *)
EXTENDS UserSessions, TLC

CONSTANTS p1, p2, r1

Symmetric == Permutations({p1, p2})

OneRedis == [p \in {p1, p2} |-> r1]
=============================================================================
