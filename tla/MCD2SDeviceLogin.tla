-------------------------- MODULE MCD2SDeviceLogin --------------------------
(* Instances of D2SDeviceLogin: exchanges and requests are interchangeable. *)
EXTENDS D2SDeviceLogin, TLC

CONSTANTS ua, ub, ca, cb, e1, e2, e3, r1, r2

Symmetry == Permutations(Exchanges) \cup Permutations(Users) \cup Permutations(Requests)
=============================================================================
