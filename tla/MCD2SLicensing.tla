--------------------------- MODULE MCD2SLicensing ---------------------------
(* Small instances of D2SLicensing.                                        *)
EXTENDS D2SLicensing, TLC

Symmetry == Permutations(Users) \cup Permutations(Licenses) \cup
            Permutations(Devices) \cup Permutations(Tokens) \cup Permutations(Requests)
=============================================================================
