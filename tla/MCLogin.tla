------------------------------ MODULE MCLogin ------------------------------
(* The instances of Login that TLC checks.                                 *)
EXTENDS Login, TLC

(* No definition tells one control plane, or one login, from another.      *)
Symmetry == Permutations(Bases) \cup Permutations(Logins)
=============================================================================
