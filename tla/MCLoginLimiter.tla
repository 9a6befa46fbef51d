--------------------------- MODULE MCLoginLimiter ---------------------------
(* Instances of LoginLimiter for TLC.                                      *)
EXTENDS LoginLimiter, TLC

Symmetry == Permutations(Login) \cup Permutations(Ip) \cup Permutations(User)
=============================================================================
