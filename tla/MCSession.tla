------------------------------ MODULE MCSession ------------------------------
(* Session with two concurrent requests on one key and two route classes. *)
EXTENDS Session, TLC

CONSTANTS r1, r2, k1, local, audit

MCRequests == {r1, r2}
MCSessions == {k1}
MCRoutes == {local, audit}
MCSymmetry == Permutations(MCRequests) \union Permutations(MCRoutes)

=============================================================================
