----------------------------- MODULE MCIdentity -----------------------------
(***************************************************************************)
(* Instances of Identity for TLC.                                          *)
(***************************************************************************)
EXTENDS Identity, TLC

CONSTANTS n1, n2, a1, c1

OneName == {n1}
TwoNames == {n1, n2}
OneIP == {2}
OneApi == {a1}
OneCli == {c1}
Nobody == {}

Symmetry == Permutations({n1, n2})
=============================================================================
